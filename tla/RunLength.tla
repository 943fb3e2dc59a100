------------------------------ MODULE RunLength ------------------------------
(***************************************************************************)
(* The run-length encoder of class packer: what binary_log::log appends to *)
(* the log stream and to the runlength stream.  A call writes its format   *)
(* string's index only when it begins a run, and always the values of its  *)
(* non-constant arguments; the length of a run goes to the runlength       *)
(* stream when the run ends, and only if it is above one.                  *)
(*                                                                         *)
(* A stream is a sequence of tokens, in the order of the bytes: buffering  *)
(* is the business of module BufferedFile.  The values of one call are one *)
(* token, labelled with the call they belong to, so that a reader taking   *)
(* the wrong bytes is told from one taking the right ones.                 *)
(***************************************************************************)
EXTENDS Integers, Sequences

CONSTANTS
  NumFormats,  \* format strings registered in the index file
  NoArgs,      \* those whose calls write no values to the log file
  MayFlush,    \* may the program call flush() before it destroys the logger?
  MaxCalls     \* bound: calls of log in one behaviour

Index == 0 .. NumFormats - 1

ASSUME FormatsAssumption ==
  /\ NumFormats \in Nat \ {0}
  /\ NoArgs \subseteq Index
  /\ MayFlush \in BOOLEAN
  /\ MaxCalls \in Nat

VARIABLES
  m_runlength_index,    \* index of the current run
  m_current_runlength,  \* its calls not yet accounted for
  log,                  \* the log stream
  runlengths,           \* the runlength stream: <index, count> records
  state,                \* "open", or "closed" by the destructors
  calls,                \* history: the index of every call so far
  runs,                 \* history: the runs, see StartedRun
  orphaned              \* history: a call fell outside every run

encoder == <<m_runlength_index, m_current_runlength, log, runlengths, state>>
history == <<calls, runs, orphaned>>
encoderVars == <<encoder, history>>

-----------------------------------------------------------------------------

IndexToken(i) == [kind |-> "index", index |-> i, call |-> 0]
ArgsToken(i, n) == [kind |-> "args", index |-> i, call |-> n]

\* update_log_file: nothing for a format whose arguments are all constants.
Args(i, n) == IF i \in NoArgs THEN <<>> ELSE <<ArgsToken(i, n)>>

Token == [kind : {"index", "args"}, index : Index, call : Nat]
Record == [index : Index, count : Nat]
Run == [index : Index, first : Nat, count : Nat, pos : Nat, record : Nat]

EncoderInit ==
  /\ m_runlength_index = 0
  /\ m_current_runlength = 0
  /\ log = <<>>
  /\ runlengths = <<>>
  /\ state = "open"
  /\ calls = <<>>
  /\ runs = <<>>
  /\ orphaned = FALSE

\* Slip: a run of two is taken for a single call.
EndsRunAboveTwo == m_current_runlength > 2

\* write_current_runlength_to_runlength_file, which resets the count only
\* when it writes a record.
EndsRepeatedRun == m_current_runlength > 1

RecordsWithCurrent ==
  IF EndsRepeatedRun
  THEN Append(runlengths,
              [index |-> m_runlength_index, count |-> m_current_runlength])
  ELSE runlengths

\* pack_format_string_index: does this call write its index?
WritesIndex(i) ==
  IF m_runlength_index = 0 /\ i = 0
  THEN m_current_runlength = 0
  ELSE m_runlength_index # i

(***************************************************************************)
(* History.  A run is the calls that share one index in the log stream:    *)
(* "first" is its first call and "count" their number, "pos" the position  *)
(* of the index in the log stream and "record" the position of its length  *)
(* in the runlength stream, 0 if it has none.                              *)
(***************************************************************************)
StartedRun(i) ==
  [index |-> i, first |-> Len(calls) + 1, count |-> 1,
   pos |-> Len(log) + 1, record |-> 0]

\* A run that goes on after its length was written keeps its first record.
RecordOfCurrent ==
  IF runs[Len(runs)].record = 0 THEN Len(runlengths) + 1
  ELSE runs[Len(runs)].record

RunsWithRecord ==
  IF EndsRepeatedRun
  THEN [runs EXCEPT ![Len(runs)].record = RecordOfCurrent]
  ELSE runs

RunsWithCall(i) ==
  IF WritesIndex(i)
  THEN Append(IF m_runlength_index # i THEN RunsWithRecord ELSE runs,
              StartedRun(i))
  ELSE [runs EXCEPT ![Len(runs)].count = @ + 1]

\* A call that counts towards a run whose length is already in the file.
Orphan(i) == ~ WritesIndex(i) /\ m_current_runlength = 0

-----------------------------------------------------------------------------

\* Call sites are numbered in the order in which they first run (module
\* CallSites), so an index is new only if the one before it is in use.
InUseOrNext(i) == i = 0 \/ \E n \in 1 .. Len(calls) : calls[n] >= i - 1

\* binary_log::log(pos, args...)
Log(i) ==
  /\ state = "open"
  /\ InUseOrNext(i)
  /\ Len(calls) < MaxCalls
  /\ log' = log \o (IF WritesIndex(i) THEN <<IndexToken(i)>> ELSE <<>>)
                \o Args(i, Len(calls) + 1)
  /\ IF m_runlength_index # i
     THEN /\ runlengths' = RecordsWithCurrent
          /\ m_current_runlength' = 1
     ELSE /\ runlengths' = runlengths
          /\ m_current_runlength' = m_current_runlength + 1
  /\ m_runlength_index' = i
  /\ calls' = Append(calls, i)
  /\ runs' = RunsWithCall(i)
  /\ orphaned' = (orphaned \/ Orphan(i))
  /\ UNCHANGED state

\* Slip: the count is not reset once it is written.
WriteWithoutReset ==
  /\ runlengths' = RecordsWithCurrent
  /\ runs' = RunsWithRecord
  /\ UNCHANGED <<m_runlength_index, m_current_runlength, log, calls, orphaned>>

\* Slip: a flush writes only what the arrays hold.
WriteNothing ==
  UNCHANGED <<m_runlength_index, m_current_runlength, log, runlengths, calls,
              runs, orphaned>>

\* flush_runlength_file: the current run's length is written, the run's index
\* stays in m_runlength_index.
WriteCurrentRunlength ==
  /\ runlengths' = RecordsWithCurrent
  /\ m_current_runlength' = IF EndsRepeatedRun THEN 0 ELSE m_current_runlength
  /\ runs' = RunsWithRecord
  /\ UNCHANGED <<m_runlength_index, log, calls, orphaned>>

\* binary_log::flush() in the middle of the program.
Flush ==
  /\ MayFlush
  /\ state = "open"
  /\ WriteCurrentRunlength
  /\ UNCHANGED state

\* ~binary_log and then ~packer, which both flush: the second finds nothing.
Close ==
  /\ state = "open"
  /\ WriteCurrentRunlength
  /\ state' = "closed"

EncoderNext ==
  \/ \E i \in Index : Log(i)
  \/ Flush
  \/ Close

EncoderSpec == EncoderInit /\ [][EncoderNext]_encoderVars
-----------------------------------------------------------------------------

EncoderTypeOK ==
  /\ m_runlength_index \in Index
  /\ m_current_runlength \in Nat
  /\ log \in Seq(Token)
  /\ runlengths \in Seq(Record)
  /\ state \in {"open", "closed"}
  /\ calls \in Seq(Index)
  /\ runs \in Seq(Run)
  /\ orphaned \in BOOLEAN

\* Tokens a run takes in the log stream.
Tokens(r) == 1 + IF r.index \in NoArgs THEN 0 ELSE r.count

\* No call is lost, counted twice or counted under another format: the runs
\* cut the sequence of calls into consecutive pieces of one format each.
RunsPartitionCalls ==
  /\ IF runs = <<>> THEN calls = <<>> ELSE runs[1].first = 1
  /\ \A j \in 1 .. Len(runs) :
       /\ runs[j].first + runs[j].count
            = IF j = Len(runs) THEN Len(calls) + 1 ELSE runs[j + 1].first
       /\ \A n \in runs[j].first .. runs[j].first + runs[j].count - 1 :
            calls[n] = runs[j].index

\* The log stream is the runs in order, each its index followed by the values
\* of its calls: no index is missing or repeated inside a run.
LogHoldsRuns ==
  /\ IF runs = <<>> THEN log = <<>> ELSE runs[1].pos = 1
  /\ \A j \in 1 .. Len(runs) :
       /\ runs[j].pos + Tokens(runs[j])
            = IF j = Len(runs) THEN Len(log) + 1 ELSE runs[j + 1].pos
       /\ log[runs[j].pos] = IndexToken(runs[j].index)
       /\ \A k \in 1 .. Tokens(runs[j]) - 1 :
            log[runs[j].pos + k]
              = ArgsToken(runs[j].index, runs[j].first + k - 1)

\* The runlength stream holds the length of every run above one that has
\* ended, once, in order, and nothing else.
RecordsNameRuns ==
  /\ \A j \in 1 .. Len(runs) :
       IF runs[j].record = 0
       THEN runs[j].count = 1 \/ (j = Len(runs) /\ state = "open")
       ELSE /\ runs[j].count > 1
            /\ runs[j].record <= Len(runlengths)
            /\ runlengths[runs[j].record]
                 = [index |-> runs[j].index, count |-> runs[j].count]
  /\ \A r \in 1 .. Len(runlengths) :
       \E j \in 1 .. Len(runs) : runs[j].record = r
  /\ \A j, k \in 1 .. Len(runs) :
       j < k /\ runs[j].record # 0 /\ runs[k].record # 0
         => runs[j].record < runs[k].record

\* Unless a run was flushed and then continued, the two streams describe
\* exactly the calls that were made.
StreamsDescribeCalls ==
  ~ orphaned => RunsPartitionCalls /\ LogHoldsRuns /\ RecordsNameRuns

\* With no flush() in the middle of the program no call is ever an orphan.
OrphansNeedFlush == orphaned => MayFlush

\* The comment on pack_format_string_index: "If index is the same as the
\* m_runlength_index but m_current_runlength is 0, write it and increment
\* m_current_runlength".
ZeroRunlengthWritesIndex ==
  [][ \A i \in Index :
        Log(i) /\ i = m_runlength_index /\ m_current_runlength = 0
          => log' = log \o <<IndexToken(i)>> \o Args(i, Len(calls) + 1)
    ]_encoderVars
=============================================================================
