---------------------------- MODULE RingUnpacked ----------------------------
(***************************************************************************)
(* The ring of module Ringbuffer handed to the unpacker, as in             *)
(* examples/ringbuffer: the program flushes its logger, writes the log,    *)
(* index and runlength buffers to the three files, and unpacker deflates   *)
(* them (module LogFileParser).                                            *)
(*                                                                         *)
(* The ring has dropped the entries of old calls, but none of their        *)
(* records: the runlength buffer tells of runs that are no longer there.   *)
(***************************************************************************)
EXTENDS Ringbuffer, SequencesExt

\* Formats whose arguments, if any, are all constants.
NoArgs == {i \in Index : ArgBytes[i] = {0}}

ASSUME ValuesAssumption == \A i \in Index \ NoArgs : 0 \notin ArgBytes[i]

VARIABLES
  runlengths,  \* the records in the runlength buffer
  saved,       \* the buffers have been written to their files
  begins,      \* history: the calls that were logged with their index
  due,         \* history: the records there ought to be, of all calls that
               \* were counted together, kept in the ring or not
  asked,       \* history: what the program asked for last, the set of the
               \* format it called, or {} for flush() and at the beginning
  m_logfile_index, m_runlengthfile_index, current, left, printed, parser

\* The files: an index and the values of a call are each one token.
TokensOf(bytes) ==
  FlattenSeq([k \in DOMAIN bytes |->
                IF k = 1 \/ bytes[k] # bytes[k - 1] THEN <<bytes[k]>> ELSE <<>>])

LogFile == TokensOf(m_buffer)

IndexFile == [k \in 1 .. sites |-> "whole"]

Unpacker ==
  INSTANCE LogFileParser WITH
    index_file <- IndexFile, log <- LogFile

files == <<runlengths, saved, begins, due, asked>>
parserVars ==
  <<m_logfile_index, m_runlengthfile_index, current, left, printed, parser>>
ringVars == <<vars, files, parserVars>>

RingInit ==
  /\ Init
  /\ runlengths = <<>> /\ saved = FALSE
  /\ begins = <<>> /\ due = <<>> /\ asked = {}
  /\ Unpacker!ParserInit

-----------------------------------------------------------------------------

\* Slip: m_runlength_index is set before the record is written.
RunlengthsWithNextIndex ==
  runlengths' =
    IF records' = records THEN runlengths
    ELSE Append(runlengths, [index |-> m_runlength_index', count |-> m_current_runlength])

\* What write_current_runlength_to_runlength_file copies into its buffer.
Runlengths ==
  runlengths' =
    IF records' = records THEN runlengths
    ELSE Append(runlengths, [index |-> m_runlength_index, count |-> m_current_runlength])

BeginRun(i) ==
  /\ StartRun(i)
  /\ begins' = Append(begins, Len(calls) + 1)
  /\ asked' = {i}
  /\ UNCHANGED due

\* The second of the calls counted together makes a record due.  After a flush()
\* that wrote the record of the run, its count begins anew.
GoOn(i) ==
  /\ ContinueRun(i)
  /\ due' = CASE m_current_runlength = 0 -> due
              [] m_current_runlength = 1 -> Append(due, [index |-> i, count |-> 2])
              [] OTHER -> [due EXCEPT ![Len(due)].count = @ + 1]
  /\ asked' = {i}
  /\ UNCHANGED begins

Other ==
  /\ \/ UpdateLogFile /\ UNCHANGED asked
     \/ \E i \in Index : Abort(i) /\ asked' = {i}
     \/ \E next \in {"idle", "closed"} : Flush(next) /\ asked' = {}
  /\ UNCHANGED <<begins, due>>

Logging ==
  /\ ~ saved
  /\ (\E i \in Index : BeginRun(i) \/ GoOn(i)) \/ Other
  /\ Runlengths
  /\ UNCHANGED <<saved, parserVars>>

\* The three buffers go to their files after flush(), when no record is due.
Save ==
  /\ state = "idle" /\ ~ Repeated
  /\ calls # <<>>
  /\ ~ saved
  /\ saved' = TRUE
  /\ UNCHANGED <<vars, runlengths, begins, due, asked, parserVars>>

Unpacking ==
  /\ saved
  /\ Unpacker!ParserNext
  /\ UNCHANGED <<vars, files>>

Finished == parser \in {"done", "failed", "derailed"}

Ended ==
  /\ Finished \/ state \in {"closed", "aborted", "undefined"}
  /\ UNCHANGED ringVars

RingNext == Logging \/ Save \/ Unpacking \/ Ended

RingSpec == RingInit /\ [][RingNext]_ringVars

-----------------------------------------------------------------------------

\* The program is aborted exactly when it asks for what has no room: the entry
\* of a format string in the index buffer, or, with the first call of another
\* format or with flush(), the record of the calls counted together until then
\* behind those of all repeated runs before.  However long a run is it counts
\* once (or once more for each flush() inside it); single calls and entries
\* dropped from the ring cost nothing, and a run that goes on aborts nothing.
AbortsExactlyWhenFull ==
  state = "aborted" <=>
    \/ asked = {sites} /\ ~ EntryFits(sites)
    \/ /\ due # <<>> /\ asked # {calls[Len(calls)]}
       /\ Len(due) * RecordBytes >= RunlengthBufferSize

\* The calls whose entries the ring still has, as lines.
KeptLines ==
  [k \in 1 .. Len(calls) - Gone |->
     LET n == Gone + k
     IN  Unpacker!Line(calls[n], IF calls[n] \in NoArgs THEN 0 ELSE n)]

\* A run is an index and all calls up to the next one.
Format(j) == calls[begins[j]]

LastOf(j) == IF j = Len(begins) THEN Len(calls) ELSE begins[j + 1] - 1

LengthOf(j) == LastOf(j) - begins[j] + 1

\* The run of the oldest call that is kept.
Oldest ==
  CHOOSE j \in DOMAIN begins : begins[j] <= Gone + 1 /\ Gone + 1 <= LastOf(j)

\* Records carry no position and are taken in order: how many of them the kept
\* runs up to the j-th take, each run the next record if that is of its format.
Takes(j, n) == n < Len(due) /\ due[n + 1].index = Format(j)

RecordsTaken[j \in Oldest - 1 .. Len(begins)] ==
  IF j = Oldest - 1 THEN 0
  ELSE RecordsTaken[j - 1] + IF Takes(j, RecordsTaken[j - 1]) THEN 1 ELSE 0

LengthTold(j) ==
  IF Takes(j, RecordsTaken[j - 1]) THEN due[RecordsTaken[j - 1] + 1].count ELSE 1

\* Every run finds its own length, be it in the record of a run that is gone.
LengthsAgree == \A j \in Oldest .. Len(begins) : LengthTold(j) = LengthOf(j)

\* The oldest call that is kept has its index.
StartsWithRun == begins[Oldest] = Gone + 1

\* What the unpacker prints of a saved ring is the calls it still has, in
\* order and with their own values, exactly when the oldest of them carries
\* its index and every run finds its length, though the records may be left
\* over from runs that are gone or, after a flush(), tell of a part of a run.
\* (If the values of format 0 do not tell its lines apart, two runs of it with
\* a flush() in between may also make up for each other's lengths.)
RingDeflatesExactlyWhenLengthsAgree ==
  Finished /\ 0 \notin NoArgs =>
    (parser = "done" /\ printed = KeptLines <=> StartsWithRun /\ LengthsAgree)
=============================================================================
