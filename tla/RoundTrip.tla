------------------------------ MODULE RoundTrip ------------------------------
(***************************************************************************)
(* A program logs, destroys its logger or is killed, and the unpacker      *)
(* deflates what is then on disk: modules RunLength and LogFileParser, with *)
(* the three files of class packer between them.  The question is when the *)
(* lines printed are the calls that were made.                             *)
(*                                                                         *)
(* Of a file that buffers its writes module AppendOnlyFile says all that   *)
(* matters here (and module BufferedFileProofs that the code's buffers     *)
(* implement it): at a crash the disk has a prefix of what was written,    *)
(* and at least what the last flush made durable.                          *)
(***************************************************************************)
EXTENDS RunLength, FiniteSets

CONSTANTS
  KilledAfter  \* bound: the process may be killed after that many calls

ASSUME KilledAssumption == KilledAfter \subseteq Nat

VARIABLES
  process,   \* "running", "exited" or "crashed"
  stage,     \* how much of the flush under way is done, 0 if none is
  durable,   \* for each file: its entries that are flushed
  disk,      \* the three files, once the process is gone
  safe,      \* history: calls made before the last flush, see EndOfFlush
  m_logfile_index, m_runlengthfile_index, current, left, printed, parser

Unpacker ==
  INSTANCE LogFileParser WITH
    index_file <- disk.index, log <- disk.log, runlengths <- disk.runlengths

files == <<process, stage, durable, disk, safe>>
parserVars ==
  <<m_logfile_index, m_runlengthfile_index, current, left, printed, parser>>
vars == <<encoderVars, files, parserVars>>

Init ==
  /\ EncoderInit
  /\ process = "running"
  /\ stage = 0
  /\ durable = [index |-> 0, log |-> 0, runlengths |-> 0]
  /\ disk = [index |-> <<>>, log |-> <<>>, runlengths |-> <<>>]
  /\ safe = 0
  /\ Unpacker!ParserInit

-----------------------------------------------------------------------------

\* The index file's entries: each format string in use has one.
IndexEntries(n) == [k \in 1 .. n |-> "whole"]

Registered == Cardinality({calls[n] : n \in 1 .. Len(calls)})

Written ==
  [index |-> IndexEntries(Registered), log |-> log, runlengths |-> runlengths]

Call(i) ==
  /\ process = "running"
  /\ stage = 0
  /\ Log(i)
  /\ UNCHANGED <<files, parserVars>>

\* Slip: the log file before the index file.
FlushOrderLogFirst == <<"log", "index", "record", "runlengths">>

\* packer::flush; "record" is the first thing flush_runlength_file does.
FlushOrder == <<"index", "log", "record", "runlengths">>

\* With the runlength file's fflush the flush is over, and so is the process if
\* it was the destructor's.  Until then a call that fell outside every run
\* spoils all that is flushed from there on.
EndOfFlush ==
  /\ safe' = IF orphaned THEN safe ELSE Len(calls)
  /\ IF state = "closed"
     THEN process' = "exited" /\ disk' = Written
     ELSE UNCHANGED <<process, disk>>

\* flush_index_file, flush_log_file, the second part of flush_runlength_file.
FlushFile(f) ==
  /\ process = "running"
  /\ stage = 0 => state = "open"
  /\ FlushOrder[stage + 1] = f
  /\ durable' = [durable EXCEPT ![f] = Len(Written[f])]
  /\ stage' = (stage + 1) % Len(FlushOrder)
  /\ IF stage' = 0 THEN EndOfFlush ELSE UNCHANGED <<process, disk, safe>>
  /\ UNCHANGED <<encoderVars, parserVars>>

\* flush_runlength_file writes the current run's length, for flush() or for the
\* destructor.
FlushRecord ==
  /\ process = "running"
  /\ FlushOrder[stage + 1] = "record"
  /\ Flush \/ Close
  /\ stage' = stage + 1
  /\ UNCHANGED <<process, durable, disk, safe, parserVars>>

\* What can be left of a file of which n entries are durable: the entries up to
\* some point, perhaps with a part of the next one.
Remains(s, torn, n) ==
  {SubSeq(s, 1, k) : k \in n .. Len(s)} \cup
  {Append(SubSeq(s, 1, k - 1), torn[k]) : k \in n + 1 .. Len(s)}

TornEntries(n) == [k \in 1 .. n |-> "torn"]
TornTokens == [k \in DOMAIN log |-> [log[k] EXCEPT !.kind = "torn"]]
TornRecords == [k \in DOMAIN runlengths |-> [runlengths[k] EXCEPT !.count = 0]]

\* The process is killed, between two steps above or inside one: inside
\* BINARY_LOG a new format string may be registered before its first call.
Crash ==
  /\ process = "running"
  /\ Len(calls) \in KilledAfter
  /\ process' = "crashed"
  /\ \E n \in {Registered, Registered + 1} :
       /\ n <= NumFormats
       /\ disk' \in
            [index : Remains(IndexEntries(n), TornEntries(n), durable.index),
             log : Remains(log, TornTokens, durable.log),
             runlengths : Remains(runlengths, TornRecords, durable.runlengths)]
  /\ UNCHANGED <<encoderVars, stage, durable, safe, parserVars>>

\* The unpacker runs on the files of a process that is gone.
Unpacking ==
  /\ process # "running"
  /\ Unpacker!ParserNext
  /\ UNCHANGED <<encoderVars, files>>

Finished == parser \in {"done", "failed", "derailed"}

\* Both programs are over.
Terminated == Finished /\ UNCHANGED vars

Next ==
  \/ \E i \in Index : Call(i)
  \/ \E f \in DOMAIN durable : FlushFile(f)
  \/ FlushRecord
  \/ Crash
  \/ Unpacking
  \/ Terminated

\* The unpacker is a sequential program that is left to run.
Spec == Init /\ [][Next]_vars /\ WF_vars(Unpacking)

-----------------------------------------------------------------------------

TypeOK ==
  /\ EncoderTypeOK
  /\ process \in {"running", "exited", "crashed"}
  /\ stage \in 0 .. 3
  /\ durable.index \in 0 .. Registered
  /\ durable.log \in 0 .. Len(log)
  /\ durable.runlengths \in 0 .. Len(runlengths)
  /\ safe \in 0 .. Len(calls)
  /\ Unpacker!ParserTypeOK

\* The line that deflating call n should print.
LineOf(n) ==
  Unpacker!Line(calls[n], IF calls[n] \in NoArgs THEN 0 ELSE n)

Lines(n) == [k \in 1 .. n |-> LineOf(k)]

CallsAsLines == Lines(Len(calls))

\* A record is taken by the first entry with its index: a call made once, and
\* later repeated, with no other repeated call in between, takes the record
\* that belongs to the later run.
Ambiguous ==
  \E j, k \in 1 .. Len(runs) :
    /\ j < k
    /\ runs[j].index = runs[k].index
    /\ runs[k].record \in 1 .. Len(disk.runlengths)
    /\ \A m \in j .. k - 1 : runs[m].count = 1

Decodable == ~ orphaned /\ ~ Ambiguous

\* The calls of the first j runs can be deflated: the log file has just these
\* runs, the runlength file has their records, the index file their formats.
IntactUpTo(j) ==
  /\ Decodable
  /\ Len(disk.log) = runs[j].pos + Tokens(runs[j]) - 1
  /\ disk.log[Len(disk.log)].kind # "torn"
  /\ ~ Unpacker!TornIndexFile
  /\ \A k \in 1 .. j :
       /\ runs[k].index < Len(disk.index)
       /\ runs[k].count > 1 =>
            /\ runs[k].record \in 1 .. Len(disk.runlengths)
            /\ disk.runlengths[runs[k].record].count > 0

\* Wherever the program ended and whatever each of the three files still had
\* in memory: if the files on disk end with the same run, the unpacker never
\* loses its place, at every moment has printed the calls in order with their
\* own values, and in the end all of that run.
PrintsCallsInOrder ==
  \A j \in 1 .. Len(runs) :
    process # "running" /\ IntactUpTo(j) =>
      /\ parser \in {"waiting", "parsing", "done"}
      /\ printed = Lines(Len(printed))
      /\ parser = "done" => Len(printed) = runs[j].first + runs[j].count - 1

\* The exact condition of a faithful round trip of a program that ran to its
\* end: outside it the output is always wrong, inside it always right.
RoundTripExactlyWhenDecodable ==
  Finished /\ process = "exited" =>
    (parser # "derailed" /\ printed = CallsAsLines <=> Decodable)

TornRunlengthFile ==
  disk.runlengths # <<>> /\ disk.runlengths[Len(disk.runlengths)].count = 0

\* Whatever reached the disk after the last flush, and whichever file it
\* reached, the calls made before that flush are still printed first: a crash
\* costs only the tail.  The exceptions are an index file cut short inside an
\* entry, which is read before anything is printed, and a later record, whole
\* or cut short, that an earlier call takes.
FlushedCallsSurvive ==
  Finished /\ ~ Ambiguous /\ ~ Unpacker!TornIndexFile /\ ~ TornRunlengthFile =>
    /\ Len(printed) >= safe
    /\ SubSeq(printed, 1, safe) = Lines(safe)

\* Also in the middle of a flush, what it has made durable in the log file has
\* its format string in the index file.
DurableLogHasItsFormats ==
  \A k \in 1 .. durable.log : log[k].index < durable.index

\* Left to run on files that end with the same run of a decodable log, whether
\* the program exited or was killed, the unpacker comes to the end of the log
\* file and returns from parse_and_print: it neither goes on for ever, nor loses
\* its place, nor refuses the files, also if no run was repeated and the
\* runlength file is empty.  (An empty log or index file, which it refuses, and
\* files on which it may lose its place are not intact: of those nothing is
\* promised.)
IntactLogIsUnpackedToItsEnd ==
  process # "running" /\ (\E j \in 1 .. Len(runs) : IntactUpTo(j)) ~> parser = "done"

\* README.md: the files contain "all the information needed to deflate the
\* log".
DeflatesToTheCalls ==
  Finished /\ process = "exited" => parser # "derailed" /\ printed = CallsAsLines
=============================================================================
