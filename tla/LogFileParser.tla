---------------------------- MODULE LogFileParser ----------------------------
(***************************************************************************)
(* The unpacker: it reads the index file into a table and then class       *)
(* log_file_parser walks the log stream and the runlength stream side by   *)
(* side and prints one line per entry.  The streams are sequences of       *)
(* tokens, see module RunLength; what is left of a token, a record or an   *)
(* index file entry that was cut short on disk is "torn".                  *)
(*                                                                         *)
(* A parser that takes argument bytes for an index, an index for           *)
(* arguments, uses something torn, or runs off the end of a stream or of   *)
(* the table is "derailed": the code has no check there, and what it does  *)
(* from then on depends on the bytes it meets.                             *)
(***************************************************************************)
EXTENDS Integers, Sequences

CONSTANTS NoArgs   \* format strings whose entries have no values in the log

VARIABLES
  index_file,             \* "whole" or "torn" for each entry
  log, runlengths,        \* the two streams
  m_logfile_index,        \* tokens of log already consumed
  m_runlengthfile_index,  \* records of runlengths already consumed
  current,                \* index of the entry being deflated
  left,                   \* its lines still to be printed
  printed,                \* the lines: a format string and the call whose
                          \* values filled it in (0 if it takes none)
  parser                  \* "waiting", "parsing", "done", "failed", "derailed"

positions == <<m_logfile_index, m_runlengthfile_index, current, left>>
parserVars == <<positions, printed, parser>>

ParserInit ==
  /\ m_logfile_index = 0
  /\ m_runlengthfile_index = 0
  /\ current = 0
  /\ left = 0
  /\ printed = <<>>
  /\ parser = "waiting"

\* An entry cut short can only be the last.
TornIndexFile == index_file # <<>> /\ index_file[Len(index_file)] = "torn"

\* Slip: a runlength file that is empty, and so cannot be mapped, is an error
\* like an empty log file.
OpenNeedingRunlengths ==
  /\ parser = "waiting"
  /\ parser' = IF index_file = <<>> \/ log = <<>> \/ runlengths = <<>>
               THEN "failed" ELSE "parsing"
  /\ UNCHANGED <<positions, printed>>

\* Both parsers are constructed.  Mapping an empty index or log file throws, an
\* empty runlength file counts as no runlengths; parsing a torn index file
\* reads past its end.
Open ==
  /\ parser = "waiting"
  /\ parser' \in
       CASE index_file = <<>>                -> {"failed"}
         [] TornIndexFile /\ log = <<>>      -> {"failed", "derailed"}
         [] TornIndexFile /\ log # <<>>      -> {"parsing", "derailed"}
         [] ~ TornIndexFile /\ log = <<>>    -> {"failed"}
         [] OTHER                            -> {"parsing"}
  /\ UNCHANGED <<positions, printed>>

-----------------------------------------------------------------------------

Parsing == parser = "parsing"

\* The token in the log stream where the parser stands.
CurrentToken == log[m_logfile_index + 1]

CurrentRecord == runlengths[m_runlengthfile_index + 1]

\* Slip: the record's index is not compared.
TakesAnyRecord == m_runlengthfile_index < Len(runlengths)

\* Is the next record of the runlength stream taken to be about this index?
TakesRecord ==
  /\ m_runlengthfile_index < Len(runlengths)
  /\ CurrentRecord.index = CurrentToken.index

Runlength == IF TakesRecord THEN CurrentRecord.count ELSE 1

\* The index is one, its entry is in the table, its record is whole.  The last
\* bytes of a torn record are past the end of the file; its count is 0.
OnIndex ==
  /\ CurrentToken.kind = "index"
  /\ CurrentToken.index < Len(index_file)
  /\ index_file[CurrentToken.index + 1] = "whole"
  /\ Runlength > 0

\* Slip: a record is consumed by every entry.
ParseIndexTakingRecords ==
  /\ Parsing /\ left = 0 /\ m_logfile_index < Len(log)
  /\ OnIndex
  /\ current' = CurrentToken.index
  /\ left' = Runlength
  /\ m_logfile_index' = m_logfile_index + 1
  /\ m_runlengthfile_index' = m_runlengthfile_index + 1
  /\ UNCHANGED <<printed, parser>>

\* parse_and_print_log_entry up to its loop: the index and its runlength.
ParseIndex ==
  /\ Parsing /\ left = 0 /\ m_logfile_index < Len(log)
  /\ OnIndex
  /\ current' = CurrentToken.index
  /\ left' = Runlength
  /\ m_logfile_index' = m_logfile_index + 1
  /\ m_runlengthfile_index' = m_runlengthfile_index + IF TakesRecord THEN 1 ELSE 0
  /\ UNCHANGED <<printed, parser>>

\* The values of the next line are where the parser reads them.
OnValues ==
  /\ m_logfile_index < Len(log)
  /\ CurrentToken.kind = "args"
  /\ CurrentToken.index = current

Line(i, n) == [index |-> i, call |-> n]

\* One iteration of that loop: the values are read and a line is printed.
PrintLine ==
  /\ Parsing /\ left > 0
  /\ \/ /\ current \in NoArgs
        /\ printed' = Append(printed, Line(current, 0))
        /\ UNCHANGED m_logfile_index
     \/ /\ current \notin NoArgs
        /\ OnValues
        /\ printed' = Append(printed, Line(current, CurrentToken.call))
        /\ m_logfile_index' = m_logfile_index + 1
  /\ left' = left - 1
  /\ UNCHANGED <<m_runlengthfile_index, current, parser>>

Derail ==
  /\ Parsing
  /\ \/ left = 0 /\ m_logfile_index < Len(log) /\ ~ OnIndex
     \/ left > 0 /\ current \notin NoArgs /\ ~ OnValues
  /\ parser' = "derailed"
  /\ UNCHANGED <<positions, printed>>

\* parse_and_print returns at the end of the log file.
Finish ==
  /\ Parsing /\ left = 0 /\ m_logfile_index >= Len(log)
  /\ parser' = "done"
  /\ UNCHANGED <<positions, printed>>

ParserNext == Open \/ ParseIndex \/ PrintLine \/ Derail \/ Finish

ParserTypeOK ==
  /\ m_logfile_index \in 0 .. Len(log)
  /\ m_runlengthfile_index \in 0 .. Len(runlengths)
  /\ current \in Nat
  /\ left \in Nat
  /\ printed \in Seq([index : Nat, call : Nat])
  /\ parser \in {"waiting", "parsing", "done", "failed", "derailed"}
=============================================================================
