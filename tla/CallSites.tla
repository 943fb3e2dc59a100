------------------------------ MODULE CallSites ------------------------------
(***************************************************************************)
(* The macro BINARY_LOG and binary_log::log_index: how the format string   *)
(* of a call site gets the index its log entries carry.  The index is kept *)
(* in a function-local static of the site, initialised the first time any  *)
(* logger passes through it and shared by all loggers for the rest of the  *)
(* program; the entry of the index file is written by that one logger.     *)
(***************************************************************************)
EXTENDS Integers, Sequences, SequencesExt

CONSTANTS
  Logger,      \* the binary_log objects of the program
  Site,        \* expansions of BINARY_LOG, one per template instantiation
  Uses,        \* which loggers pass through which sites
  IndexMod,    \* values of a uint8_t
  MaxEntries,  \* bound: entries per log
  NotRun       \* a static that is not initialised yet

ASSUME SitesAssumption ==
  /\ Uses \subseteq Logger \X Site
  /\ IndexMod \in Nat \ {0}
  /\ MaxEntries \in Nat
  /\ NotRun \notin Int

VARIABLES
  pos,                    \* [Site -> ...] the statics
  m_format_string_index,  \* [Logger -> ...] the uint8_t member
  index_file,             \* [Logger -> Seq(Site)] format strings written
  entries                 \* [Logger -> Seq(...)] the log: index, and as a
                          \* history the site it came from

vars == <<pos, m_format_string_index, index_file, entries>>

Uint8 == 0 .. IndexMod - 1

Init ==
  /\ pos = [s \in Site |-> NotRun]
  /\ m_format_string_index = [l \in Logger |-> 0]
  /\ index_file = [l \in Logger |-> <<>>]
  /\ entries = [l \in Logger |-> <<>>]

\* Slip: an index without a width.
IncrementedUnbounded(l) == m_format_string_index[l] + 1

\* m_format_string_index++ wraps around.
Incremented(l) ==
  IF m_format_string_index[l] = IndexMod - 1
  THEN 0
  ELSE m_format_string_index[l] + 1

\* Slip: return m_format_string_index.
IndexAfterIncrement(l) == Incremented(l)

\* return m_format_string_index - 1: an int, -1 after the wrap, converted back
\* to uint8_t.
NewIndex(l) ==
  IF Incremented(l) = 0 THEN IndexMod - 1 ELSE Incremented(l) - 1

\* binary_log::log(pos, args...): the entry carries the site's static.
LogEntry(l, s, index) ==
  /\ Len(entries[l]) < MaxEntries
  /\ entries' = [entries EXCEPT ![l] = Append(@, [index |-> index, site |-> s])]

\* BINARY_LOG(l, ...) at a site that runs for the first time: log_index
\* registers the format string, and log follows.
FirstCall(l, s) ==
  /\ pos[s] = NotRun
  /\ m_format_string_index' = [m_format_string_index EXCEPT ![l] = Incremented(l)]
  /\ index_file' = [index_file EXCEPT ![l] = Append(@, s)]
  /\ pos' = [pos EXCEPT ![s] = NewIndex(l)]
  /\ LogEntry(l, s, NewIndex(l))

\* Slip: the entry carries the logger's latest index.
LaterCallWithLatest(l, s) ==
  /\ pos[s] # NotRun
  /\ LogEntry(l, s, NewIndex(l))
  /\ UNCHANGED <<pos, m_format_string_index, index_file>>

\* BINARY_LOG(l, ...) ever after, with whatever logger.
LaterCall(l, s) ==
  /\ pos[s] # NotRun
  /\ LogEntry(l, s, pos[s])
  /\ UNCHANGED <<pos, m_format_string_index, index_file>>

Next == \E use \in Uses : FirstCall(use[1], use[2]) \/ LaterCall(use[1], use[2])

Spec == Init /\ [][Next]_vars

-----------------------------------------------------------------------------

TypeOK ==
  /\ pos \in [Site -> Uint8 \cup {NotRun}]
  /\ m_format_string_index \in [Logger -> Uint8]
  /\ index_file \in [Logger -> Seq(Site)]
  /\ entries \in [Logger -> Seq([index : Uint8, site : Site])]

\* What index_file_parser makes of an index: the entry of that number.
Resolves(l, e) ==
  /\ e.index < Len(index_file[l])
  /\ index_file[l][e.index + 1] = e.site

\* The format string is among the first IndexMod of this logger.
Addressable(l, s) ==
  \E n \in 1 .. Len(index_file[l]) : n <= IndexMod /\ index_file[l][n] = s

\* An entry leads the unpacker to its own format string exactly if this very
\* logger was the first to pass through the site, as one of the first IndexMod
\* sites it registered: never because another logger's index happens to fit.
ResolvesExactlyWhenAddressable ==
  \A l \in Logger : \A n \in 1 .. Len(entries[l]) :
    Resolves(l, entries[l][n]) <=> Addressable(l, entries[l][n].site)

\* A logger all of whose sites are its own uses indices in the order of first
\* use, without gaps: what the run-length encoder (module RunLength) relies on.
OwnSites(l) ==
  \A n \in 1 .. Len(entries[l]) : Addressable(l, entries[l][n].site)

IndicesInOrderOfFirstUse ==
  \A l \in Logger : OwnSites(l) =>
    \A n \in 1 .. Len(entries[l]) :
      entries[l][n].index = 0
        \/ \E m \in 1 .. n - 1 : entries[l][m].index = entries[l][n].index - 1

\* The comment on binary_log::log: "<format-string-index> is the index of the
\* format string in the index file".
IndexIsOfTheFormatString ==
  \A l \in Logger : \A n \in 1 .. Len(entries[l]) : Resolves(l, entries[l][n])
=============================================================================
