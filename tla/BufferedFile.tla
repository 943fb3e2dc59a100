---------------------------- MODULE BufferedFile ----------------------------
(***************************************************************************)
(* One output file of class packer together with the array that buffers    *)
(* fwrite calls to it.  The class has three of them, each with its own     *)
(* copy of the same loop; the CONSTANTS say which one is modelled:         *)
(*                                                                         *)
(*                   log file          index file         runlength file   *)
(*  BufferSize       log_buffer_size   index_buffer_size  runlength_...    *)
(*  MaxCopy          BufferSize        BufferSize - 1     BufferSize       *)
(*  SourceAdvances   TRUE              TRUE               FALSE            *)
(*  Unbuffered       TRUE              TRUE               FALSE            *)
(*                                                                         *)
(* A write is a call (Call) followed by the iterations of its while loop   *)
(* (Iterate), so that a crash can fall between two of them.  An fwrite to   *)
(* an unbuffered FILE may write less than it is asked to, on a full disk   *)
(* say: the code does not look at what fwrite returns.                     *)
(***************************************************************************)
EXTENDS Integers, Sequences, FiniteSets, SequencesExt

CONSTANTS
  Byte,            \* the values of a byte
  Inputs,          \* the byte arrays callers may hand to one write
  BufferSize,      \* size of the std::array
  MaxCopy,         \* the most one iteration copies
  SourceAdvances,  \* does the loop advance its source pointer?
  Unbuffered,      \* was setvbuf(..., _IONBF, 0) called on the FILE?
  MaxBytes,        \* bound: bytes accepted in one behaviour
  MaxFailures      \* bound: short writes in one behaviour

ASSUME SizesAssumption ==
  /\ BufferSize \in Nat \ {0}
  /\ MaxCopy \in 1 .. BufferSize
  /\ MaxBytes \in Nat
  /\ MaxFailures \in Nat

ASSUME InputsAssumption == Inputs \subseteq Seq(Byte)

ASSUME ModeAssumption == SourceAdvances \in BOOLEAN /\ Unbuffered \in BOOLEAN

VARIABLES
  buffer,     \* m_buffer[0 .. m_buffer_index - 1]
  input,      \* the array of the write in progress
  bytesLeft,  \* its bytes_left; the write has returned when this is 0
  stdio,      \* bytes inside the C library's FILE, not yet written out
  file,       \* bytes the operating system has
  state,      \* "open", "closed" by the destructor, or "crashed"
  accepted,   \* history: every byte ever handed to a write
  durable,    \* history: Len(accepted) at the last flush
  failures,   \* history: short writes so far
  lost        \* history: the bytes of accepted that they did not write

trouble == <<failures, lost>>
vars == <<buffer, input, bytesLeft, stdio, file, state, accepted, durable, trouble>>

-----------------------------------------------------------------------------

Init ==
  /\ buffer = <<>>
  /\ input = <<>>
  /\ bytesLeft = 0
  /\ stdio = <<>>
  /\ file = <<>>
  /\ state = "open"
  /\ accepted = <<>>
  /\ durable = 0
  /\ failures = 0
  /\ lost = {}

Idle == state = "open" /\ bytesLeft = 0

\* Slip: after a short write everything is written again.
ShortWriteRepeated(bytes) ==
  /\ Unbuffered
  /\ failures < MaxFailures
  /\ \E n \in 0 .. Len(bytes) - 1 :
       LET first == Len(accepted) - bytesLeft - Len(bytes)
       IN  /\ file' = file \o SubSeq(bytes, 1, n) \o bytes
           /\ lost' = lost \cup (first + n + 1 .. first + Len(bytes))
  /\ failures' = failures + 1
  /\ UNCHANGED stdio

\* fwrite writes only the first n bytes of the array.
ShortWrite(bytes) ==
  /\ Unbuffered
  /\ failures < MaxFailures
  /\ \E n \in 0 .. Len(bytes) - 1 :
       LET first == Len(accepted) - bytesLeft - Len(bytes)
       IN  /\ file' = file \o SubSeq(bytes, 1, n)
           /\ lost' = lost \cup (first + n + 1 .. first + Len(bytes))
  /\ failures' = failures + 1
  /\ UNCHANGED stdio

\* fwrite: an unbuffered FILE passes the bytes on, a buffered one holds them.
FullWrite(bytes) ==
  /\ IF Unbuffered
     THEN file' = file \o bytes /\ stdio' = stdio
     ELSE stdio' = stdio \o bytes /\ file' = file
  /\ UNCHANGED trouble

Fwrite(bytes) == FullWrite(bytes) \/ ShortWrite(bytes)

\* Entry of buffer_or_write(input, size): bytes_left = size.
Call(bytes) ==
  /\ Idle
  /\ Len(accepted) + Len(bytes) <= MaxBytes
  /\ input' = bytes
  /\ bytesLeft' = Len(bytes)
  /\ accepted' = accepted \o bytes
  /\ UNCHANGED <<buffer, stdio, file, state, durable, trouble>>

\* Slip: the bytes about to be copied are not counted.
MustSpillWhenFull == Len(buffer) >= BufferSize

\* if (m_buffer_index + bytes_left >= buffer_size)
MustSpill == Len(buffer) + bytesLeft >= BufferSize

\* Slip: no std::min.
CopySizeUnclamped == bytesLeft

\* num_bytes_to_copy
CopySize == IF bytesLeft <= MaxCopy THEN bytesLeft ELSE MaxCopy

\* Where byte_array points to: the start of input for a loop that forgets to
\* advance it.
SourceOffset == IF SourceAdvances THEN Len(input) - bytesLeft ELSE 0

\* Slip: byte_array is not advanced.
ChunkFromStart == SubSeq(input, 1, CopySize)

\* The bytes of one memcpy.
Chunk == SubSeq(input, SourceOffset + 1, SourceOffset + CopySize)

\* Slip: bytes_left is reduced by the size of the array.
IterateSubtractsArray ==
  /\ state = "open"
  /\ bytesLeft > 0
  /\ Fwrite(IF MustSpill THEN buffer ELSE <<>>)
  /\ buffer' = (IF MustSpill THEN <<>> ELSE buffer) \o Chunk
  /\ bytesLeft' = bytesLeft - MaxCopy
  /\ UNCHANGED <<input, state, accepted, durable>>

\* Slip: copy what fits, spill only past the end of the array.
IterateSpillsTooLate ==
  /\ state = "open"
  /\ bytesLeft > 0
  /\ LET room == BufferSize - Len(buffer)
         size == IF bytesLeft <= room THEN bytesLeft ELSE room
     IN  /\ buffer' = buffer \o SubSeq(input, SourceOffset + 1, SourceOffset + size)
         /\ bytesLeft' = bytesLeft - size
  /\ UNCHANGED <<input, stdio, file, state, accepted, durable, trouble>>

\* One iteration of the while loop.
Iterate ==
  /\ state = "open"
  /\ bytesLeft > 0
  /\ Fwrite(IF MustSpill THEN buffer ELSE <<>>)
  /\ buffer' = (IF MustSpill THEN <<>> ELSE buffer) \o Chunk
  /\ bytesLeft' = bytesLeft - CopySize
  /\ UNCHANGED <<input, state, accepted, durable>>

\* Slip: the array is written out but its index not reset.
DrainKeepsArray ==
  /\ file' = file \o stdio \o buffer
  /\ stdio' = <<>>
  /\ buffer' = buffer
  /\ durable' = Len(accepted)
  /\ UNCHANGED trouble

\* Slip: no fflush.
DrainWithoutFflush ==
  /\ FullWrite(buffer)
  /\ buffer' = <<>>
  /\ durable' = Len(accepted)

\* Slip: fflush without the fwrite.
DrainWithoutFwrite ==
  /\ file' = file \o stdio
  /\ stdio' = <<>>
  /\ buffer' = buffer
  /\ durable' = Len(accepted)
  /\ UNCHANGED trouble

\* fwrite what the array holds, reset its index, fflush.
Drain ==
  /\ \/ /\ file' = file \o stdio \o buffer
        /\ stdio' = <<>>
        /\ UNCHANGED trouble
     \/ ShortWrite(buffer)
  /\ buffer' = <<>>
  /\ durable' = Len(accepted)

\* flush_log_file / flush_index_file / the fwrite of flush_runlength_file.
Flush ==
  /\ Idle
  /\ Drain
  /\ UNCHANGED <<input, bytesLeft, state, accepted>>

\* ~packer: flush, then fclose.
Close ==
  /\ Idle
  /\ Drain
  /\ state' = "closed"
  /\ UNCHANGED <<input, bytesLeft, accepted>>

\* The C library writes out some of what a buffered FILE holds.
StdioDrain ==
  /\ state = "open"
  /\ \E n \in 1 .. Len(stdio) :
       /\ file' = file \o SubSeq(stdio, 1, n)
       /\ stdio' = SubSeq(stdio, n + 1, Len(stdio))
  /\ UNCHANGED <<buffer, input, bytesLeft, state, accepted, durable, trouble>>

\* The process is killed: both memory layers are gone, the file stays.
Crash ==
  /\ state = "open"
  /\ state' = "crashed"
  /\ buffer' = <<>>
  /\ stdio' = <<>>
  /\ bytesLeft' = 0
  /\ UNCHANGED <<input, file, accepted, durable, trouble>>

\* The program is over.
Terminated == state # "open" /\ UNCHANGED vars

Next ==
  \/ \E bytes \in Inputs : Call(bytes)
  \/ Iterate
  \/ Flush
  \/ Close
  \/ StdioDrain
  \/ Crash
  \/ Terminated

\* A sequential program that has entered the loop keeps executing it.
Spec == Init /\ [][Next]_vars /\ WF_vars(Iterate)

-----------------------------------------------------------------------------

TypeOK ==
  /\ buffer \in Seq(Byte)
  /\ input \in Seq(Byte)
  /\ bytesLeft \in 0 .. Len(input)
  /\ stdio \in Seq(Byte)
  /\ file \in Seq(Byte)
  /\ state \in {"open", "closed", "crashed"}
  /\ accepted \in Seq(Byte)
  /\ durable \in 0 .. Len(accepted)
  /\ failures \in Nat
  /\ lost \subseteq 1 .. Len(accepted)

\* No memcpy of any mix of writes and flushes runs past the end of the array:
\* the loop's test and its clamp of the copy together keep m_buffer_index
\* within the buffer.
BufferInBounds == Len(buffer) <= BufferSize

\* The bytes of the write in progress that are still to be copied.
Pending == SubSeq(input, Len(input) - bytesLeft + 1, Len(input))

\* Until an fwrite falls short: at every instant, file, FILE, array and the
\* rest of the current write, put end to end, are exactly the bytes callers
\* handed over: no iteration loses, repeats or reorders one.
StreamIntact ==
  state = "open" /\ failures = 0 => file \o stdio \o buffer \o Pending = accepted

\* The accepted bytes that are not lost.
Surviving ==
  FlattenSeq([k \in DOMAIN accepted |-> IF k \in lost THEN <<>> ELSE <<accepted[k]>>])

LossIsBounded == IsFiniteSet(lost) /\ Cardinality(lost) <= failures * BufferSize

\* A short fwrite, which nothing notices, costs the bytes it did not write,
\* fewer than the array holds at a time; all that comes before and after them
\* still arrives once and in order, so that the file goes on behind a gap.
ShortWritesLoseAtMostTheArray ==
  /\ LossIsBounded
  /\ state # "crashed" => file \o stdio \o buffer \o Pending = Surviving

\* The loop and its two layers of buffering are invisible: a file that only
\* grows and, until an fwrite falls short, is always a prefix of what was
\* accepted, complete after each flush and after the destructor, and never
\* shorter than the last flush after a crash.
AppendOnly == INSTANCE AppendOnlyFile WITH disk <- file
ImplementsAppendOnlyFile == AppendOnly!Spec

\* Every write returns (or the process is killed inside it): each iteration
\* makes progress whatever the sizes of the write and of the buffer, and
\* whatever fwrite does.
WritesReturn == (bytesLeft > 0) ~> (bytesLeft = 0)
=============================================================================
