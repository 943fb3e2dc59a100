--------------------------- MODULE AppendOnlyFile ---------------------------
(***************************************************************************)
(* What a packer's buffered file promises its callers, with no buffer in   *)
(* sight.  Bytes are accepted in order; the file on disk is at all times a *)
(* prefix of what was accepted; a flush makes everything accepted so far   *)
(* durable; a crash of the process keeps the file as it is.                *)
(*                                                                         *)
(* When the operating system has failed to write, all of this is off but   *)
(* that the file only grows.                                               *)
(*                                                                         *)
(* Module BufferedFile shows that the three hand-written buffering loops   *)
(* of class packer implement this.                                         *)
(***************************************************************************)
EXTENDS Integers, Sequences, SequencesExt

VARIABLES
  accepted,  \* every byte handed to the file, in order
  durable,   \* how many of them the last flush promised to keep
  disk,      \* the bytes of the file on disk
  state,     \* "open", "closed" (destroyed) or "crashed" (process killed)
  failures   \* how often writing has failed

vars == <<accepted, durable, disk, state, failures>>

Init ==
  /\ accepted = <<>>
  /\ durable = 0
  /\ disk = <<>>
  /\ state = "open"
  /\ failures = 0

\* Bytes are accepted: they need not be on disk yet.
Accept ==
  /\ state = "open"
  /\ IsPrefix(accepted, accepted')
  /\ UNCHANGED <<durable, disk, state, failures>>

\* A step that writes succeeds, or fails from here on.
Attempt == failures' \in {failures, failures + 1}

\* Accepted bytes reach the disk, in order, whenever the buffers please.
Persist ==
  /\ state = "open"
  /\ Attempt
  /\ IsPrefix(disk, disk')
  /\ failures' = 0 => IsPrefix(disk', accepted)
  /\ UNCHANGED <<accepted, durable, state>>

\* flush(), and the destructor: everything accepted is on disk, for good.
Flush ==
  /\ state = "open"
  /\ Attempt
  /\ IsPrefix(disk, disk')
  /\ failures' = 0 => disk' = accepted
  /\ durable' = Len(accepted)
  /\ state' \in {"open", "closed"}
  /\ UNCHANGED accepted

\* The process is killed; whatever is on disk stays.
Crash ==
  /\ state = "open"
  /\ state' = "crashed"
  /\ UNCHANGED <<accepted, durable, disk, failures>>

Next == Accept \/ Persist \/ Flush \/ Crash

Spec == Init /\ [][Next]_vars
=============================================================================
