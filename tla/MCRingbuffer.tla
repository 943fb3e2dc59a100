---------------------------- MODULE MCRingbuffer ----------------------------
(* Instances of Ringbuffer, with the unpacker, for TLC. *)
EXTENDS RingUnpacked

\* Format 1 has no values.  Format 2 has a string, long enough to fill a ring of
\* eight bytes together with an index, but not without.
MCArgBytes ==
  [i \in Index |-> CASE i = 1 -> {0} [] i = 2 -> {2, 6} [] OTHER -> {1}]

MCEntryBytes == [i \in Index |-> 9]
=============================================================================
