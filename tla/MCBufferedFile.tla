--------------------------- MODULE MCBufferedFile ---------------------------
(* Instances of BufferedFile for TLC. *)
EXTENDS BufferedFile

CONSTANTS
  MinWrite, MaxWrite   \* bounds: sizes of one write

\* Every array of an allowed size over Byte.
MCInputs == UNION {[1 .. n -> Byte] : n \in MinWrite .. MaxWrite}
=============================================================================
