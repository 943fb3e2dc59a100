---------------------------- MODULE MCCallSites ----------------------------
(* Instances of CallSites for TLC. *)
EXTENDS CallSites

\* Every logger passes through every site.
AllUses == Logger \X Site

\* No site and no logger is special.
Interchangeable == Permutations(Site) \cup Permutations(Logger)
=============================================================================
