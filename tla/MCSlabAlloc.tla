----------------------------- MODULE MCSlabAlloc -----------------------------
(* Small instances of SlabAlloc.  All constants are values of the cfgs.    *)
EXTENDS SlabAlloc, TLC

Symmetry == Permutations(Threads)
=============================================================================
