--------------------------- MODULE MCBareClosure ---------------------------
(* Small instances of BareClosure.  All constants are values of the cfgs.  *)
EXTENDS BareClosureInv, TLC

Symmetry == Permutations(Threads) \cup Permutations(Blocks)
=============================================================================
