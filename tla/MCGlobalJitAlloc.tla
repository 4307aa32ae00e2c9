-------------------------- MODULE MCGlobalJitAlloc --------------------------
(* Small instances of GlobalJitAlloc.  All constants are values of the     *)
(* cfgs; liveness is checked, so there is no symmetry.                     *)
EXTENDS GlobalJitAlloc
=============================================================================
