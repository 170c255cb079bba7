--------------------------- MODULE MCGraphCycles ---------------------------
(* Instances of GraphCycles for TLC.                                       *)
EXTENDS GraphCycles, TLC

PtrSymmetry == Permutations(Ptrs)
=============================================================================
