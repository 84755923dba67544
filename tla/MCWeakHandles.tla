---------------------------- MODULE MCWeakHandles ----------------------------
(* Model-checking instance of WeakHandles.                                 *)
EXTENDS WeakHandles, TLC

WeakSymmetry == Permutations(Objects) \cup Permutations(Cells)
=============================================================================
