--------------------------- MODULE MCModuleCaches ---------------------------
(* Model-checking instance of ModuleCaches: two isolates on one thread,    *)
(* each address used twice.                                                *)
EXTENDS ModuleCaches, TLC

(* Isolates are interchangeable (no liveness is checked under it).         *)
IsolateSymmetry == Permutations(Isolates)
=============================================================================
