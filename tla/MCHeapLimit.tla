----------------------------- MODULE MCHeapLimit -----------------------------
(* Model-checking instance of HeapLimit.                                   *)
EXTENDS HeapLimit
=============================================================================
