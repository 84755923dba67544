-------------------------- MODULE MCAtomicsWaiters --------------------------
(* Model-checking instance of AtomicsWaiters: two threads.                 *)
EXTENDS AtomicsWaiters
=============================================================================
