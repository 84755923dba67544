---------------------------- MODULE MCTermination ----------------------------
(* Model-checking instance of Termination: one other thread.               *)
EXTENDS Termination
=============================================================================
