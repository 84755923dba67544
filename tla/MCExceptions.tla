---------------------------- MODULE MCExceptions ----------------------------
(* Model-checking instance of Exceptions: few exceptions and frames.       *)
EXTENDS Exceptions, TLC

(* Exceptions and isolates are interchangeable.                            *)
ExceptionSymmetry == Permutations(Exns) \cup Permutations(Isolates)
=============================================================================
