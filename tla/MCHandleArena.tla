--------------------------- MODULE MCHandleArena ---------------------------
(* Model-checking instance of HandleArena: few values, cells and slots.    *)
EXTENDS HandleArena, TLC

(* Values and cells are interchangeable.                                   *)
ArenaSymmetry == Permutations(Values) \cup Permutations(Cells)
=============================================================================
