--------------------------- MODULE MCBackingStores ---------------------------
(* Model-checking instance of BackingStores.                               *)
EXTENDS BackingStores, TLC

StoreSymmetry == Permutations(Stores) \cup Permutations(Bufs) \cup Permutations(Addrs)
=============================================================================
