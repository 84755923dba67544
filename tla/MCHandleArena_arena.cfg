SPECIFICATION Spec
CONSTANTS
  Values = {v1, v2}
  Undefined = Undefined
  Cells = {c1}
  MaxSlots = 3
  MaxFrames = 3
  MaxRefs = 2
  MaxLeaks = 1
  Uses = {"empty_string", "fast_mismatch"}
INVARIANTS
  CountsExact
  LocalsValid
  ReturnValueOwned
PROPERTY ArenaRestored
SYMMETRY ArenaSymmetry
