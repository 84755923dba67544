SPECIFICATION WeakSpec
CONSTANTS
  Values = {v1, v2, s1}
  Objects = {v1, v2}
  Undefined = Undefined
  Cells = {c1, c2, c3}
  Uses = {}
INVARIANTS
  RecordsMatchCells
  WeakReadsTarget
  WeakKeepsNothing
SYMMETRY WeakSymmetry
