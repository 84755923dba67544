SPECIFICATION Spec
CONSTANTS
  Isolates = {a, b}
  NoIso = NoIso
  NoCtx = NoCtx
  MaxCtx = 1
  MaxFrames = 1
  MaxEnter = 3
  Generations = 2
  Strict = FALSE
SYMMETRY IsolateSymmetry
INVARIANTS
  NoDanglingIsolate
  TablesInOnePlace
  OwnEntriesOnly
