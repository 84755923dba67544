SPECIFICATION Spec
CONSTANTS
  Isolates = {a, b}
  NoIso = NoIso
  NoCtx = NoCtx
  MaxCtx = 2
  MaxFrames = 3
  MaxEnter = 2
  Generations = 2
  Strict = TRUE
INVARIANTS
  CurrentIsInnermost
  CurrentCtxIsInnermost
PROPERTIES
  CloseRestoresContext
  ImplementsPrivateCaches
