SPECIFICATION ExnSpec
CONSTANTS
  Isolates = {a, b}
  Exns = {e1, e2, e3}
  None = None
  MaxFrames = 5
  MaxListeners = 2
  Uses = {}
INVARIANTS
  OwnExceptionsOnly
  FailureVisible
SYMMETRY ExceptionSymmetry
