SPECIFICATION Spec
CONSTANTS
  Configured = 3
  DefaultLimit = 2
  Headroom = 1
  TerminationHeadroom = 2
  MaxHeap = 6
  MaxDepth = 4
  AddsInside = FALSE
INVARIANTS
  CapFollowsLimit
  OneCallbackAtATime
PROPERTY
  AskedBeforeFailing
