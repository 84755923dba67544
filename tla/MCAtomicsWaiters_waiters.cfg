SPECIFICATION FairSpec
CONSTANTS
  Isolates = {a, b}
  Nobody = Nobody
  Locations = {x}
  MaxWaiters = 2
INVARIANTS
  TargetsExist
  PendingInOnePlace
PROPERTIES
  NotifiedIsResolved
  CallsReturn
