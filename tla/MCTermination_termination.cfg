SPECIFICATION FairSpec
CONSTANTS
  Requesters = {r1, r2}
  Instances = {m1, m2}
  NoInstance = NoInstance
  MaxFrames = 6
  MaxInterrupts = 2
  Events = {}
INVARIANTS
  FlagFollowsRequests
  ActiveIsInnermostCall
  InterruptsOnce
PROPERTY TerminationStops
