SPECIFICATION Spec
CONSTANTS
  None = None
  Isolates = {i1, i2}
  AutoIsolates = {i1}
  Tasks = {x, y}
  MaxJobs = 2
  MaxDepth = 2
INVARIANTS
  OwnDataOnly
PROPERTIES
  ModuleJobsRun
  JobsRun
