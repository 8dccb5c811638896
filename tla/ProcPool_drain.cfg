\* drain while two jobs run.
CONSTANTS
  Jobs = {j1, j2}
  NoJob = nojob
  DefaultIdle = 1
  Targets = {1}
  InitSlots = 1
  MaxProcs = 3
  MaxFailures = 0
  StartMayFail = FALSE
  Calls = {"drain"}
SPECIFICATION Spec
CHECK_DEADLOCK FALSE
INVARIANT DrainWaitsForJobs
