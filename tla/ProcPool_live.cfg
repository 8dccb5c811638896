\* A target of one idle process: launch_job, the main task and aclose, while one
\* start, one initialization or one process may fail.
CONSTANTS
  Jobs = {j1, j2}
  NoJob = nojob
  DefaultIdle = 1
  Targets = {1}
  InitSlots = 1
  MaxProcs = 3
  MaxFailures = 1
  StartMayFail = TRUE
  Calls = {"aclose"}
SPECIFICATION FairJobsSpec
CHECK_DEADLOCK FALSE
PROPERTIES StartReturns WaitingServedWhileOpen AcloseReturnsUnlessStarting
