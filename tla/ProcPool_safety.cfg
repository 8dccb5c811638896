\* Two jobs, three processes, one failure of any kind, a changing idle target, drain and aclose.
CONSTANTS
  Jobs = {j1, j2}
  NoJob = nojob
  DefaultIdle = 1
  Targets = {0, 1}
  InitSlots = 1
  MaxProcs = 3
  MaxFailures = 1
  StartMayFail = TRUE
  Calls = {"aclose", "drain"}
SYMMETRY Symmetry
SPECIFICATION Spec
CHECK_DEADLOCK FALSE
INVARIANTS UsedOnce LiveIsListed NoOrphanAfterClose
PROPERTY ImplementsPoolLife
