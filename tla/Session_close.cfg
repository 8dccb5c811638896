\* An unrecoverable error while a handoff is under way.
CONSTANTS
  Agents = {x}
  FirstAgent = x
  MayBeUnfit = FALSE
  App = app
  Failing = failing
  MaxUpdates = 2
  MaxSpeeches = 0
  MaxCalls = 0
  MaxErrors = 1
SPECIFICATION Spec
CHECK_DEADLOCK FALSE
INVARIANT ClosedSessionIsSilent
