\* Two agents, three handoffs, one of which may name an agent that cannot start, an error,
\* drain and aclose at any point.
CONSTANTS
  Agents = {x, y}
  FirstAgent = x
  MayBeUnfit = TRUE
  App = app
  Failing = failing
  MaxUpdates = 3
  MaxSpeeches = 1
  MaxCalls = 1
  MaxErrors = 1
SPECIFICATION FairSpec
CHECK_DEADLOCK FALSE
INVARIANTS OneAgentSpeaks RunningAgentIsLinked LatestAgentRuns
PROPERTIES ActivitiesKeepLife HandoffEnds
