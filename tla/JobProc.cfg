\* One job with two inference requests, and three failures of any kind.
CONSTANTS
  MaxAsks = 2
  MaxFailures = 3
SPECIFICATION FairSpec
INVARIANT SuccessMeansCleanedUp
PROPERTIES KeepsProcLife ProcessEnds InferenceAnswered
CHECK_DEADLOCK FALSE
