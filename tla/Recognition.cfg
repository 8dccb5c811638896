\* Three words, in either mode.
CONSTANTS
  Modes = {TRUE, FALSE}
  MaxHeard = 3
  MaxStarts = 2
  MaxCommits = 2
  MaxClears = 1
SPECIFICATION FairSpec
INVARIANTS HeardOnce ClosedIsQuiet
PROPERTIES HeardIsDelivered
CHECK_DEADLOCK FALSE
