\* drain begins while on_user_turn_completed runs.
CONSTANTS
  MaxSpeeches = 2
  MaxTurns = 1
  MaxToolSteps = 1
  SayMay = {TRUE, FALSE}
  TurnMay = TRUE
SPECIFICATION FairSpec
CHECK_DEADLOCK FALSE
PROPERTY DrainAlwaysReturns
