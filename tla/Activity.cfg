\* Three speeches by say, reply or tool response (what is said may not be interrupted,
\* replies may be), two user turns, aclose with or without drain.
CONSTANTS
  MaxSpeeches = 3
  MaxTurns = 2
  MaxToolSteps = 1
  SayMay = {FALSE}
  TurnMay = TRUE
SPECIFICATION FairSpec
CHECK_DEADLOCK FALSE
INVARIANTS TypeOK PlaysInTurn
PROPERTIES KeepsLife ScheduledIsOver DrainReturnsWithoutOrphans
