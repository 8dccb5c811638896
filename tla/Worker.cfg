\* Two jobs, two requests in all, one broken connection, a channel of one message.
CONSTANTS
  Jobs = {j, k}
  MaxRequests = 2
  MaxBreaks = 1
  MaxRetry = 1
  ChanSize = 1
  Answers = {"accept", "reject"}
  Loads = {FALSE}
SPECIFICATION FairSpec
INVARIANTS LaunchNeedsAssignment OnlyInHandIsLost
PROPERTIES RequestEnds ServerLearnsDrain AcloseReturns
CHECK_DEADLOCK FALSE
