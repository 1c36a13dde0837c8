SPECIFICATION Spec
CONSTANTS
  Msgs = {m1}
  NParts = 2
  Codes <- AllCodes
  FirstCode <- Accepted
  WithDeadline = {}
  MaxRetries = 1
  MaxRestarts = 0
  MidWriteKills = FALSE
  RemoteCancels = TRUE
INVARIANT ReportedOutcomeStands
INVARIANT CancelledMeansWithdrawn
CHECK_DEADLOCK FALSE
