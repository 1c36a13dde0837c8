SPECIFICATION FairSpec
CONSTANTS
  Msgs = {m1}
  NParts = 1
  Codes <- AllCodes
  FirstCode <- Accepted
  WithDeadline = {m1}
  MaxRetries = 1
  MaxRestarts = 1
  MidWriteKills = TRUE
  RemoteCancels = TRUE
INVARIANT NoStuckMessage
INVARIANT DuplicateOnlyAfterLoss
INVARIANT FinalReportIsLast
PROPERTY ImplementsHandOver
PROPERTY EventuallyClosed
CHECK_DEADLOCK FALSE
