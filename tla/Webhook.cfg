SPECIFICATION FairSpec
CONSTANTS
  Deliveries = {d1, d2}
  Received = {d1}
  OfIntegration = {d1}
  Jobs = {j1, j2}
  Nobody = nobody
  MaxRetries = 1
  MaxUnexpected = 2
  MaxRestarts = 2
  MidWriteKills = TRUE
INVARIANT RepeatedOnlyAfterLoss
INVARIANT ContentLeavesWithStatus
PROPERTY ImplementsCall
PROPERTY EventuallyEnded
CHECK_DEADLOCK FALSE
