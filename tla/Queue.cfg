SPECIFICATION FairSpec
CONSTANTS
  Jobs = {j1, j2, j3}
  Batch = 2
  Width = 1
  LockTimeout = 1
  Delays = {1}
  MaxUnexpected = 2
  MaxTime = 3
  MaxRestarts = 1
INVARIANT OvertakenOnce
PROPERTY EveryDueJobRuns
CHECK_DEADLOCK FALSE
