SPECIFICATION FairSpec
CONSTANTS
  Packages = {p1}
  Create = create
  Poll = poll
  Reports = {r1, r2}
  MaxRetries = 1
  MaxRestarts = 2
  MidWriteKills = TRUE
INVARIANT TypeOK
INVARIANT StillFollowed
INVARIANT EndsAreTold
PROPERTY OutcomesStand
PROPERTY ImplementsCreation
PROPERTY EverySettles
CHECK_DEADLOCK FALSE
