SPECIFICATION Spec
CONSTANTS
  Moving = {"notices", "startup", "package rows", "lists"}
  Rules <- FourRules
  MaxPerHour <- FourLimits
  GroupHours <- FourGroups
  Causes = {c1}
  RuleOf <- AccountRule
  KeptFor = 1
  MaxRows = 2
  PoolSize <- Pools
  Retries = 1
  Hour = 0
  Day = 1
  MaxTime = 2
  MaxEvents = 1
  Releases = {1, 2}
  Schema <- Migrations
  Keys = {k1, k2}
  KeptCopies = 2
  MaxWrites = 1
  MaxHands = 2
  RecipientLists <- Packages
  Formats <- FileFormats
  Codes = {21, 22}
  Jobs = {k1, k2}
  Ids = {1, 2, 3}
  Times = {0, 1}
  Owners = {"ours", "system"}
  Requests = {0}
  Default = 1
  Largest = 2
  PageSize = 1
  k1 = k1
  k2 = k2
  c1 = c1
SYMMETRY Pairs
INVARIANT NoticesAreBounded
INVARIANT DataIsSafe
INVARIANT ResultsAreTrue
INVARIANT NothingIsSkipped
CHECK_DEADLOCK FALSE
