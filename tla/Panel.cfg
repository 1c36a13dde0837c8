SPECIFICATION Spec
CONSTANTS
  Moving = {"sign-in", "certificates", "keys", "m365", "forms"}
  Pages = {b1, b2}
  Users = {u1, u2}
  First = u1
  Logins = {a1, a2}
  MaxFailures = 2
  StageFailures = 2
  MaxCodes = 1
  MaxChanges = 1
  Workers = {a1, a2}
  Loops = {d1}
  Sockets = 2
  MaxSwaps = 2
  Services = {a1, a2}
  Integrations = {i1}
  Keys = {k1}
  Origs = {o1}
  People = {a1, a2}
  Apps = {u1, u2}
  FirstApp = u1
  Browsers = {c1, c2}
  SignIns = {l1}
  MaxTokens = 2
  MaxTrouble = 2
  Tabs = {a1, a2}
  Names = {b1, b2}
  MaxHeaders = 2
  Ways = {header, payload}
  PresetWays = {header}
  Servers = {c1, c2}
  Listed = {d1}
  Unlisted = {}
  Rests = {r1, r2}
SYMMETRY Pairs
INVARIANT AccessIsCurrent
INVARIANT KeysAreCovered
INVARIANT SecretsStay
PROPERTY CredentialsHold
PROPERTY AccountIsTrue
CHECK_DEADLOCK FALSE
