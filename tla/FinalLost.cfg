SPECIFICATION Spec
CONSTANTS
  Msgs = {m1}
  NParts = 1
  Codes <- FewCodes
  FirstCode <- Accepted
  WithDeadline = {}
  MaxRetries = 0
  MaxRestarts = 0
  MidWriteKills = FALSE
  RemoteCancels = FALSE
PROPERTY FinalStatusStays
CHECK_DEADLOCK FALSE
