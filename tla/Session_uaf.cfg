CONSTANTS
  NumChannels = 1
  MaxTimes = 1
  MaintenanceInterval = 1
  MaxInbox = 1
  MaxRequests = 1
  MayDisconnect = TRUE
  MaySendFail = FALSE
SPECIFICATION Spec
INVARIANT NoUseAfterFree
CHECK_DEADLOCK FALSE
