CONSTANTS
  NumChannels = 2
  MaxTimes = 1
  MaintenanceInterval = 1
  MaxInbox = 1
  MaxRequests = 2
  MayDisconnect = TRUE
  MaySendFail = TRUE
SPECIFICATION Spec
INVARIANTS SessionLockBalanced TaskOwnerExists
CHECK_DEADLOCK FALSE
