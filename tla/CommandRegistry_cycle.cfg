SPECIFICATION Spec
CONSTANTS
  NumChannels = 2
  MaxInstances = 2
  MaySendFail = FALSE
  MayDisconnect = FALSE
INVARIANT NoLockCycle
CHECK_DEADLOCK FALSE
