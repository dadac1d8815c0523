SPECIFICATION FairSpec
CONSTANTS
  NumChannels = 1
  MaxInstances = 2
  MaySendFail = TRUE
  MayDisconnect = TRUE
INVARIANTS HandlerHasProxy EventReachesCommand NoOrphanProxy
PROPERTY DroppedIsUnregistered
CHECK_DEADLOCK FALSE
