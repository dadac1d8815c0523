SPECIFICATION FairSpec
CONSTANTS
  NumChannels = 2
  XPCommands = {"a", "b"}
  Requests <- MCRequests
  MaxElapsed = 2
  MaxRequests = 2
  MaySendFail = TRUE
  MayQueueFail = TRUE
  MayDisconnect = TRUE
INVARIANTS HoldsAccounted RepetitionsPerformed
PROPERTY TriggersEnd
CHECK_DEADLOCK FALSE
