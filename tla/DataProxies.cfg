SPECIFICATION MCSpec
CONSTANTS
  NumSessions = 2
  MaxCommands = 2
  Permissions = {"SESSION", "ALL"}
  EchoModes = {"all"}
  MaySendFail = TRUE
  MayDisconnect = TRUE
INVARIANTS ClaimHasCommand WritesPermitted AccessorAccounted NoLockCycle
CHECK_DEADLOCK FALSE
