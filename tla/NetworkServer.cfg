SPECIFICATION FairSpec
CONSTANTS NSlots = 1 NFds = 1 ReuseFds = TRUE MaxSessions = 2 MaxLines = 2 MaxErrors = 2 MayFail = TRUE
PROPERTIES SlotReusedAfterJoin 
