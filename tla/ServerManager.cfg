SPECIFICATION FairSpec
CONSTANTS MaxRequests = 3 MaxSettings = 2
INVARIANTS SettledAsWanted SettingsTakeEffect DestroyedWithoutServer
 
