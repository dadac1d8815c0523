CONSTANTS
  NumChannels = 1
  MaxTimes = 2
  MaintenanceInterval = 2
  MaxInbox = 2
  MaxRequests = 3
  MayDisconnect = FALSE
  MaySendFail = FALSE
SPECIFICATION FairSpec
PROPERTIES FollowsChannelProtocol RequestAnswered ChannelEnds ClosedChannelReleased FlightLoopProceeds
