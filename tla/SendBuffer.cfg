CONSTANTS
  SendBufferSize = 4
  SendChunkSize = 2
  Senders = {s1, s2}
  SendThread = sendThread
  NoThread = none
  MaxAccepted = 5
SPECIFICATION FairSpec
PROPERTIES RefusedOnlyWhenFull ImplementsByteStream SendThreadServes
