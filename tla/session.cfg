SPECIFICATION FairSpec
CONSTANTS
  Statuses = {Online, Away}
  Peers = {peer}
  Rate = 8
  MaxQueue = 2
  SendFails = TRUE
  SplitReads = TRUE
INVARIANTS
  TypeOK
  ConnectionAgrees
  StatusIsAnnounced
PROPERTIES
  ImplementsContract
  LoginSettlesUnlessStuck
  StatusReachesServer
CHECK_DEADLOCK FALSE
