SPECIFICATION FairSpec
CONSTANTS
  Statuses = {Online, Away}
  Peers = {peer}
  Rate = 8
  MaxQueue = 2
  SendFails = FALSE
  SplitReads = FALSE
PROPERTY
  LoginSettles
CHECK_DEADLOCK FALSE
