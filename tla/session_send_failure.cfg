SPECIFICATION Spec
CONSTANTS
  Statuses = {Online, Away}
  Peers = {peer}
  Rate = 8
  MaxQueue = 2
  SendFails = TRUE
  SplitReads = FALSE
INVARIANT
  LowLevelFailureIsRecoverable
CHECK_DEADLOCK FALSE
