SPECIFICATION SocketsSpec
CONSTANTS
  Offers <- MCOffers
  Garbage = {0, 1}
  MaxBadFiles = 2
  MaxTroubles = 2
  Email = {e1, e2}
  SMS = {s1}
  MaxFaults = 2
INVARIANTS
  TypesOK
  FilesArrive
  EndsAgree
  MailIsDelivered
PROPERTIES
  EndedStaysEnded
  TransferEnds
  EmailEnds
CHECK_DEADLOCK FALSE
