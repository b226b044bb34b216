SPECIFICATION FairSpec
CONSTANTS
  o1 = o1
  o2 = o2
  Offers <- MCOffers
  Senders <- MCSenders
  MaxConns = 2
INVARIANTS
  TypeOK
  OutcomeIsTheUsers
PROPERTIES
  WaitEnds
CHECK_DEADLOCK FALSE
