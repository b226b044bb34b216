SPECIFICATION RosterSpec
CONSTANTS
  c1 = c1
  c2 = c2
  Contact <- MCContact
  OnServer <- MCOnServer
  MaxInbox = 3
  MaxCommands = 4
  Letters <- MCLetters
  Texts <- MCTexts
  SMSReports <- MCSMSReports
  Told <- MCTold
  Lists <- MCLists
  Verdicts <- MCVerdicts
  Portions = {3, 61, 140}
  MaxPackets = 2
  MaxCuts = 1
INVARIANTS
  TypesOK
  RosterAgrees
  VisibilityIsKnown
  PacketsArrive
CHECK_DEADLOCK FALSE
