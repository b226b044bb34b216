SPECIFICATION TrafficSpec
CONSTANTS
  Texts <- MCTexts
  Aliases <- MCAliases
  CodePage <- MCCodePage
  Others = {"b"}
  IdSpace = 2
  MaxRequests = 2
  MaxSearches = 2
  MaxSaves = 1
  MaxConnects = 2
  MaxResults = 2
INVARIANTS
  TypesOK
  ShownAsWritten
  VerdictIsKnown
  RequestsAgree
PROPERTIES
  RequestsEnd
CHECK_DEADLOCK FALSE
