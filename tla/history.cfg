SPECIFICATION BothSpec
CONSTANTS
  Messages = {m1, m2}
  Workers = {w1, w2}
  Prompt = TRUE
  Documents = {d1, d2}
  MaxCalls = 3
  MaxFaults = 2
INVARIANTS
  TypesOK
  HistoryIsWhole
  FilesAreKept
PROPERTIES
  QuiesceIsQuiet
  EverythingIsSaved
