CONSTANTS
  a = a
  b = b
  Contents <- MCContents
  Empty = Empty
  Nil = Nil
  Choices <- AllChoices
  MaxEdits = 2
  MaxSaves = 4
  MaxExternal = 1
  MaxFaults = 1
SPECIFICATION FairSpec
INVARIANTS CleanIsBase
PROPERTIES LatestRequestWins SavesEnd
CHECK_DEADLOCK FALSE
