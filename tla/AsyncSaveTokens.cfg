CONSTANTS
  a = a
  b = b
  Contents <- MCContents
  Empty = Empty
  Nil = Nil
  Choices <- KeepOrMerge
  MaxEdits = 2
  MaxSaves = 4
  MaxExternal = 1
  MaxFaults = 2
SPECIFICATION Spec
PROPERTIES ResolutionReplacesShown
INVARIANTS TypeOK BaseIsReal ExpectsItsBase
CHECK_DEADLOCK FALSE
