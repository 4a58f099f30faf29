CONSTANTS
  a = a
  b = b
  Contents <- MCContents
  Empty = Empty
  Nil = Nil
  Choices <- OnlyRemote
  MaxEdits = 2
  MaxSaves = 2
  MaxExternal = 1
  MaxFaults = 0
SPECIFICATION Spec
PROPERTIES EditsAreKept
CHECK_DEADLOCK FALSE
