CONSTANTS
  a = a
  u = u
  Workers = {w1, w2}
  NoWorker = NoWorker
  Contents <- MCContents
  Empty = Empty
  Unsupported = u
  Mixed = Mixed
  FineClock = FALSE
  Ops <- AllOps
  MaxOps = 3
  MaxExternal = 0
  MaxFaults = 0
  MaxExits = 0
SPECIFICATION FairSpec
INVARIANTS TypeOK
PROPERTIES CallsReturn ImplementsRegister
CHECK_DEADLOCK FALSE
