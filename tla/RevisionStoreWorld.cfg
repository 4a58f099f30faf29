CONSTANTS
  a = a
  u = u
  Workers = {w1, w2}
  NoWorker = NoWorker
  Contents <- MCContents
  Empty = Empty
  Unsupported = u
  Mixed = Mixed
  FineClock = TRUE
  Ops <- MixedOps
  MaxOps = 3
  MaxExternal = 1
  MaxFaults = 1
  MaxExits = 1
SPECIFICATION Spec
SYMMETRY WorkerSymmetry
INVARIANTS TokensAreReal OneWinner
PROPERTIES PublishReplacesExpected
CHECK_DEADLOCK FALSE
