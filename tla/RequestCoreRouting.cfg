CONSTANTS
  MaxRequests = 3
  MaxChunks = 1
  QueueMax = 2
  MaxErrors = 1
  MaxDeaths = 1
SPECIFICATION Spec
INVARIANTS TypeOK CompletesAtMostOnce
PROPERTIES NoCallbackUnderWaiter DoneIsLast
CHECK_DEADLOCK FALSE
