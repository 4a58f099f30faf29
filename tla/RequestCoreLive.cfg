CONSTANTS
  MaxRequests = 3
  MaxChunks = 0
  QueueMax = 3
  MaxErrors = 0
  MaxDeaths = 1
SPECIFICATION FairSpec
INVARIANTS CompletionsAccounted
PROPERTIES RequestsSettle
CHECK_DEADLOCK FALSE
