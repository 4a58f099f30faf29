CONSTANTS
  Waiters = {w1, w2}
  MaxConns = 3
  MaxWatches <- Watches
  MaxDeaths <- Deaths
  MaxRefusals = 1
SPECIFICATION FairSpec
INVARIANTS TypeOK LiveIsRegistered WaitersAccounted WatchesSurvive
PROPERTIES WaitersAreTold
CHECK_DEADLOCK FALSE
