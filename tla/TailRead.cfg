CONSTANTS
  MAX_TAIL_BYTES = 1
  TotalMax = 2
  MaxFiles = 2
  MaxAppends = 4
  MaxTruncates = 1
  MaxRotates = 1
  FineClock = TRUE
  MaxCalls = 2
  MaxFaults = 1
SPECIFICATION FairSpec
INVARIANTS TypeOK FollowsOneFile RangeIsOneVersion
PROPERTIES CompleteReachesEof SequencesEnd
CHECK_DEADLOCK FALSE
