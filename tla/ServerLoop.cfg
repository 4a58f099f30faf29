CONSTANTS
  Workers = {k1, k2}
  FS_JOB_QUEUE_CAPACITY = 1
  WRITER_QUEUE_CAPACITY = 1
  Kinds = {"watch", "stream", "large", "garbled", "oversized"}
  MaxRequests = 4
  MaxEvents = 1
  MaxStuck = 1
SPECIFICATION FairSpec
INVARIANTS TypeOK RepliesInOrder
PROPERTIES RequestsAnswered EofEndsProcess
CHECK_DEADLOCK FALSE
