CONSTANTS
  Execs = {e1}
  MaxPids = 1
  MaxBytes = 2
  EXEC_OUTPUT_LIMIT = 2
  MaxOthers = 1
SPECIFICATION FairSpec
INVARIANTS TypeOK OutputIsComplete WorkersKillTheirOwn RunningAreKilled
PROPERTIES CallsReturn
CHECK_DEADLOCK FALSE
