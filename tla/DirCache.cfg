CONSTANTS
  Aliases = {real, link}
  Canon = real
  Marked = {real}
  MaxChanges = 2
  MaxInputs = 3
SPECIFICATION Spec
INVARIANTS TypeOK CoveredIsCurrent
CHECK_DEADLOCK FALSE
