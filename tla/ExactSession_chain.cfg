SPECIFICATION Spec
CONSTANTS
  MaxEdits = 2
  MaxVersion = 4
  MaxPolls = 2
  MaxOthers = 0
  MaxResets = 0
  MaxLimited = 1
  MaxLost = 0
  MaxRetries = 0
  MaxSwaps = 0
  MaxTurns = 1
INVARIANT NoSelfConflict
CHECK_DEADLOCK FALSE
