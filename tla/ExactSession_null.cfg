SPECIFICATION Spec
CONSTANTS
  MaxEdits = 1
  MaxVersion = 4
  MaxPolls = 2
  MaxOthers = 0
  MaxResets = 1
  MaxLimited = 0
  MaxLost = 0
  MaxRetries = 0
  MaxSwaps = 0
  MaxTurns = 2
INVARIANT NullMeansExact
CHECK_DEADLOCK FALSE
