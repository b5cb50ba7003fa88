SPECIFICATION Spec
CONSTANTS
  MaxEdits = 2
  MaxVersion = 4
  MaxPolls = 2
  MaxOthers = 0
  MaxResets = 0
  MaxLimited = 0
  MaxLost = 0
  MaxRetries = 0
  MaxSwaps = 1
  MaxTurns = 2
PROPERTY NoZombiePost
CHECK_DEADLOCK FALSE
