SPECIFICATION FairSpec
CONSTANTS
  MaxEdits = 2
  MaxVersion = 4
  MaxPolls = 2
  MaxOthers = 1
  MaxResets = 1
  MaxLimited = 1
  MaxLost = 1
  MaxRetries = 1
  MaxSwaps = 1
  MaxTurns = 2
INVARIANTS AtMostOnce
PROPERTIES AppliedIsAwaited EventuallySettled
CHECK_DEADLOCK FALSE
