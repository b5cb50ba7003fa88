SPECIFICATION Spec
CONSTANTS
  QueueSize = 2
  MaxRetries = 1
  MaxOps = 1
  MaxErrors = 1
  MaxSubscribes = 1
PROPERTY NothingFallsInBetween
CHECK_DEADLOCK FALSE
