SPECIFICATION Spec
CONSTANTS
  QueueSize = 1
  MaxRetries = 1
  MaxOps = 2
  MaxErrors = 2
  MaxSubscribes = 1
INVARIANT LiveMeansConnected
CHECK_DEADLOCK FALSE
