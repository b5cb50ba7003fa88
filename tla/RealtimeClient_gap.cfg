SPECIFICATION Spec
CONSTANTS
  QueueSize = 1
  MaxRetries = 1
  MaxOps = 3
  MaxErrors = 1
  MaxSubscribes = 1
PROPERTY GapHoldsEvents
CHECK_DEADLOCK FALSE
