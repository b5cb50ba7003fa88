SPECIFICATION FairSpec
CONSTANTS
  QueueSize = 1
  MaxRetries = 1
  MaxOps = 2
  MaxErrors = 0
  MaxSubscribes = 1
PROPERTY MissedOperationsReplayed
CHECK_DEADLOCK FALSE
