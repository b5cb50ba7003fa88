SPECIFICATION FairSpec
CONSTANTS
  QueueSize = 1
  MaxRetries = 1
  MaxOps = 0
  MaxErrors = 2
  MaxSubscribes = 2
PROPERTY BrokenStreamPickedUp
CHECK_DEADLOCK FALSE
