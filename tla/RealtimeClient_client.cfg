SPECIFICATION FairSpec
CONSTANTS
  QueueSize = 1
  MaxRetries = 1
  MaxOps = 1
  MaxErrors = 2
  MaxSubscribes = 2
INVARIANTS FenceOwned OneReconnectCycle
PROPERTIES ReconnectSettles RevisionConverges
CHECK_DEADLOCK FALSE
