SPECIFICATION FairSpec
CONSTANTS
  o1 = o1
  o2 = o2
  o3 = o3
  c1 = c1
  c2 = c2
  d1 = d1
  d2 = d2
  Op <- TwoOps
  Content <- TwoContents
  Unsupported <- Refused
  Driver <- OneDriver
  MaxEpoch = 2
  MaxRevision = 4
  MaxBumps = 1
  MaxBatch = 2
  MaxFailures = 2
  MaxCrashes = 2
INVARIANT BroadcastComplete
INVARIANT EpochSpansPartitionLog
INVARIANT AcksTruthful
PROPERTY EventuallyCanonical
CHECK_DEADLOCK FALSE
