SPECIFICATION Spec
CONSTANTS
  o1 = o1
  o2 = o2
  o3 = o3
  c1 = c1
  c2 = c2
  d1 = d1
  d2 = d2
  Op <- TwoOps
  Content <- OneContent
  Unsupported <- NoContent
  Driver <- OneDriver
  MaxEpoch = 1
  MaxRevision = 2
  MaxBumps = 0
  MaxBatch = 1
  MaxFailures = 2
  MaxCrashes = 0
INVARIANT EpochOrderIsRevisionOrder
CHECK_DEADLOCK FALSE
