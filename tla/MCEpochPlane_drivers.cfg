SPECIFICATION Spec
CONSTANTS
  o1 = o1
  o2 = o2
  o3 = o3
  c1 = c1
  c2 = c2
  d1 = d1
  d2 = d2
  Op <- TwoOps
  Content <- OneContent
  Unsupported <- NoContent
  Driver <- TwoDrivers
  MaxEpoch = 1
  MaxRevision = 4
  MaxBumps = 2
  MaxBatch = 1
  MaxFailures = 0
  MaxCrashes = 0
SYMMETRY Symmetry
INVARIANT TypeOK
INVARIANT NoLostFold
PROPERTY AssignedOnce
PROPERTY ImplementsRevisionLog
CHECK_DEADLOCK FALSE
