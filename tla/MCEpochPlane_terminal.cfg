SPECIFICATION Spec
CONSTANTS
  o1 = o1
  o2 = o2
  o3 = o3
  c1 = c1
  c2 = c2
  d1 = d1
  d2 = d2
  Op <- OneOp
  Content <- OneContent
  Unsupported <- NoContent
  Driver <- OneDriver
  MaxEpoch = 0
  MaxRevision = 1
  MaxBumps = 0
  MaxBatch = 1
  MaxFailures = 0
  MaxCrashes = 0
PROPERTY TerminalIsFinal
CHECK_DEADLOCK FALSE
