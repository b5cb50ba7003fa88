SPECIFICATION Spec
CONSTANTS
  Workspaces = {w1}
  MaxPending = 1
  Qualifies = FALSE
  MaxRevision = 2
  MaxEpochs = 1
  MaxExact = 1
  MaxFailures = 0
  MaxCrashes = 0
INVARIANT TripleOrdered
CHECK_DEADLOCK FALSE
