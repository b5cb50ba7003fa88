SPECIFICATION Spec
CONSTANTS
  Workspaces = {w1}
  MaxPending = 1
  Qualifies = FALSE
  MaxRevision = 1
  MaxEpochs = 1
  MaxExact = 0
  MaxFailures = 0
  MaxCrashes = 0
INVARIANT CanonicalBeforeFast
CHECK_DEADLOCK FALSE
