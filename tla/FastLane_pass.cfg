SPECIFICATION FairSpec
CONSTANTS
  Workspaces = {w1, w2}
  MaxPending = 1
  Qualifies = TRUE
  MaxRevision = 2
  MaxEpochs = 2
  MaxExact = 1
  MaxFailures = 1
  MaxCrashes = 1
PROPERTIES FramesNeverRegress EventuallyFast QualifiedRetires
CHECK_DEADLOCK FALSE
