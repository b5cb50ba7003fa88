SPECIFICATION FairSpec
CONSTANTS
  Workspaces = {w1}
  MaxPending = 1
  Qualifies = FALSE
  MaxRevision = 2
  MaxEpochs = 1
  MaxExact = 0
  MaxFailures = 0
  MaxCrashes = 1
PROPERTY ReservationsClear
CHECK_DEADLOCK FALSE
