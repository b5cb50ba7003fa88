SPECIFICATION FairSpec
CONSTANTS
  NumEpochs = 2
  MaxVersion = 3
  MaxJobs = 6
  MaxLegacy = 1
  MaxResets = 0
  MaxCancels = 0
  MaxFailures = 0
  MaxCrashes = 1
  MaxMoves = 1
  Reorders = FALSE
  MidRequest = FALSE
  BaselineServed = TRUE
  SharedWorld = FALSE
  AttemptsPerDay = 1
PROPERTIES EventuallySettled
CHECK_DEADLOCK FALSE
