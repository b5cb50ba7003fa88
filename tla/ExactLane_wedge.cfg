SPECIFICATION FairSpec
CONSTANTS
  NumEpochs = 1
  MaxVersion = 2
  MaxJobs = 4
  MaxLegacy = 0
  MaxResets = 1
  MaxCancels = 0
  MaxFailures = 0
  MaxCrashes = 0
  MaxMoves = 0
  Reorders = FALSE
  MidRequest = FALSE
  BaselineServed = TRUE
  SharedWorld = FALSE
  AttemptsPerDay = 1
PROPERTY EventuallySettled
CHECK_DEADLOCK FALSE
