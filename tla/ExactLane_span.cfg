SPECIFICATION Spec
CONSTANTS
  NumEpochs = 2
  MaxVersion = 2
  MaxJobs = 3
  MaxLegacy = 0
  MaxResets = 0
  MaxCancels = 0
  MaxFailures = 0
  MaxCrashes = 0
  MaxMoves = 0
  Reorders = FALSE
  MidRequest = FALSE
  BaselineServed = TRUE
  SharedWorld = FALSE
  AttemptsPerDay = 1
INVARIANT ZeroLoss
CHECK_DEADLOCK FALSE
