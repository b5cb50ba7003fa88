SPECIFICATION Spec
CONSTANTS
  NumEpochs = 2
  MaxVersion = 2
  MaxJobs = 4
  MaxLegacy = 1
  MaxResets = 1
  MaxCancels = 1
  MaxFailures = 1
  MaxCrashes = 1
  MaxMoves = 0
  Reorders = TRUE
  MidRequest = TRUE
  BaselineServed = FALSE
  SharedWorld = TRUE
  AttemptsPerDay = 1
INVARIANTS TypeOK SingleFlight CompleteIsSettled NoJobIsLost
PROPERTIES OutcomeStands PublishIsFenced
CHECK_DEADLOCK FALSE
