SPECIFICATION Spec
CONSTANTS
  Lanes = {"legacy", "exact"}
  EventTail = 0
  MaxEvents = 3
  MaxJobs = 4
  MaxNative = 1
  MaxCancels = 1
  MaxCrashes = 1
INVARIANTS ServedSceneIsSound CoverageIsDurable
CHECK_DEADLOCK FALSE
