SPECIFICATION Spec
CONSTANTS
  Lanes = {"legacy", "exact"}
  EventTail = 1
  MaxEvents = 3
  MaxJobs = 4
  MaxNative = 1
  MaxCancels = 0
  MaxCrashes = 0
INVARIANT RebuildLosesNothing
CHECK_DEADLOCK FALSE
