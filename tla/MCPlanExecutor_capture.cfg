SPECIFICATION Spec
CONSTANTS
  Batches <- MixedBatches
  Steps = 2
  MaxBatches = 3
  MaxFailures = 1
  MaxSaves = 0
  MaxRestarts = 0
CHECK_DEADLOCK FALSE
INVARIANTS CaptureServesItsRevision
