SPECIFICATION Spec
CONSTANTS
  Batches <- MixedBatches
  Steps = 2
  MaxBatches = 3
  MaxFailures = 1
  MaxSaves = 2
  MaxRestarts = 1
CHECK_DEADLOCK FALSE
INVARIANTS ServedIsScenario WorkerPaired NeverWedged NoOrphans
