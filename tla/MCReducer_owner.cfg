SPECIFICATION Spec
CONSTANTS
  alice = alice
  bob = bob
  Pools <- SegmentPools
  ChunkSize = 2
  Horizon = 2
  MaxOps = 4
SYMMETRY ActorSymmetry
CHECK_DEADLOCK FALSE
INVARIANTS SegmentOverwritesDisclosed
