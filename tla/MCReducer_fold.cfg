SPECIFICATION Spec
CONSTANTS
  alice = alice
  bob = bob
  Pools <- AllPools
  ChunkSize = 2
  Horizon = 2
  MaxOps = 4
SYMMETRY ActorSymmetry
CHECK_DEADLOCK FALSE
INVARIANTS LastWriterWins SegmentsCanonical DeltaIsNetChange ContestedWritesDisclosed
