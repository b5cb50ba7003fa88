SPECIFICATION FairSpec
CONSTANTS
  s1 = s1
  s2 = s2
  a1 = a1
  Stream <- TwoStreams
  Actor <- OneActor
  ActorOf <- Tabs
  QueueSize = 2
  MaxRevision = 1
  MaxBeats = 1
INVARIANTS TypeOK NoStranding GrowthOnlyByHeartbeats
INVARIANT NoGhostActors
PROPERTY ShutdownEndsStreams
CHECK_DEADLOCK FALSE
