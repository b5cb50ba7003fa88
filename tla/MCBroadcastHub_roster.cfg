SPECIFICATION Spec
CONSTANTS
  s1 = s1
  s2 = s2
  a1 = a1
  Stream <- TwoStreams
  Actor <- OneActor
  ActorOf <- Tabs
  QueueSize = 1
  MaxRevision = 0
  MaxBeats = 0
INVARIANT RosterTruthful
CHECK_DEADLOCK FALSE
