SPECIFICATION Spec
CONSTANTS
  s1 = s1
  s2 = s2
  a1 = a1
  Stream <- OneStream
  Actor <- OneActor
  ActorOf <- Tabs
  QueueSize = 1
  MaxRevision = 2
  MaxBeats = 2
INVARIANT MissedEventsAnnounced
CHECK_DEADLOCK FALSE
