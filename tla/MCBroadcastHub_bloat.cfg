SPECIFICATION Spec
CONSTANTS
  s1 = s1
  s2 = s2
  a1 = a1
  Stream <- OneStream
  Actor <- OneActor
  ActorOf <- Tabs
  QueueSize = 2
  MaxRevision = 4
  MaxBeats = 2
INVARIANT QueueBounded
CHECK_DEADLOCK FALSE
