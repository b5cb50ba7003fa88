---------------------------- MODULE BroadcastHub ----------------------------
(***************************************************************************)
(* The SSE broadcast hub of one workspace                                  *)
(* (solweig_gpu/server/realtime/broadcast.py) and the route that opens a   *)
(* stream on it (get_events of solweig_gpu/server/routes_realtime.py).     *)
(*                                                                         *)
(* Two threads meet here.  The scheduler thread commits revisions, fans    *)
(* frames out and sends heartbeats; it reaches a stream only through       *)
(* call_soon_threadsafe, i.e. the event loop's callback queue.  Everything *)
(* else runs on the event loop, one step at a time; the route makes two    *)
(* store reads without giving the loop back.                               *)
(***************************************************************************)
EXTENDS StreamQueue, SequencesExt

CONSTANTS Stream,       \* SSE connections, each used once
          Actor,        \* presence identities
          ActorOf,      \* the actor a stream registers
          QueueSize,    \* capacity of a stream's queue (256 in the code)
          MaxRevision,  \* bound: scene_version
          MaxBeats      \* bound: heartbeat rounds

ASSUME HubAssumption ==
  /\ ActorOf \in [Stream -> Actor]
  /\ QueueSize \in Nat \ {0} /\ MaxRevision \in Nat /\ MaxBeats \in Nat

VARIABLES sceneVersion, \* scenarios.scene_version
          published,    \* the newest revision handed to the hub's subscribers
          pub,          \* the scheduler thread
          beats,        \* heartbeat rounds so far
          callbacks,    \* the event loop's pending _enqueue calls
          subscribers,  \* BroadcastHub._subscribers of the workspace
          liveActors,   \* BroadcastHub._live_actors: actor -> refcount
          hubClosed,    \* BroadcastHub._closed
          at,           \* where each stream is
          snap,         \* the revision the route read before subscribing
          q,            \* each subscription's queue
          shut,         \* Subscription._closed
          seen,         \* the newest revision each client has received
          owed          \* streams that lost a frame and were not told since

schedVars == <<sceneVersion, published, pub, beats>>
hubVars   == <<subscribers, liveActors, hubClosed>>
routeVars == <<at, snap>>
vars == <<schedVars, callbacks, hubVars, routeVars, q, shut, seen, owed>>

Idle == [step |-> "idle", rev |-> 0, targets |-> {}, to |-> {}, missed |-> 0]

Init ==
  /\ sceneVersion = 0 /\ published = 0 /\ pub = Idle /\ beats = 0
  /\ callbacks = <<>> /\ subscribers = {} /\ hubClosed = FALSE
  /\ liveActors = [a \in Actor |-> 0]
  /\ at   = [s \in Stream |-> "new"]
  /\ snap = [s \in Stream |-> 0]
  /\ q    = [s \in Stream |-> NewQueue]
  /\ shut = [s \in Stream |-> FALSE]
  /\ seen = [s \in Stream |-> 0]
  /\ owed = {}

-----------------------------------------------------------------------------
(* The scheduler thread.                                                   *)

\* commit_epoch_reduction: a new revision is durable and will be broadcast.
Commit ==
  /\ pub.step = "idle" /\ sceneVersion < MaxRevision
  /\ sceneVersion' = sceneVersion + 1
  /\ pub' = [pub EXCEPT !.step = "committed", !.rev = sceneVersion + 1]
  /\ UNCHANGED <<published, beats, callbacks, hubVars, routeVars, q, shut, seen, owed>>

\* _publish, under the hub's lock: who is subscribed now.
SnapshotSubscribers ==
  /\ pub.step = "committed"
  /\ pub' = [pub EXCEPT !.step = "deliver", !.targets = subscribers]
  /\ UNCHANGED <<sceneVersion, published, beats, callbacks, hubVars, routeVars,
                 q, shut, seen, owed>>

\* _publish, outside the lock: hand the one frame to every target's loop.
DeliverFrame ==
  /\ pub.step = "deliver"
  /\ callbacks' = callbacks \o SetToSeq({[to |-> s, frame |-> CanonicalFrame(pub.rev, {})] :
                                          s \in pub.targets})
  /\ published' = pub.rev
  /\ pub' = Idle
  /\ UNCHANGED <<sceneVersion, beats, hubVars, routeVars, q, shut, seen, owed>>

\* send_heartbeats, under the lock.
BeginHeartbeats ==
  /\ pub.step = "idle" /\ ~hubClosed /\ beats < MaxBeats
  /\ beats' = beats + 1
  /\ pub' = [pub EXCEPT !.step = "beat", !.targets = subscribers]
  /\ UNCHANGED <<sceneVersion, published, callbacks, hubVars, routeVars, q,
                 shut, seen, owed>>

\* heartbeat_payload runs off the event loop's thread: it reads flag and count,
ReadLag(s) ==
  /\ pub.step = "beat" /\ s \in pub.targets
  /\ pub' = [pub EXCEPT !.step = IF q[s].lagged THEN "lagged" ELSE "send",
                        !.to = {s}, !.missed = Notice(q[s])]
  /\ UNCHANGED <<sceneVersion, published, beats, callbacks, hubVars, routeVars,
                 q, shut, seen, owed>>

\* resets the flag if it was set,
ResetFlag(s) ==
  /\ pub.step = "lagged" /\ s \in pub.to
  /\ q' = [q EXCEPT ![s].lagged = FALSE]
  /\ pub' = [pub EXCEPT !.step = "reset"]
  /\ UNCHANGED <<sceneVersion, published, beats, callbacks, hubVars, routeVars,
                 shut, seen, owed>>

\* then the count; send_heartbeats hands the frame to the loop.
SendHeartbeat(s) ==
  /\ pub.step \in {"send", "reset"} /\ s \in pub.to
  /\ q' = IF pub.step = "reset" THEN [q EXCEPT ![s].missed = 0] ELSE q
  /\ callbacks' = Append(callbacks, [to |-> s, frame |-> HeartbeatFrame(pub.missed)])
  /\ pub' = [Idle EXCEPT !.step = "beat", !.targets = pub.targets \ {s}]
  /\ UNCHANGED <<sceneVersion, published, beats, hubVars, routeVars, shut, seen, owed>>

EndHeartbeats ==
  /\ pub.step = "beat" /\ pub.targets = {}
  /\ pub' = Idle
  /\ UNCHANGED <<sceneVersion, published, beats, callbacks, hubVars, routeVars,
                 q, shut, seen, owed>>

-----------------------------------------------------------------------------
(* The event loop.                                                         *)

\* The route holds the loop from its first store read to its last.
LoopFree == \A s \in Stream : at[s] \notin {"snapshot", "registered"}

\* _enqueue of a frame for s; a closed subscription ignores everything.
RunCallback ==
  LET s == Head(callbacks).to
      f == Head(callbacks).frame
      full == Len(q[s].frames) >= QueueSize
  IN
  /\ LoopFree /\ callbacks # <<>>
  /\ callbacks' = Tail(callbacks)
  /\ q' = [q EXCEPT ![s] = IF shut[s] THEN @
                           ELSE IF f.event = "heartbeat" THEN PutHeartbeat(@, f)
                           ELSE Put(@, f, QueueSize)]
  /\ owed' = IF ~shut[s] /\ f.event # "heartbeat" /\ full
             THEN owed \cup {s} ELSE owed
  /\ UNCHANGED <<schedVars, hubVars, routeVars, shut, seen>>

\* get_events: read the scenario for the snapshot frame.
OpenRoute(s) ==
  /\ LoopFree /\ at[s] = "new"
  /\ at' = [at EXCEPT ![s] = "snapshot"]
  /\ snap' = [snap EXCEPT ![s] = sceneVersion]
  /\ UNCHANGED <<schedVars, callbacks, hubVars, q, shut, seen, owed>>

\* Variation of Subscribe: the closed flag of the hub is not looked at.
SubscribeAnyway(s) ==
  /\ at[s] = "snapshot"
  /\ at' = [at EXCEPT ![s] = "registered"]
  /\ q' = [q EXCEPT ![s] = Put(@, SnapshotFrame(snap[s]), QueueSize)]
  /\ subscribers' = subscribers \cup {s}
  /\ liveActors' = [liveActors EXCEPT ![ActorOf[s]] = @ + 1]
  /\ UNCHANGED <<schedVars, callbacks, hubClosed, snap, shut, seen, owed>>

\* hub.subscribe: the snapshot frame first, then the registration.
Subscribe(s) ==
  LET first == Put(q[s], SnapshotFrame(snap[s]), QueueSize)
  IN
  /\ at[s] = "snapshot"
  /\ at' = [at EXCEPT ![s] = "registered"]
  /\ \/ /\ hubClosed
        /\ shut' = [shut EXCEPT ![s] = TRUE]
        /\ q' = [q EXCEPT ![s] = PutPrivileged(first, CloseFrame)]
        /\ UNCHANGED <<subscribers, liveActors>>
     \/ /\ ~hubClosed
        /\ q' = [q EXCEPT ![s] = first]
        /\ subscribers' = subscribers \cup {s}
        /\ liveActors' = [liveActors EXCEPT ![ActorOf[s]] = @ + 1]
        /\ UNCHANGED shut
  /\ UNCHANGED <<schedVars, callbacks, hubClosed, snap, seen, owed>>

\* Variation of Corrective: the scenario is not read again.
NoCorrective(s) == <<>>

\* The corrective snapshot frame, if the revision moved since the first read.
Corrective(s) ==
  IF sceneVersion > snap[s] THEN <<SnapshotFrame(sceneVersion)>> ELSE <<>>

\* The route's second read and push_snapshot; the stream then starts.
Reread(s) ==
  /\ at[s] = "registered"
  /\ at' = [at EXCEPT ![s] = "open"]
  /\ q' = IF shut[s] THEN q
          ELSE [q EXCEPT ![s].frames = @ \o Corrective(s)]
  /\ UNCHANGED <<schedVars, callbacks, hubVars, snap, shut, seen, owed>>

\* Variation of Leave: a leaving tab keeps its reference.
LeaveNothing(s) == liveActors

\* Variation of Leave: an actor that already left is counted down again.
LeaveBelowZero(s) == [liveActors EXCEPT ![ActorOf[s]] = @ - 1]

\* The actor's refcount after one unsubscribe call for s.
Leave(s) ==
  IF liveActors[ActorOf[s]] = 0 THEN liveActors
  ELSE [liveActors EXCEPT ![ActorOf[s]] = @ - 1]

\* hub.unsubscribe(s), on the queue qs; it returns early only when no stream
\* at all is left.
Unsubscribe(s, qs) ==
  IF subscribers = {}
  THEN q' = qs /\ UNCHANGED <<subscribers, liveActors, shut>>
  ELSE /\ subscribers' = subscribers \ {s}
       /\ liveActors' = Leave(s)
       /\ shut' = [shut EXCEPT ![s] = TRUE]
       /\ q' = [qs EXCEPT ![s] = PutPrivileged(@, CloseFrame)]

\* The response iterator takes the next frame and the client receives it.
ReadFrame(s) ==
  LET f == Head(q[s].frames)
  IN
  /\ LoopFree /\ at[s] = "open" /\ q[s].frames # <<>> /\ f.event # "close"
  /\ q' = [q EXCEPT ![s].frames = Tail(@)]
  /\ seen' = [seen EXCEPT ![s] = Max({@, f.rev})]
  /\ owed' = IF f.missed > 0 THEN owed \ {s} ELSE owed
  /\ UNCHANGED <<schedVars, callbacks, hubVars, routeVars, shut>>

\* The stream ends, by the close sentinel or because the client went away:
\* the finally clause of Subscription.events() unsubscribes ...
EndStream(s) ==
  /\ LoopFree /\ at[s] = "open"
  /\ at' = [at EXCEPT ![s] = "ending"]
  /\ Unsubscribe(s, q)
  /\ UNCHANGED <<schedVars, callbacks, hubClosed, snap, seen, owed>>

ReadClose(s) == q[s].frames # <<>> /\ Head(q[s].frames).event = "close" /\ EndStream(s)

Disconnect(s) == ~hubClosed /\ EndStream(s)

\* ... and so does the finally clause of the route's own stream().
CloseAgain(s) ==
  /\ LoopFree /\ at[s] = "ending"
  /\ at' = [at EXCEPT ![s] = "ended"]
  /\ Unsubscribe(s, q)
  /\ UNCHANGED <<schedVars, callbacks, hubClosed, snap, seen, owed>>

\* hub.close() at shutdown: every stream gets the sentinel.
CloseHub ==
  /\ LoopFree /\ ~hubClosed
  /\ hubClosed' = TRUE
  /\ subscribers' = {}
  /\ shut' = [s \in Stream |-> shut[s] \/ s \in subscribers]
  /\ q' = [s \in Stream |-> IF s \in subscribers THEN PutPrivileged(q[s], CloseFrame)
                                                 ELSE q[s]]
  /\ UNCHANGED <<schedVars, callbacks, liveActors, routeVars, seen, owed>>

-----------------------------------------------------------------------------

SchedulerStep ==
  \/ Commit \/ SnapshotSubscribers \/ DeliverFrame
  \/ BeginHeartbeats \/ EndHeartbeats
  \/ \E s \in Stream : ReadLag(s) \/ ResetFlag(s) \/ SendHeartbeat(s)

Next ==
  \/ SchedulerStep
  \/ RunCallback
  \/ CloseHub
  \/ \E s \in Stream : \/ OpenRoute(s) \/ Subscribe(s) \/ Reread(s) \/ ReadFrame(s)
                       \/ ReadClose(s) \/ Disconnect(s) \/ CloseAgain(s)

Spec == Init /\ [][Next]_vars

\* The loop runs its callbacks and its routes, and a connected client reads.
Fairness ==
  /\ WF_vars(RunCallback)
  /\ \A s \in Stream :
       WF_vars(Subscribe(s) \/ Reread(s) \/ ReadFrame(s) \/ ReadClose(s) \/ CloseAgain(s))

FairSpec == Spec /\ Fairness

-----------------------------------------------------------------------------
(* Properties.                                                             *)

\* What is on its way to s: queued frames and pending callbacks.
InFlight(s) ==
  {q[s].frames[i] : i \in DOMAIN q[s].frames}
    \cup {callbacks[i].frame : i \in {j \in DOMAIN callbacks : callbacks[j].to = s}}

\* Every variable has its type: no refcount goes below zero however often a
\* stream is unsubscribed, and nothing read or received is ahead of the store.
TypeOK ==
  /\ sceneVersion \in 0 .. MaxRevision /\ published \in 0 .. MaxRevision
  /\ beats \in 0 .. MaxBeats
  /\ pub.step \in {"idle", "committed", "deliver", "beat", "lagged", "reset", "send"}
  /\ pub.targets \subseteq Stream
  /\ subscribers \subseteq Stream /\ liveActors \in [Actor -> Nat]
  /\ at \in [Stream -> {"new", "snapshot", "registered", "open", "ending", "ended"}]
  /\ \A s \in Stream : snap[s] <= sceneVersion /\ seen[s] <= sceneVersion

\* push_snapshot closes the subscribe race: however the two reads of the route,
\* the registration and the scheduler's commit and fan-out interleave, and even
\* if its queue drops frames, an open stream has, or is about to get, the newest
\* published revision.
NoStranding ==
  \A s \in subscribers : at[s] = "open" =>
    \E r \in {seen[s]} \cup {f.rev : f \in InFlight(s)} : published <= r

\* Events alone never grow a queue past its capacity: a wedged reader costs the
\* server at most one frame more per heartbeat round (for a capacity of two or
\* more, which the snapshot and its correction fit in).
GrowthOnlyByHeartbeats ==
  \A s \in subscribers : Len(q[s].frames) <= QueueSize + beats

\* Presence shows no ghosts: an actor on the roster has a live stream.
NoGhostActors ==
  hubClosed \/ \A a \in Actor : liveActors[a] > 0 => \E s \in subscribers : ActorOf[s] = a

\* Closing the hub ends every stream, those that subscribe during the shutdown
\* too.
ShutdownEndsStreams ==
  \A s \in Stream : (hubClosed /\ at[s] # "new") ~> (at[s] = "ended")

\* broadcast.py: "a lagged subscriber MUST still get its missed-event notice,
\* or it could never recover".
MissedEventsAnnounced ==
  \A s \in owed \cap subscribers :
    \/ q[s].lagged
    \/ \E f \in InFlight(s) : f.missed > 0
    \/ s \in pub.to /\ pub.missed > 0

\* broadcast.py: "That keeps a wedged client from bloating server memory" and
\* "At most ONE pending heartbeat per subscriber": the capacity, and one
\* privileged heartbeat beyond it.
QueueBounded ==
  \A s \in subscribers : Len(q[s].frames) <= QueueSize + 1

\* broadcast.py: "the roster lists the actor while any tab is live".
RosterTruthful ==
  \A s \in subscribers : liveActors[ActorOf[s]] > 0

=============================================================================
