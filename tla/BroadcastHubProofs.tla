-------------------------- MODULE BroadcastHubProofs --------------------------
(***************************************************************************)
(* Proofs about BroadcastHub for any number of streams, actors, revisions  *)
(* and heartbeat rounds and any queue size.                                *)
(***************************************************************************)
EXTENDS BroadcastHub, FiniteSetTheorems, SequenceTheorems, WellFoundedInduction, TLAPS

-----------------------------------------------------------------------------
(* The inductive invariant.                                                *)

At       == {"new", "snapshot", "registered", "open", "ending", "ended"}
Step     == {"idle", "committed", "deliver", "beat", "lagged", "reset", "send"}
Beating  == {"beat", "lagged", "reset", "send"}

\* Frames, queues and callbacks when the store is at revision v; a heartbeat
\* carries no revision.
FrameEvent == {"canonical", "snapshot", "heartbeat", "close"}

AnyFrame(v) == [event : FrameEvent, rev : 0 .. v, ops : SUBSET {}, missed : Nat]
Frame(v) == {f \in AnyFrame(v) : f.event = "heartbeat" => f.rev = 0}

Queue(v) == [frames : Seq(Frame(v)), missed : Nat, lagged : BOOLEAN]

Callback(v) == [to : Stream, frame : Frame(v)]

Publisher(v) == [step : Step, rev : 0 .. v, targets : SUBSET Stream, to : SUBSET Stream,
                 missed : Nat]

StoreTypes ==
  /\ sceneVersion \in 0 .. MaxRevision /\ published \in 0 .. sceneVersion
  /\ beats \in 0 .. MaxBeats
  /\ pub \in Publisher(sceneVersion) /\ IsFiniteSet(pub.targets) /\ pub.to \subseteq pub.targets
  /\ pub.to # {} => pub.step \in {"lagged", "reset", "send"}
  /\ callbacks \in Seq(Callback(sceneVersion))

HubTypes ==
  /\ subscribers \in SUBSET Stream /\ IsFiniteSet(subscribers)
  /\ liveActors \in [Actor -> Nat] /\ hubClosed \in BOOLEAN
  /\ at \in [Stream -> At] /\ shut \in [Stream -> BOOLEAN]
  /\ snap \in [Stream -> 0 .. sceneVersion] /\ seen \in [Stream -> 0 .. sceneVersion]
  /\ q \in [Stream -> Queue(sceneVersion)]

\* The pending callbacks for s, and of these the events and the heartbeats.
Pending(cb, s) == {i \in DOMAIN cb : cb[i].to = s}
Events(cb, s)  == {i \in Pending(cb, s) : cb[i].frame.event # "heartbeat"}
Pulses(cb, s)  == {i \in Pending(cb, s) : cb[i].frame.event = "heartbeat"}

\* The last event that waits for s is one of revision p.
EndsIn(cb, s, p) ==
  \A i \in Events(cb, s) : \E j \in Events(cb, s) : i <= j /\ cb[j].frame.rev = p

\* A stream that is not registered yet is unknown to both threads.
Unknown(s) ==
  /\ q[s] = NewQueue /\ ~shut[s] /\ s \notin subscribers /\ s \notin pub.targets
  /\ Pending(callbacks, s) = {}

Routes ==
  \A s \in Stream :
    /\ at[s] \in {"new", "snapshot"} => Unknown(s)
    /\ s \in subscribers => ~shut[s] /\ at[s] \in {"registered", "open"}
    /\ ~hubClosed /\ at[s] \in {"registered", "open"} => s \in subscribers
    /\ s \in subscribers /\ at[s] = "registered" =>
         q[s].frames = <<SnapshotFrame(snap[s])>>

\* An actor is counted at most once for each of its live streams.
LiveTabs(a) == {s \in subscribers : ActorOf[s] = a}
Roster  == hubClosed \/ \A a \in Actor : liveActors[a] <= Cardinality(LiveTabs(a))

\* A revision of at least x was received or is on its way to s.
Reach(x, sn, fr, cb, s) ==
  \/ x <= sn
  \/ \E i \in DOMAIN fr : x <= fr[i].rev
  \/ \E i \in Pending(cb, s) : x <= cb[i].frame.rev

\* A frame that is being handed out skips only streams that know its revision
\* already, and the newest published one is the last event a stream waits for.
Missed(s) == pub.step = "deliver" /\ s \notin pub.targets

Covered(s) ==
  /\ at[s] = "open" => Reach(published, seen[s], q[s].frames, callbacks, s)
  /\ at[s] = "open" /\ Missed(s) => Reach(pub.rev, seen[s], q[s].frames, callbacks, s)
  /\ Missed(s) => Events(callbacks, s) = {}
  /\ EndsIn(callbacks, s, published)

Coverage == \A s \in subscribers : Covered(s)

\* The heartbeats that are still to reach s, the one being prepared included.
Due(s) ==
  Cardinality(Pulses(callbacks, s))
    + (IF s \in pub.targets /\ pub.step \in Beating THEN 1 ELSE 0)

Small(s) == Due(s) <= beats /\ Len(q[s].frames) + Due(s) <= QueueSize + beats

Growth == \A s \in subscribers : Small(s)

IInv == StoreTypes /\ HubTypes /\ Routes /\ Roster /\ Coverage

-----------------------------------------------------------------------------
(* Sequences of callbacks.                                                 *)

\* SetToSeq lists every member of a finite set.
LEMMA SetToSeqFacts ==
  ASSUME NEW S, IsFiniteSet(S)
  PROVE  /\ SetToSeq(S) \in Seq(S)
         /\ \A x \in S : \E i \in DOMAIN SetToSeq(S) : SetToSeq(S)[i] = x
<1> DEFINE n == Cardinality(S)
           f == SetToSeq(S)
<1>1. n \in Nat /\ ExistsBijection(1 .. n, S)
  BY FS_CardinalityType
<1>2. \E g \in [1 .. n -> S] : IsInjective(g)
  BY <1>1 DEF ExistsBijection, Bijection, Injection
<1>3. f \in [1 .. n -> S] /\ IsInjective(f)
  BY <1>2 DEF SetToSeq
<1> HIDE DEF f
<1>4. f \in Injection(1 .. n, S)
  BY <1>3 DEF Injection
<1>5. Cardinality(1 .. n) = n
  <2>1. 1 \in Int /\ n \in Int
    BY <1>1
  <2>2. Cardinality(1 .. n) = IF 1 > n THEN 0 ELSE n - 1 + 1
    BY <2>1, FS_Interval
  <2> QED BY <1>1, <2>2
<1>6. f \in Surjection(1 .. n, S)
  BY <1>4, <1>5, FS_Injection
<1>7. f \in Seq(S)
  BY <1>1, <1>3, SeqDef
<1>8. \A x \in S : \E i \in 1 .. n : f[i] = x
  BY <1>6 DEF Surjection
<1> QED BY <1>3, <1>7, <1>8 DEF f

\* What a sequence of callbacks looks like to one stream.
LEMMA PendingFacts ==
  ASSUME NEW C, NEW cb \in Seq(C), NEW s
  PROVE  /\ DOMAIN cb = 1 .. Len(cb) /\ Len(cb) \in Nat
         /\ IsFiniteSet(Pulses(cb, s)) /\ Cardinality(Pulses(cb, s)) \in Nat
         /\ \A i \in DOMAIN cb : cb[i] \in C
<1>1. DOMAIN cb = 1 .. Len(cb) /\ Len(cb) \in Nat /\ \A i \in DOMAIN cb : cb[i] \in C
  BY LenProperties, ElementOfSeq
<1>2. Pulses(cb, s) \in SUBSET (1 .. Len(cb))
  BY <1>1 DEF Pulses, Pending
<1>3. IsFiniteSet(1 .. Len(cb))
  <2>1. 1 \in Int /\ Len(cb) \in Int
    BY <1>1
  <2> QED BY <2>1, FS_Interval
<1>4. IsFiniteSet(Pulses(cb, s))
  BY <1>2, <1>3, FS_Subset
<1> QED BY <1>1, <1>4, FS_CardinalityType

\* t is cb without its oldest callback.
Popped(cb, t) ==
  /\ \A i \in DOMAIN t : i + 1 \in DOMAIN cb /\ t[i] = cb[i + 1] /\ i \in Nat
  /\ \A i \in DOMAIN cb : i # 1 => i - 1 \in DOMAIN t /\ t[i - 1] = cb[i] /\ i \in Nat

\* The loop runs the oldest callback.
LEMMA TailCallbacks ==
  ASSUME NEW C, NEW cb \in Seq(C), cb # <<>>
  PROVE  /\ Tail(cb) \in Seq(C) /\ 1 \in DOMAIN cb /\ Head(cb) = cb[1] /\ cb[1] \in C
         /\ Popped(cb, Tail(cb))
<1> DEFINE u == Tail(cb)
<1>1. /\ Len(cb) \in Nat \ {0} /\ DOMAIN cb = 1 .. Len(cb)
      /\ \A i \in 1 .. Len(cb) : cb[i] \in C
  BY EmptySeq, LenProperties, ElementOfSeq
<1>2. /\ u \in Seq(C) /\ Len(u) = Len(cb) - 1
      /\ \A i \in 1 .. Len(u) : u[i] = cb[i + 1]
  BY HeadTailProperties
<1>3. DOMAIN u = 1 .. Len(u)
  BY <1>2, LenProperties
<1>4. Head(cb) = cb[1]
  OBVIOUS
<1> HIDE DEF u
<1>5. \A i \in DOMAIN u : i + 1 \in DOMAIN cb /\ u[i] = cb[i + 1] /\ i \in Nat
  BY <1>1, <1>2, <1>3
<1>6. ASSUME NEW i \in DOMAIN cb, i # 1
      PROVE  i - 1 \in DOMAIN u /\ u[i - 1] = cb[i] /\ i \in Nat
  <2>1. i \in Nat /\ i - 1 \in DOMAIN u /\ (i - 1) + 1 = i
    BY <1>1, <1>2, <1>3, <1>6
  <2>2. u[i - 1] = cb[(i - 1) + 1]
    BY <1>5, <2>1
  <2> QED BY <2>1, <2>2
<1>7. Popped(cb, u)
  BY <1>5, <1>6 DEF Popped
<1> QED BY <1>1, <1>2, <1>4, <1>7 DEF u

\* A heartbeat that is run is no longer pending.
LEMMA TailPulses ==
  ASSUME NEW C, NEW cb \in Seq(C), cb # <<>>, NEW s
  PROVE  Cardinality(Pulses(Tail(cb), s)) =
           IF 1 \in Pulses(cb, s) THEN Cardinality(Pulses(cb, s)) - 1
                                  ELSE Cardinality(Pulses(cb, s))
<1> DEFINE t == Tail(cb)
           A == Pulses(cb, s) \ {1}
           B == Pulses(t, s)
           f == [i \in A |-> i - 1]
<1>1. Popped(cb, t)
  BY TailCallbacks
<1>2. IsFiniteSet(Pulses(cb, s)) /\ Cardinality(Pulses(cb, s)) \in Nat /\ DOMAIN t = 1 .. Len(t)
  BY TailCallbacks, PendingFacts
<1>3. IsFiniteSet(A) /\ Cardinality(A) = IF 1 \in Pulses(cb, s) THEN Cardinality(Pulses(cb, s)) - 1
                                  ELSE Cardinality(Pulses(cb, s))
  <2> DEFINE P == Pulses(cb, s)
  <2> HIDE DEF P
  <2>1. IsFiniteSet(P \ {1}) /\ Cardinality(P \ {1}) = IF 1 \in P THEN Cardinality(P) - 1
                                  ELSE Cardinality(P)
    BY <1>2, FS_RemoveElement DEF P
  <2> QED BY <2>1 DEF P
<1> HIDE DEF t
<1>4. \A i \in A : i \in Nat /\ i - 1 \in B
  BY <1>1 DEF Popped, Pulses, Pending
<1>5. \A i \in B : i \in Nat /\ i + 1 \in A
  <2> SUFFICES ASSUME NEW i \in B PROVE i \in Nat /\ i + 1 \in A
    OBVIOUS
  <2>1. i \in DOMAIN t /\ i \in 1 .. Len(t) /\ t[i] = cb[i + 1] /\ i + 1 \in DOMAIN cb /\ i \in Nat
    BY <1>1, <1>2 DEF Popped, Pulses, Pending
  <2>2. t[i].to = s /\ t[i].frame.event = "heartbeat"
    BY DEF Pulses, Pending
  <2>3. i + 1 \in Pulses(cb, s)
    BY <2>1, <2>2 DEF Pulses, Pending
  <2> QED BY <2>1, <2>3
<1> HIDE DEF A, B
<1>6. f \in [A -> B]
  BY <1>4
<1>7. \A i, j \in A : f[i] = f[j] => i = j
  BY <1>4
<1>8. \A k \in B : \E i \in A : f[i] = k
  <2> SUFFICES ASSUME NEW k \in B PROVE \E i \in A : f[i] = k
    OBVIOUS
  <2>1. k + 1 \in A /\ f[k + 1] = k
    BY <1>5
  <2> QED BY <2>1
<1>9. f \in Bijection(A, B)
  <2> HIDE DEF f
  <2>1. IsInjective(f)
    BY <1>6, <1>7 DEF IsInjective
  <2> QED BY <1>6, <1>8, <2>1 DEF Bijection, Injection, Surjection
<1>10. Cardinality(B) = Cardinality(A)
  BY <1>3, <1>9, FS_Bijection DEF ExistsBijection
<1> QED BY <1>3, <1>10 DEF B, t

\* For s, t is cb with the callback x behind it.
Keeps(cb, t, s) == Pending(cb, s) \subseteq Pending(t, s) /\ \A i \in Pending(cb, s) : t[i] = cb[i]

Scheduled(cb, x, t, s) ==
  /\ Keeps(cb, t, s)
  /\ x.to # s => Pending(t, s) = Pending(cb, s) /\ Pulses(t, s) = Pulses(cb, s)
  /\ x.frame.event = "heartbeat" => Events(t, s) = Events(cb, s)
  /\ Cardinality(Pulses(t, s)) <= Cardinality(Pulses(cb, s)) + 1

\* A callback is scheduled.
LEMMA AppendCallback ==
  ASSUME NEW C, NEW cb \in Seq(C), NEW x \in C, NEW s
  PROVE  Append(cb, x) \in Seq(C) /\ Scheduled(cb, x, Append(cb, x), s)
<1> DEFINE u == Append(cb, x)
           n == Len(cb) + 1
<1>1. /\ u \in Seq(C) /\ Len(cb) \in Nat /\ DOMAIN cb = 1 .. Len(cb) /\ DOMAIN u = 1 .. n
      /\ \A i \in DOMAIN cb : u[i] = cb[i]
      /\ u[n] = x
  BY AppendProperties, LenProperties
<1>2. DOMAIN u = DOMAIN cb \cup {n} /\ n \notin DOMAIN cb
  BY <1>1
<1> HIDE DEF u, n
<1>3. Pending(cb, s) \subseteq Pending(u, s) /\ \A i \in Pending(cb, s) : u[i] = cb[i]
  BY <1>1, <1>2 DEF Pending
<1>4. x.to # s => Pending(u, s) = Pending(cb, s)
  BY <1>1, <1>2 DEF Pending
<1>5. x.to # s => Pulses(u, s) = Pulses(cb, s)
  BY <1>3, <1>4 DEF Pulses
<1>6. x.frame.event = "heartbeat" => Events(u, s) = Events(cb, s)
  <2>1. \A i : i \in Pending(u, s) => i \in Pending(cb, s) \/ i = n
    BY <1>1, <1>2 DEF Pending
  <2> QED BY <1>1, <1>3, <2>1 DEF Events
<1>7. Cardinality(Pulses(u, s)) <= Cardinality(Pulses(cb, s)) + 1
  <2> DEFINE P == Pulses(cb, s)
  <2>1. IsFiniteSet(P) /\ Cardinality(P) \in Nat /\ Cardinality(Pulses(u, s)) \in Nat
    BY <1>1, PendingFacts
  <2>2. Pulses(u, s) \in SUBSET (P \cup {n})
    BY <1>1, <1>2 DEF Pulses, Pending
  <2> HIDE DEF P
  <2>3. IsFiniteSet(P \cup {n}) /\ Cardinality(P \cup {n}) <= Cardinality(P) + 1
        /\ Cardinality(P \cup {n}) \in Nat
    <3>1. /\ IsFiniteSet(P \cup {n})
          /\ Cardinality(P \cup {n}) = IF n \in P THEN Cardinality(P) ELSE Cardinality(P) + 1
      BY <2>1, FS_AddElement
    <3> QED BY <2>1, <3>1
  <2>4. Cardinality(Pulses(u, s)) <= Cardinality(P \cup {n})
    <3> DEFINE S == P \cup {n}
    <3> HIDE DEF S
    <3> QED BY <2>2, <2>3, FS_Subset DEF S
  <2> QED BY <2>1, <2>3, <2>4 DEF P
<1>8. Scheduled(cb, x, u, s)
  BY <1>3, <1>4, <1>5, <1>6, <1>7 DEF Scheduled, Keeps
<1> QED BY <1>1, <1>8 DEF u

\* For s, t is cb with the events x behind it.
FannedOut(cb, x, t, s) ==
  /\ Keeps(cb, t, s)
  /\ Pulses(t, s) = Pulses(cb, s)
  /\ \A j \in DOMAIN x : x[j].to = s => Len(cb) + j \in Events(t, s) /\ t[Len(cb) + j] = x[j]
  /\ \A i \in Events(t, s) :
       i \in Events(cb, s) \/ \E j \in DOMAIN x : i = Len(cb) + j /\ x[j].to = s

\* Events are scheduled after what is pending, and are no heartbeats.
LEMMA ConcatCallbacks ==
  ASSUME NEW C, NEW cb \in Seq(C), NEW x \in Seq(C), NEW s,
         \A j \in DOMAIN x : x[j].frame.event # "heartbeat"
  PROVE  cb \o x \in Seq(C) /\ FannedOut(cb, x, cb \o x, s)
<1> DEFINE u == cb \o x
<1>1. /\ Len(cb) \in Nat /\ DOMAIN cb = 1 .. Len(cb)
      /\ Len(x) \in Nat /\ DOMAIN x = 1 .. Len(x)
  BY LenProperties
<1>2. /\ u \in Seq(C) /\ Len(u) = Len(cb) + Len(x)
      /\ \A i \in 1 .. Len(cb) + Len(x) : u[i] = IF i <= Len(cb) THEN cb[i] ELSE x[i - Len(cb)]
  BY ConcatProperties
<1> HIDE DEF u
<1>3. DOMAIN u = 1 .. Len(cb) + Len(x)
  BY <1>2, LenProperties
<1>4. \A i \in DOMAIN cb : i \in DOMAIN u /\ u[i] = cb[i]
  BY <1>1, <1>2, <1>3
<1>5. \A j \in DOMAIN x : Len(cb) + j \in DOMAIN u /\ u[Len(cb) + j] = x[j]
  <2> SUFFICES ASSUME NEW j \in DOMAIN x
               PROVE  Len(cb) + j \in DOMAIN u /\ u[Len(cb) + j] = x[j]
    OBVIOUS
  <2>1. Len(cb) + j \in 1 .. Len(cb) + Len(x) /\ ~(Len(cb) + j <= Len(cb))
        /\ (Len(cb) + j) - Len(cb) = j
    BY <1>1
  <2>2. u[Len(cb) + j] = x[(Len(cb) + j) - Len(cb)]
    BY <1>2, <2>1
  <2> QED BY <1>3, <2>1, <2>2
<1>6. ASSUME NEW i \in DOMAIN u
      PROVE  i \in DOMAIN cb \/ \E j \in DOMAIN x : i = Len(cb) + j
  <2>1. CASE i <= Len(cb)
    BY <1>1, <1>3, <2>1
  <2>2. CASE ~(i <= Len(cb))
    <3>1. i - Len(cb) \in DOMAIN x /\ i = Len(cb) + (i - Len(cb))
      BY <1>1, <1>3, <2>2
    <3> QED BY <3>1
  <2> QED BY <2>1, <2>2
<1>7. Pending(cb, s) \subseteq Pending(u, s) /\ \A i \in Pending(cb, s) : u[i] = cb[i]
  BY <1>4 DEF Pending
<1>8. Pulses(u, s) = Pulses(cb, s)
  <2>1. \A i \in Pulses(u, s) : i \in Pulses(cb, s)
    BY <1>4, <1>5, <1>6 DEF Pulses, Pending
  <2>2. \A i \in Pulses(cb, s) : i \in Pulses(u, s)
    BY <1>4 DEF Pulses, Pending
  <2> QED BY <2>1, <2>2
<1>9. \A j \in DOMAIN x : x[j].to = s =>
        Len(cb) + j \in Events(u, s) /\ u[Len(cb) + j] = x[j]
  BY <1>5 DEF Events, Pending
<1>10. \A i \in Events(u, s) :
         i \in Events(cb, s) \/ \E j \in DOMAIN x : i = Len(cb) + j /\ x[j].to = s
  BY <1>4, <1>5, <1>6 DEF Events, Pending
<1>11. FannedOut(cb, x, u, s)
  BY <1>7, <1>8, <1>9, <1>10 DEF FannedOut, Keeps
<1> QED BY <1>2, <1>11 DEF u

-----------------------------------------------------------------------------
(* The queue of one stream.                                                *)

\* The frames both threads make.
LEMMA FramesMade ==
  ASSUME NEW v \in Nat
  PROVE  /\ \A r \in 0 .. v : CanonicalFrame(r, {}) \in Frame(v) /\ SnapshotFrame(r) \in Frame(v)
         /\ \A m \in Nat : HeartbeatFrame(m) \in Frame(v)
         /\ CloseFrame \in Frame(v) /\ NewQueue \in Queue(v)
<1>1. \A r \in 0 .. v : CanonicalFrame(r, {}) \in Frame(v) /\ SnapshotFrame(r) \in Frame(v)
  BY DEF CanonicalFrame, SnapshotFrame, Frame, AnyFrame, FrameEvent
<1>2. \A m \in Nat : HeartbeatFrame(m) \in Frame(v)
  BY DEF HeartbeatFrame, Frame, AnyFrame, FrameEvent
<1>3. CloseFrame \in Frame(v)
  BY DEF CloseFrame, Frame, AnyFrame, FrameEvent
<1>4. <<>> \in Seq(Frame(v))
  BY EmptySeq
<1>5. NewQueue \in Queue(v)
  BY <1>4 DEF NewQueue, Queue
<1> QED BY <1>1, <1>2, <1>3, <1>5

\* What was made stays well formed when the store moves on.
LEMMA Grows ==
  ASSUME NEW v \in Nat
  PROVE  /\ 0 .. v \subseteq 0 .. v + 1 /\ Queue(v) \subseteq Queue(v + 1)
         /\ Seq(Callback(v)) \subseteq Seq(Callback(v + 1))
         /\ Publisher(v) \subseteq Publisher(v + 1)
<1>1. 0 .. v \subseteq 0 .. v + 1
  OBVIOUS
<1>2. AnyFrame(v) \subseteq AnyFrame(v + 1)
  BY <1>1 DEF AnyFrame
<1>3. Frame(v) \subseteq Frame(v + 1)
  BY <1>2 DEF Frame
<1>4. Seq(Frame(v)) \subseteq Seq(Frame(v + 1))
  BY <1>3, SeqMonotonic
<1>5. Queue(v) \subseteq Queue(v + 1)
  BY <1>4 DEF Queue
<1>6. Callback(v) \subseteq Callback(v + 1)
  BY <1>3 DEF Callback
<1>7. Seq(Callback(v)) \subseteq Seq(Callback(v + 1))
  BY <1>6, SeqMonotonic
<1>8. Publisher(v) \subseteq Publisher(v + 1)
  BY <1>1 DEF Publisher
<1> QED BY <1>1, <1>5, <1>7, <1>8

\* A privileged frame joins the queue whatever its length.
LEMMA PrivilegedFacts ==
  ASSUME NEW v \in Nat, NEW Q \in Queue(v), NEW f \in Frame(v)
  PROVE  LET P == PutPrivileged(Q, f)
         IN  /\ P \in Queue(v) /\ P.frames = Append(Q.frames, f)
             /\ Len(P.frames) = Len(Q.frames) + 1 /\ Len(Q.frames) \in Nat
             /\ \E i \in DOMAIN P.frames : P.frames[i] = f
             /\ \A k \in DOMAIN Q.frames : k \in DOMAIN P.frames /\ P.frames[k] = Q.frames[k]
<1> DEFINE P == PutPrivileged(Q, f)
           g == Append(Q.frames, f)
<1>1. Q.frames \in Seq(Frame(v)) /\ Q.missed \in Nat
  BY DEF Queue
<1>2. /\ g \in Seq(Frame(v)) /\ Len(g) = Len(Q.frames) + 1 /\ Len(Q.frames) \in Nat
      /\ \A k \in 1 .. Len(Q.frames) : g[k] = Q.frames[k]
      /\ g[Len(Q.frames) + 1] = f
      /\ DOMAIN Q.frames = 1 .. Len(Q.frames)
  BY <1>1, AppendProperties, LenProperties
<1> HIDE DEF g
<1>3. DOMAIN g = 1 .. Len(Q.frames) + 1
  BY <1>2, LenProperties
<1>4. P \in Queue(v) /\ P.frames = g
  BY <1>2 DEF PutPrivileged, Queue, g
<1> HIDE DEF P
<1>5. Len(Q.frames) + 1 \in DOMAIN P.frames /\ P.frames[Len(Q.frames) + 1] = f
  BY <1>2, <1>3, <1>4
<1>6. \A k \in DOMAIN Q.frames : k \in DOMAIN P.frames /\ P.frames[k] = Q.frames[k]
  BY <1>2, <1>3, <1>4
<1> QED BY <1>2, <1>4, <1>5, <1>6 DEF P, g

\* An event joins the queue; only a queue with room grows.
LEMMA PutFacts ==
  ASSUME NEW v \in Nat, NEW Q \in Queue(v), NEW f \in Frame(v)
  PROVE  LET P == Put(Q, f, QueueSize)
         IN  /\ P \in Queue(v) /\ Len(P.frames) \in Nat
             /\ Len(P.frames) <= QueueSize \/ Len(P.frames) = Len(Q.frames)
             /\ \E i \in DOMAIN P.frames : P.frames[i] = f
<1> DEFINE P == Put(Q, f, QueueSize)
<1>1. Q.frames \in Seq(Frame(v)) /\ Q.missed \in Nat
  BY DEF Queue
<1>2. Len(Q.frames) \in Nat /\ QueueSize \in Nat \ {0}
  BY <1>1, LenProperties, HubAssumption
<1>3. CASE Len(Q.frames) < QueueSize
  <2>1. P = PutPrivileged(Q, f)
    BY <1>3 DEF Put
  <2> HIDE DEF P
  <2>2. P \in Queue(v) /\ Len(P.frames) = Len(Q.frames) + 1
        /\ \E i \in DOMAIN P.frames : P.frames[i] = f
    BY <2>1, PrivilegedFacts
  <2>3. Len(P.frames) <= QueueSize /\ Len(P.frames) \in Nat
    BY <1>2, <1>3, <2>2
  <2> QED BY <2>2, <2>3 DEF P
<1>4. CASE ~(Len(Q.frames) < QueueSize)
  <2> DEFINE t == Tail(Q.frames)
             g == Append(t, f)
  <2>1. Q.frames # <<>>
    BY <1>2, <1>4, EmptySeq
  <2>2. t \in Seq(Frame(v)) /\ Len(t) = Len(Q.frames) - 1
    BY <1>1, <2>1, HeadTailProperties
  <2> HIDE DEF t
  <2>3. g \in Seq(Frame(v)) /\ Len(g) = Len(t) + 1 /\ g[Len(t) + 1] = f /\ DOMAIN g = 1 .. Len(g)
    BY <2>2, AppendProperties, LenProperties
  <2>4. P = [frames |-> g, missed |-> Q.missed + 1, lagged |-> TRUE]
    BY <1>4 DEF Put, t
  <2> HIDE DEF g, P
  <2>5. P \in Queue(v) /\ P.frames = g
    BY <1>1, <2>3, <2>4 DEF Queue
  <2>6. Len(g) = Len(Q.frames) /\ Len(t) + 1 \in 1 .. Len(g)
    BY <1>2, <2>2, <2>3
  <2> QED BY <1>2, <2>3, <2>5, <2>6 DEF P
<1> QED BY <1>3, <1>4

\* A heartbeat adds at most one frame and takes no revision away.
LEMMA HeartbeatFacts ==
  ASSUME NEW v \in Nat, NEW Q \in Queue(v), NEW h \in Frame(v)
  PROVE  LET P == PutHeartbeat(Q, h)
         IN  /\ P \in Queue(v) /\ Len(P.frames) \in Nat /\ Len(Q.frames) \in Nat
             /\ Len(P.frames) <= Len(Q.frames) + 1
             /\ \A k \in DOMAIN Q.frames : Q.frames[k].rev = 0 \/
                  \E i \in DOMAIN P.frames : P.frames[i].rev = Q.frames[k].rev
<1> DEFINE P == PutHeartbeat(Q, h)
           H == PendingHeartbeats(Q)
           m == Min(H)
<1>1. Q.frames \in Seq(Frame(v))
  BY DEF Queue
<1>2. /\ Len(Q.frames) \in Nat /\ DOMAIN Q.frames = 1 .. Len(Q.frames)
      /\ \A k \in 1 .. Len(Q.frames) : Q.frames[k] \in Frame(v)
  BY <1>1, LenProperties, ElementOfSeq
<1>3. CASE H = {}
  <2>1. P = PutPrivileged(Q, h)
    BY <1>3 DEF PutHeartbeat
  <2> HIDE DEF P
  <2>2. /\ P \in Queue(v) /\ Len(P.frames) = Len(Q.frames) + 1
        /\ \A k \in DOMAIN Q.frames : k \in DOMAIN P.frames /\ P.frames[k] = Q.frames[k]
    BY <2>1, PrivilegedFacts
  <2> QED BY <1>2, <2>2 DEF P
<1>4. CASE H # {}
  <2>1. m \in H
    <3>1. H \in SUBSET Nat
      BY <1>2 DEF PendingHeartbeats
    <3> HIDE DEF H
    <3>2. PICK x \in H : \A y \in H : ~(<<y, x>> \in OpToRel(<, Nat))
      BY <1>4, <3>1, WFMin, NatLessThanWellFounded
    <3>3. \A y \in H : ~(y < x)
      BY <3>1, <3>2 DEF OpToRel
    <3>4. \A y \in H : x <= y
      BY <3>1, <3>3
    <3> QED BY <3>4 DEF Min
  <2>2. m \in DOMAIN Q.frames /\ Q.frames[m].event = "heartbeat"
    BY <2>1 DEF PendingHeartbeats
  <2>3. Q.frames[m].rev = 0
    BY <1>2, <2>2 DEF Frame
  <2> DEFINE g == [Q.frames EXCEPT ![m] = h]
  <2>4. P = [Q EXCEPT !.frames = g]
    BY <1>4 DEF PutHeartbeat
  <2> HIDE DEF m, P
  <2>5. /\ g \in Seq(Frame(v)) /\ Len(g) = Len(Q.frames)
        /\ \A j \in 1 .. Len(Q.frames) : g[j] = IF j = m THEN h ELSE Q.frames[j]
    BY <1>1, <1>2, <2>2, ExceptSeq
  <2> HIDE DEF g
  <2>6. P \in Queue(v) /\ P.frames = g /\ DOMAIN g = 1 .. Len(g)
    BY <2>4, <2>5, LenProperties DEF Queue
  <2>7. \A k \in DOMAIN Q.frames : Q.frames[k].rev = 0 \/ (k \in DOMAIN P.frames /\ P.frames[k].rev = Q.frames[k].rev)
    BY <1>2, <2>3, <2>5, <2>6
  <2>8. Len(P.frames) <= Len(Q.frames) + 1 /\ Len(P.frames) \in Nat
    BY <1>2, <2>5, <2>6
  <2> QED BY <1>2, <2>6, <2>7, <2>8 DEF P
<1> QED BY <1>3, <1>4

-----------------------------------------------------------------------------
(* Types.                                                                  *)

\* Nothing has happened yet.
LEMMA InitTypes == Init => StoreTypes /\ HubTypes
<1> SUFFICES ASSUME Init PROVE StoreTypes /\ HubTypes
  OBVIOUS
<1> USE HubAssumption
<1>1. NewQueue \in Queue(0) /\ <<>> \in Seq(Callback(0))
  BY FramesMade, EmptySeq
<1>2. IsFiniteSet({})
  BY FS_EmptySet
<1>3. Idle \in Publisher(0)
  BY DEF Idle, Publisher, Step
<1>4. StoreTypes
  BY <1>1, <1>2, <1>3 DEF Init, StoreTypes, Idle
<1>5. shut \in [Stream -> BOOLEAN] /\ hubClosed \in BOOLEAN
  BY Zenon DEF Init
<1>6. at \in [Stream -> At] /\ q \in [Stream -> Queue(0)]
  BY <1>1 DEF Init, At
<1>7. HubTypes
  BY <1>2, <1>5, <1>6 DEF Init, HubTypes
<1> QED BY <1>4, <1>7

\* The scheduler thread's steps; callbacks stay well formed.
LEMMA SchedulerTypes ==
  ASSUME StoreTypes, HubTypes, SchedulerStep
  PROVE  StoreTypes' /\ HubTypes'
<1> DEFINE v == sceneVersion
<1> USE HubAssumption
<1>1. /\ v \in Nat /\ pub \in Publisher(v) /\ IsFiniteSet(pub.targets)
      /\ callbacks \in Seq(Callback(v)) /\ subscribers \in SUBSET Stream
      /\ IsFiniteSet(subscribers) /\ q \in [Stream -> Queue(v)]
  BY DEF StoreTypes, HubTypes
<1>2. pub.targets \in SUBSET Stream /\ pub.to \in SUBSET Stream /\ pub.rev \in 0 .. v
      /\ pub.missed \in Nat
  BY <1>1 DEF Publisher
<1>3. Idle \in Publisher(v) /\ IsFiniteSet(Idle.targets) /\ Idle.to = {} /\ Idle.targets = {}
  BY <1>1, FS_EmptySet DEF Idle, Publisher, Step
<1>4. CASE Commit
  <2>1. /\ sceneVersion' = v + 1 /\ v + 1 \in 0 .. MaxRevision
        /\ pub' = [pub EXCEPT !.step = "committed", !.rev = v + 1]
        /\ UNCHANGED <<published, beats, callbacks, hubVars, routeVars, q, shut, seen, owed>>
    BY <1>1, <1>4 DEF Commit
  <2>2. /\ pub \in Publisher(v + 1) /\ callbacks \in Seq(Callback(v + 1))
        /\ 0 .. v \subseteq 0 .. v + 1 /\ Queue(v) \subseteq Queue(v + 1) /\ v + 1 \in 0 .. v + 1
    BY <1>1, Grows
  <2> DEFINE w == v + 1
  <2>3. pub' = [pub EXCEPT !.step = "committed", !.rev = w] /\ pub \in Publisher(w) /\ w \in 0 .. w
    BY <2>1, <2>2
  <2> HIDE DEF w
  <2>4. pub' \in Publisher(w) /\ pub'.targets = pub.targets /\ pub'.to = pub.to
    BY <2>3 DEF Publisher, Step
  <2>5. pub.to = {}
    BY <1>4 DEF Commit, StoreTypes
  <2>6. StoreTypes'
    BY <2>1, <2>2, <2>4, <2>5 DEF StoreTypes, w
  <2>7. HubTypes'
    BY <2>1, <2>2 DEF HubTypes, hubVars, routeVars
  <2> QED BY <2>6, <2>7
<1>5. CASE SnapshotSubscribers \/ BeginHeartbeats
  <2>1. PICK st \in {"deliver", "beat"} : pub' = [pub EXCEPT !.step = st, !.targets = subscribers]
    BY <1>5 DEF SnapshotSubscribers, BeginHeartbeats
  <2>2. /\ UNCHANGED <<sceneVersion, published, callbacks, hubVars, routeVars, q, shut, seen>>
        /\ beats' \in 0 .. MaxBeats
    BY <1>5 DEF SnapshotSubscribers, BeginHeartbeats, StoreTypes
  <2>3. pub' \in Publisher(v) /\ pub'.targets = subscribers /\ pub'.to = pub.to
    BY <1>1, <2>1 DEF Publisher, Step
  <2>4. pub.to = {}
    BY <1>5 DEF SnapshotSubscribers, BeginHeartbeats, StoreTypes
  <2>5. StoreTypes'
    BY <1>1, <2>2, <2>3, <2>4 DEF StoreTypes
  <2> QED BY <2>2, <2>5 DEF HubTypes, hubVars, routeVars
<1>6. CASE DeliverFrame
  <2> DEFINE M == {[to |-> s, frame |-> CanonicalFrame(pub.rev, {})] : s \in pub.targets}
  <2>1. M \in SUBSET Callback(v) /\ IsFiniteSet(M)
    <3>1. CanonicalFrame(pub.rev, {}) \in Frame(v)
      BY <1>1, <1>2, FramesMade
    <3> DEFINE f == [s \in pub.targets |-> [to |-> s, frame |-> CanonicalFrame(pub.rev, {})]]
    <3>2. f \in Surjection(pub.targets, M)
      BY DEF Surjection
    <3>3. IsFiniteSet(M)
      BY <1>1, <3>2, FS_Surjection
    <3> QED BY <1>2, <3>1, <3>3 DEF Callback
  <2>2. SetToSeq(M) \in Seq(Callback(v))
    <3> HIDE DEF M
    <3> QED BY <2>1, SetToSeqFacts, SeqMonotonic
  <2>3. callbacks \o SetToSeq(M) \in Seq(Callback(v))
    BY <1>1, <2>2, ConcatProperties
  <2>4. /\ callbacks' = callbacks \o SetToSeq(M) /\ published' = pub.rev /\ pub' = Idle
        /\ UNCHANGED <<sceneVersion, beats, hubVars, routeVars, q, shut, seen>>
    BY <1>6 DEF DeliverFrame
  <2>5. StoreTypes'
    BY <1>2, <1>3, <2>3, <2>4 DEF StoreTypes
  <2> QED BY <2>4, <2>5 DEF HubTypes, hubVars, routeVars
<1>7. CASE EndHeartbeats
  <2>1. StoreTypes'
    BY <1>3, <1>7 DEF StoreTypes, EndHeartbeats
  <2> QED BY <1>7, <2>1 DEF EndHeartbeats, HubTypes, hubVars, routeVars
<1>8. ASSUME NEW s \in Stream, ReadLag(s)
      PROVE  StoreTypes' /\ HubTypes'
  <2>1. PICK st \in {"lagged", "send"} :
          pub' = [pub EXCEPT !.step = st, !.to = {s}, !.missed = Notice(q[s])]
    BY <1>8 DEF ReadLag
  <2>2. Notice(q[s]) \in Nat
    BY <1>1 DEF Notice, Queue
  <2>3. /\ s \in pub.targets
        /\ UNCHANGED <<sceneVersion, published, beats, callbacks, hubVars, routeVars, q, shut, seen>>
    BY <1>8 DEF ReadLag
  <2>4. pub' \in Publisher(v) /\ pub'.targets = pub.targets /\ pub'.to = {s}
        /\ pub'.step \in {"lagged", "send"}
    BY <1>1, <2>1, <2>2 DEF Publisher, Step
  <2>5. StoreTypes'
    BY <1>1, <2>3, <2>4 DEF StoreTypes
  <2> QED BY <2>3, <2>5 DEF HubTypes, hubVars, routeVars
<1>9. ASSUME NEW s \in Stream, ResetFlag(s)
      PROVE  StoreTypes' /\ HubTypes'
  <2>1. /\ pub' = [pub EXCEPT !.step = "reset"]
        /\ q' = [q EXCEPT ![s] = [q[s] EXCEPT !.lagged = FALSE]]
        /\ UNCHANGED <<sceneVersion, published, beats, callbacks, hubVars, routeVars, shut, seen>>
    BY <1>1, <1>9 DEF ResetFlag
  <2>2. [q[s] EXCEPT !.lagged = FALSE] \in Queue(v)
    BY <1>1 DEF Queue
  <2>3. q' \in [Stream -> Queue(v)]
    BY <1>1, <2>1, <2>2
  <2>4. pub' \in Publisher(v) /\ pub'.targets = pub.targets /\ pub'.to = pub.to
        /\ pub'.step = "reset"
    BY <1>1, <2>1 DEF Publisher, Step
  <2>5. StoreTypes'
    BY <1>1, <2>1, <2>4 DEF StoreTypes
  <2> QED BY <2>1, <2>3, <2>5 DEF HubTypes, hubVars, routeVars
<1>10. ASSUME NEW s \in Stream, SendHeartbeat(s)
       PROVE  StoreTypes' /\ HubTypes'
  <2> DEFINE x == [to |-> s, frame |-> HeartbeatFrame(pub.missed)]
  <2>1. /\ q' = q \/ q' = [q EXCEPT ![s] = [q[s] EXCEPT !.missed = 0]]
        /\ callbacks' = Append(callbacks, x)
        /\ pub' = [Idle EXCEPT !.step = "beat", !.targets = pub.targets \ {s}]
        /\ UNCHANGED <<sceneVersion, published, beats, hubVars, routeVars, shut, seen>>
    BY <1>1, <1>10 DEF SendHeartbeat
  <2>2. [q[s] EXCEPT !.missed = 0] \in Queue(v)
    BY <1>1 DEF Queue
  <2>3. q' \in [Stream -> Queue(v)]
    BY <1>1, <2>1, <2>2
  <2>4. x \in Callback(v)
    BY <1>1, <1>2, FramesMade DEF Callback
  <2>5. callbacks' \in Seq(Callback(v))
    BY <1>1, <2>1, <2>4, AppendProperties
  <2>6. IsFiniteSet(pub.targets \ {s})
    BY <1>1, FS_RemoveElement
  <2>7. pub' \in Publisher(v) /\ pub'.targets = pub.targets \ {s} /\ pub'.to = {}
    BY <1>2, <1>3, <2>1 DEF Publisher, Step, Idle
  <2>8. StoreTypes'
    BY <1>1, <2>1, <2>5, <2>6, <2>7 DEF StoreTypes
  <2> QED BY <2>1, <2>3, <2>8 DEF HubTypes, hubVars, routeVars
<1> QED BY <1>4, <1>5, <1>6, <1>7, <1>8, <1>9, <1>10 DEF SchedulerStep

\* The steps on the event loop that concern one stream.
StreamStep(s) ==
  \/ OpenRoute(s) \/ Subscribe(s) \/ Reread(s) \/ ReadFrame(s) \/ EndStream(s) \/ CloseAgain(s)

\* ReadClose and Disconnect are EndStream with a reason.
LEMMA NextCases ==
  ASSUME Next
  PROVE  SchedulerStep \/ RunCallback \/ CloseHub \/ \E s \in Stream : StreamStep(s)
BY DEF Next, StreamStep, ReadClose, Disconnect

\* hub.unsubscribe, on the queue as it is.
LEMMA UnsubscribeTypes ==
  ASSUME StoreTypes, HubTypes, NEW s \in Stream, Unsubscribe(s, q)
  PROVE  /\ subscribers' \in SUBSET Stream /\ IsFiniteSet(subscribers')
         /\ liveActors' \in [Actor -> Nat] /\ shut' \in [Stream -> BOOLEAN]
         /\ q' \in [Stream -> Queue(sceneVersion)]
<1>1. /\ subscribers \in SUBSET Stream /\ IsFiniteSet(subscribers)
      /\ liveActors \in [Actor -> Nat] /\ shut \in [Stream -> BOOLEAN]
      /\ q \in [Stream -> Queue(sceneVersion)] /\ sceneVersion \in Nat
  BY HubAssumption DEF StoreTypes, HubTypes
<1>2. CASE subscribers = {}
  <2>1. q' = q /\ subscribers' = subscribers /\ liveActors' = liveActors /\ shut' = shut
    BY <1>2 DEF Unsubscribe
  <2> QED BY <1>1, <2>1
<1>3. CASE subscribers # {}
  <2>1. /\ subscribers' = subscribers \ {s} /\ liveActors' = Leave(s)
        /\ shut' = [shut EXCEPT ![s] = TRUE]
        /\ q' = [q EXCEPT ![s] = PutPrivileged(q[s], CloseFrame)]
    BY <1>1, <1>3 DEF Unsubscribe
  <2>2. IsFiniteSet(subscribers \ {s})
    BY <1>1, FS_RemoveElement
  <2>3. Leave(s) \in [Actor -> Nat]
    BY <1>1, HubAssumption DEF Leave
  <2>4. shut' \in [Stream -> BOOLEAN]
    BY <1>1, <2>1
  <2>5. PutPrivileged(q[s], CloseFrame) \in Queue(sceneVersion)
    BY <1>1, FramesMade, PrivilegedFacts
  <2>6. q' \in [Stream -> Queue(sceneVersion)]
    BY <1>1, <2>1, <2>5
  <2> QED BY <1>1, <2>1, <2>2, <2>3, <2>4, <2>6
<1> QED BY <1>2, <1>3

\* The event loop's steps.
LEMMA LoopTypes ==
  ASSUME StoreTypes, HubTypes, RunCallback \/ CloseHub \/ \E s \in Stream : StreamStep(s)
  PROVE  StoreTypes' /\ HubTypes'
<1> DEFINE v == sceneVersion
<1> USE HubAssumption
<1>1. /\ v \in Nat /\ callbacks \in Seq(Callback(v)) /\ subscribers \in SUBSET Stream
      /\ IsFiniteSet(subscribers) /\ q \in [Stream -> Queue(v)]
      /\ shut \in [Stream -> BOOLEAN] /\ at \in [Stream -> At]
      /\ snap \in [Stream -> 0 .. v] /\ seen \in [Stream -> 0 .. v]
      /\ liveActors \in [Actor -> Nat]
  BY DEF StoreTypes, HubTypes
<1>2. CASE RunCallback
  <2> DEFINE s == Head(callbacks).to
             f == Head(callbacks).frame
             Q == IF shut[s] THEN q[s]
                  ELSE IF f.event = "heartbeat" THEN PutHeartbeat(q[s], f)
                  ELSE Put(q[s], f, QueueSize)
  <2>1. callbacks # <<>> /\ callbacks' = Tail(callbacks)
        /\ UNCHANGED <<schedVars, hubVars, routeVars, shut, seen>>
    BY <1>2 DEF RunCallback
  <2>2. Head(callbacks) \in Callback(v) /\ Tail(callbacks) \in Seq(Callback(v))
    BY <1>1, <2>1, HeadTailProperties
  <2>3. s \in Stream /\ f \in Frame(v)
    BY <2>2 DEF Callback
  <2>4. q' = [q EXCEPT ![s] = Q]
    BY <1>1, <1>2, <2>3 DEF RunCallback
  <2> HIDE DEF s, f
  <2>5. q[s] \in Queue(v)
    BY <1>1, <2>3
  <2>6. PutHeartbeat(q[s], f) \in Queue(v) /\ Put(q[s], f, QueueSize) \in Queue(v)
    BY <1>1, <2>3, <2>5, HeartbeatFacts, PutFacts
  <2>7. Q \in Queue(v)
    BY <2>5, <2>6
  <2> HIDE DEF Q
  <2>8. q' \in [Stream -> Queue(v)]
    BY <1>1, <2>3, <2>4, <2>7
  <2>9. StoreTypes'
    BY <2>1, <2>2 DEF StoreTypes, schedVars
  <2> QED BY <2>1, <2>8, <2>9 DEF HubTypes, schedVars, hubVars, routeVars
<1>3. CASE CloseHub
  <2>1. /\ hubClosed' = TRUE /\ subscribers' = {}
        /\ shut' = [s \in Stream |-> shut[s] \/ s \in subscribers]
        /\ q' = [s \in Stream |-> IF s \in subscribers THEN PutPrivileged(q[s], CloseFrame) ELSE q[s]]
        /\ UNCHANGED <<schedVars, callbacks, liveActors, routeVars, seen>>
    BY <1>3 DEF CloseHub
  <2>2. \A s \in Stream : PutPrivileged(q[s], CloseFrame) \in Queue(v) /\ q[s] \in Queue(v)
    BY <1>1, FramesMade, PrivilegedFacts
  <2>3. q' \in [Stream -> Queue(v)]
    BY <2>1, <2>2
  <2>4. shut' \in [Stream -> BOOLEAN]
    BY <2>1, Zenon
  <2>5. StoreTypes'
    BY <2>1 DEF StoreTypes, schedVars
  <2>6. IsFiniteSet(subscribers') /\ subscribers' \in SUBSET Stream
    BY <2>1, FS_EmptySet
  <2> QED BY <2>1, <2>3, <2>4, <2>5, <2>6 DEF HubTypes, schedVars, routeVars
<1>4. ASSUME NEW s \in Stream, OpenRoute(s)
      PROVE  StoreTypes' /\ HubTypes'
  <2>1. /\ at' = [at EXCEPT ![s] = "snapshot"] /\ snap' = [snap EXCEPT ![s] = v]
        /\ UNCHANGED <<schedVars, callbacks, hubVars, q, shut, seen>>
    BY <1>4 DEF OpenRoute
  <2>2. at' \in [Stream -> At] /\ snap' \in [Stream -> 0 .. v]
    BY <1>1, <2>1 DEF At
  <2>3. StoreTypes'
    BY <2>1 DEF StoreTypes, schedVars
  <2> QED BY <2>1, <2>2, <2>3 DEF HubTypes, schedVars, hubVars
<1>5. ASSUME NEW s \in Stream, Subscribe(s)
      PROVE  StoreTypes' /\ HubTypes'
  <2> DEFINE first == Put(q[s], SnapshotFrame(snap[s]), QueueSize)
             last == PutPrivileged(first, CloseFrame)
  <2>1. /\ at' = [at EXCEPT ![s] = "registered"]
        /\ UNCHANGED <<schedVars, callbacks, hubClosed, snap, seen>>
        /\ \/ /\ shut' = [shut EXCEPT ![s] = TRUE] /\ q' = [q EXCEPT ![s] = last]
              /\ UNCHANGED <<subscribers, liveActors>>
           \/ /\ q' = [q EXCEPT ![s] = first] /\ subscribers' = subscribers \cup {s}
              /\ liveActors' = [liveActors EXCEPT ![ActorOf[s]] = liveActors[ActorOf[s]] + 1]
              /\ UNCHANGED shut
    BY <1>1, <1>5 DEF Subscribe
  <2>2. first \in Queue(v)
    BY <1>1, FramesMade, PutFacts
  <2> HIDE DEF first
  <2>3. last \in Queue(v)
    BY <1>1, <2>2, FramesMade, PrivilegedFacts
  <2> HIDE DEF last
  <2>4. at' \in [Stream -> At] /\ q' \in [Stream -> Queue(v)]
    <3>1. q' = [q EXCEPT ![s] = last] \/ q' = [q EXCEPT ![s] = first]
      BY <2>1
    <3>2. at' \in [Stream -> At]
      BY <1>1, <2>1 DEF At
    <3> QED BY <1>1, <2>2, <2>3, <3>1, <3>2
  <2>5. liveActors' \in [Actor -> Nat]
    <3> DEFINE n == liveActors[ActorOf[s]] + 1
    <3>1. n \in Nat
      BY <1>1
    <3>2. liveActors' = liveActors \/ liveActors' = [liveActors EXCEPT ![ActorOf[s]] = n]
      BY <2>1
    <3> HIDE DEF n
    <3> QED BY <1>1, <3>1, <3>2
  <2>6. shut' \in [Stream -> BOOLEAN]
    BY <1>1, <2>1
  <2>7. IsFiniteSet(subscribers \cup {s})
    BY <1>1, FS_AddElement
  <2>8. IsFiniteSet(subscribers') /\ subscribers' \in SUBSET Stream
    BY <1>1, <2>1, <2>7, ZenonT(60)
  <2>9. StoreTypes'
    BY <2>1 DEF StoreTypes, schedVars
  <2> QED BY <2>1, <2>4, <2>5, <2>6, <2>8, <2>9 DEF HubTypes, schedVars
<1>6. ASSUME NEW s \in Stream, Reread(s)
      PROVE  StoreTypes' /\ HubTypes'
  <2> DEFINE g == q[s].frames \o Corrective(s)
  <2>1. /\ at' = [at EXCEPT ![s] = "open"]
        /\ q' = q \/ q' = [q EXCEPT ![s] = [q[s] EXCEPT !.frames = g]]
        /\ UNCHANGED <<schedVars, callbacks, hubVars, snap, shut, seen>>
    BY <1>1, <1>6 DEF Reread
  <2>2. q[s] \in Queue(v) /\ q[s].frames \in Seq(Frame(v))
    BY <1>1 DEF Queue
  <2>3. SnapshotFrame(v) \in Frame(v)
    BY <1>1, FramesMade
  <2>4. Corrective(s) \in Seq(Frame(v))
    BY <2>3, EmptySeq DEF Corrective
  <2>5. g \in Seq(Frame(v))
    BY <2>2, <2>4, ConcatProperties
  <2> HIDE DEF g
  <2>6. [q[s] EXCEPT !.frames = g] \in Queue(v)
    BY <2>2, <2>5 DEF Queue
  <2>7. at' \in [Stream -> At] /\ q' \in [Stream -> Queue(v)]
    BY <1>1, <2>1, <2>6 DEF At
  <2>8. StoreTypes'
    BY <2>1 DEF StoreTypes, schedVars
  <2> QED BY <2>1, <2>7, <2>8 DEF HubTypes, schedVars, hubVars
<1>7. ASSUME NEW s \in Stream, ReadFrame(s)
      PROVE  StoreTypes' /\ HubTypes'
  <2> DEFINE f == Head(q[s].frames)
             t == Tail(q[s].frames)
             m == Max({seen[s], f.rev})
  <2>1. /\ q[s].frames # <<>> /\ q' = [q EXCEPT ![s] = [q[s] EXCEPT !.frames = t]]
        /\ seen' = [seen EXCEPT ![s] = m]
        /\ UNCHANGED <<schedVars, callbacks, hubVars, routeVars, shut>>
    BY <1>1, <1>7 DEF ReadFrame
  <2>2. q[s] \in Queue(v) /\ q[s].frames \in Seq(Frame(v)) /\ seen[s] \in 0 .. v
    BY <1>1 DEF Queue
  <2>3. f \in Frame(v) /\ t \in Seq(Frame(v))
    BY <2>1, <2>2, HeadTailProperties
  <2>4. f.rev \in 0 .. v
    BY <2>3 DEF Frame, AnyFrame
  <2>5. m \in 0 .. v
    <3>1. m \in {seen[s], f.rev}
      <4>1. \E x \in {seen[s], f.rev} : \A y \in {seen[s], f.rev} : x >= y
        BY <1>1, <2>2, <2>4, SMTT(30)
      <4> QED BY <4>1 DEF Max
    <3> QED BY <2>2, <2>4, <3>1
  <2> HIDE DEF f, t, m
  <2>6. [q[s] EXCEPT !.frames = t] \in Queue(v)
    BY <2>2, <2>3 DEF Queue
  <2>7. seen' \in [Stream -> 0 .. v] /\ q' \in [Stream -> Queue(v)]
    BY <1>1, <2>1, <2>5, <2>6
  <2>8. StoreTypes'
    BY <2>1 DEF StoreTypes, schedVars
  <2> QED BY <2>1, <2>7, <2>8 DEF HubTypes, schedVars, hubVars, routeVars
<1>8. ASSUME NEW s \in Stream, EndStream(s) \/ CloseAgain(s)
      PROVE  StoreTypes' /\ HubTypes'
  <2>1. PICK a \in {"ending", "ended"} : at' = [at EXCEPT ![s] = a]
    BY <1>8 DEF EndStream, CloseAgain
  <2>2. Unsubscribe(s, q) /\ UNCHANGED <<schedVars, callbacks, hubClosed, snap, seen>>
    BY <1>8 DEF EndStream, CloseAgain
  <2>3. at' \in [Stream -> At]
    BY <1>1, <2>1 DEF At
  <2>4. StoreTypes'
    BY <2>2 DEF StoreTypes, schedVars
  <2>5. /\ subscribers' \in SUBSET Stream /\ IsFiniteSet(subscribers')
        /\ liveActors' \in [Actor -> Nat] /\ shut' \in [Stream -> BOOLEAN]
        /\ q' \in [Stream -> Queue(v)]
    BY <2>2, UnsubscribeTypes
  <2> QED BY <2>2, <2>3, <2>4, <2>5 DEF HubTypes, schedVars
<1> QED BY <1>2, <1>3, <1>4, <1>5, <1>6, <1>7, <1>8 DEF StreamStep

-----------------------------------------------------------------------------
(* Where the streams are.                                                  *)

\* The scheduler thread touches no stream but the ones it targets, and of these
\* only the lag bookkeeping.
LEMMA SchedulerEffects ==
  ASSUME StoreTypes, HubTypes, SchedulerStep
  PROVE  /\ UNCHANGED <<hubVars, routeVars, shut, seen>>
         /\ pub'.targets \subseteq pub.targets \cup subscribers
         /\ \A s \in Stream :
              q'[s].frames = q[s].frames /\ (s \notin pub.targets =>
                q'[s] = q[s] /\ Pending(callbacks', s) = Pending(callbacks, s))
<1> DEFINE Goal == /\ UNCHANGED <<hubVars, routeVars, shut, seen>>
                   /\ pub'.targets \subseteq pub.targets \cup subscribers
                   /\ \A s \in Stream :
                          q'[s].frames = q[s].frames /\ (s \notin pub.targets =>
                            q'[s] = q[s] /\ Pending(callbacks', s) = Pending(callbacks, s))
           v == sceneVersion
<1>1. /\ v \in Nat /\ pub \in Publisher(v) /\ pub.to \subseteq pub.targets
      /\ callbacks \in Seq(Callback(v)) /\ q \in [Stream -> Queue(v)]
      /\ IsFiniteSet(pub.targets)
  BY HubAssumption DEF StoreTypes, HubTypes
<1>2. CASE Commit \/ SnapshotSubscribers \/ BeginHeartbeats \/ EndHeartbeats
  <2>1. UNCHANGED <<hubVars, routeVars, shut, seen, q, callbacks>>
    BY <1>2 DEF Commit, SnapshotSubscribers, BeginHeartbeats, EndHeartbeats
  <2>2. \/ pub' = Idle \/ pub' = [pub EXCEPT !.step = "committed", !.rev = sceneVersion + 1]
        \/ \E st \in {"deliver", "beat"} : pub' = [pub EXCEPT !.step = st, !.targets = subscribers]
    BY <1>2 DEF Commit, SnapshotSubscribers, BeginHeartbeats, EndHeartbeats
  <2>3. pub'.targets \in {{}, pub.targets, subscribers}
    <3>1. CASE pub' = Idle
      BY <3>1 DEF Idle
    <3>2. CASE pub' = [pub EXCEPT !.step = "committed", !.rev = sceneVersion + 1]
      BY <1>1, <3>2 DEF Publisher
    <3>3. ASSUME NEW st, pub' = [pub EXCEPT !.step = st, !.targets = subscribers]
          PROVE  pub'.targets \in {{}, pub.targets, subscribers}
      BY <1>1, <3>3 DEF Publisher
    <3> QED BY <2>2, <3>1, <3>2, <3>3
  <2>4. pub'.targets \subseteq pub.targets \cup subscribers
    BY <2>3
  <2> QED BY <2>1, <2>4
<1>3. CASE DeliverFrame
  <2> DEFINE M == {[to |-> s, frame |-> CanonicalFrame(pub.rev, {})] : s \in pub.targets}
  <2>1. callbacks' = callbacks \o SetToSeq(M) /\ pub' = Idle
        /\ UNCHANGED <<hubVars, routeVars, q, shut, seen>>
    BY <1>3 DEF DeliverFrame
  <2>2. pub'.targets = {}
    BY <2>1 DEF Idle
  <2>3. ASSUME NEW s \in Stream, s \notin pub.targets
        PROVE  Pending(callbacks', s) = Pending(callbacks, s)
    <3> DEFINE x == SetToSeq(M)
    <3>1. callbacks' \in Seq(Callback(v)) /\ x \in Seq(Callback(v)) /\ x \in Seq(M)
      <4>1. M \in SUBSET Callback(v) /\ IsFiniteSet(M)
        <5>1. CanonicalFrame(pub.rev, {}) \in Frame(v)
          BY <1>1, FramesMade DEF Publisher
        <5> DEFINE f == [u \in pub.targets |-> [to |-> u, frame |-> CanonicalFrame(pub.rev, {})]]
        <5>2. f \in Surjection(pub.targets, M)
          BY DEF Surjection
        <5>3. IsFiniteSet(M)
          BY <1>1, <5>2, FS_Surjection
        <5> QED BY <1>1, <5>1, <5>3 DEF Callback, Publisher
      <4> HIDE DEF M
      <4>2. x \in Seq(M)
        BY <4>1, SetToSeqFacts
      <4>3. x \in Seq(Callback(v))
        BY <4>1, <4>2, SeqMonotonic
      <4> QED BY <1>1, <2>1, <4>2, <4>3, ConcatProperties
    <3>2. \A j \in DOMAIN x : x[j] \in M
      BY <3>1, PendingFacts
    <3>0. \A m \in M : m.to \in pub.targets /\ m.frame.event # "heartbeat"
      BY DEF CanonicalFrame
    <3>3. \A j \in DOMAIN x : x[j].to \in pub.targets /\ x[j].frame.event # "heartbeat"
      <4> HIDE DEF M, x
      <4> QED BY <3>0, <3>2
    <3> HIDE DEF x, M
    <3>4. callbacks' = callbacks \o x
      BY <2>1 DEF x
    <3>5. /\ Pending(callbacks, s) \subseteq Pending(callbacks', s)
          /\ Pulses(callbacks', s) = Pulses(callbacks, s)
          /\ \A i \in Events(callbacks', s) :
               i \in Events(callbacks, s) \/ \E j \in DOMAIN x : i = Len(callbacks) + j /\ x[j].to = s
      <4>1. \A j \in DOMAIN x : x[j].frame.event # "heartbeat"
        BY <3>3
      <4>2. FannedOut(callbacks, x, callbacks', s)
        BY <1>1, <3>1, <3>4, <4>1, ConcatCallbacks
      <4> QED BY <4>2 DEF FannedOut, Keeps
    <3>6. \A i \in Pending(callbacks', s) : i \in Events(callbacks', s) \/ i \in Pulses(callbacks', s)
      BY DEF Events, Pulses
    <3>7. \A i \in Pending(callbacks', s) : i \in Pending(callbacks, s)
      BY <2>3, <3>3, <3>5, <3>6 DEF Events, Pulses
    <3> QED BY <3>5, <3>7
  <2> QED BY <2>1, <2>2, <2>3
<1>4. ASSUME NEW s \in Stream, ReadLag(s) \/ ResetFlag(s)
      PROVE  Goal
  <2>1. /\ UNCHANGED <<hubVars, routeVars, shut, seen, callbacks>> /\ s \in pub.targets
        /\ q' = q \/ q' = [q EXCEPT ![s] = [q[s] EXCEPT !.lagged = FALSE]]
    BY <1>1, <1>4 DEF ReadLag, ResetFlag
  <2>2. pub'.targets = pub.targets
    BY <1>1, <1>4 DEF ReadLag, ResetFlag, Publisher
  <2>3. [q[s] EXCEPT !.lagged = FALSE].frames = q[s].frames
    BY <1>1 DEF Queue
  <2>4. \A u \in Stream : q'[u].frames = q[u].frames /\ (u # s => q'[u] = q[u])
    BY <1>1, <2>1, <2>3
  <2> QED BY <2>1, <2>2, <2>4
<1>5. ASSUME NEW s \in Stream, SendHeartbeat(s)
      PROVE  Goal
  <2> DEFINE x == [to |-> s, frame |-> HeartbeatFrame(pub.missed)]
  <2>1. /\ UNCHANGED <<hubVars, routeVars, shut, seen>> /\ s \in pub.targets
        /\ q' = q \/ q' = [q EXCEPT ![s] = [q[s] EXCEPT !.missed = 0]]
        /\ callbacks' = Append(callbacks, x)
        /\ pub' = [Idle EXCEPT !.step = "beat", !.targets = pub.targets \ {s}]
    BY <1>1, <1>5 DEF SendHeartbeat
  <2>2. pub'.targets = pub.targets \ {s}
    BY <2>1 DEF Idle
  <2>3. [q[s] EXCEPT !.missed = 0].frames = q[s].frames
    BY <1>1 DEF Queue
  <2>4. \A u \in Stream : q'[u].frames = q[u].frames /\ (u # s => q'[u] = q[u])
    BY <1>1, <2>1, <2>3
  <2>5. x \in Callback(v) /\ x.to = s
    BY <1>1, FramesMade DEF Callback, Publisher
  <2> HIDE DEF x
  <2>6. \A u \in Stream : u # s => Pending(callbacks', u) = Pending(callbacks, u)
    <3>1. \A u \in Stream : Scheduled(callbacks, x, callbacks', u)
      BY <1>1, <2>1, <2>5, AppendCallback
    <3> QED BY <2>5, <3>1 DEF Scheduled
  <2> QED BY <2>1, <2>2, <2>4, <2>6
<1> QED BY <1>2, <1>3, <1>4, <1>5 DEF SchedulerStep

\* At the start every stream is unknown.
LEMMA InitRoutes == Init => Routes
<1> SUFFICES ASSUME Init, NEW s \in Stream
             PROVE  Unknown(s) /\ at[s] = "new"
  BY DEF Routes, Unknown
<1>1. Pending(callbacks, s) = {}
  BY DEF Init, Pending
<1>2. pub.targets = {}
  BY DEF Init, Idle
<1> QED BY <1>1, <1>2 DEF Init, Unknown

\* The registration of a stream and its place in the route go together.
LEMMA RoutesStep ==
  ASSUME StoreTypes, HubTypes, Routes, Next
  PROVE  Routes'
<1> DEFINE v == sceneVersion
           R(s) == /\ at[s] \in {"new", "snapshot"} => Unknown(s)
                   /\ s \in subscribers => ~shut[s] /\ at[s] \in {"registered", "open"}
                   /\ ~hubClosed /\ at[s] \in {"registered", "open"} => s \in subscribers
                   /\ s \in subscribers /\ at[s] = "registered" =>
                        q[s].frames = <<SnapshotFrame(snap[s])>>
<1>1. /\ v \in Nat /\ callbacks \in Seq(Callback(v)) /\ subscribers \in SUBSET Stream
      /\ q \in [Stream -> Queue(v)]
      /\ shut \in [Stream -> BOOLEAN] /\ at \in [Stream -> At]
      /\ snap \in [Stream -> 0 .. v]
  BY HubAssumption DEF StoreTypes, HubTypes
<1> SUFFICES ASSUME NEW s \in Stream PROVE R(s)'
  BY DEF Routes
<1>2. R(s)
  BY DEF Routes
<1>3. CASE SchedulerStep
  <2>1. /\ UNCHANGED <<hubVars, routeVars, shut, seen>>
        /\ pub'.targets \subseteq pub.targets \cup subscribers
        /\ q'[s].frames = q[s].frames
        /\ s \notin pub.targets => q'[s] = q[s] /\ Pending(callbacks', s) = Pending(callbacks, s)
    <3>1. /\ UNCHANGED <<hubVars, routeVars, shut, seen>>
          /\ pub'.targets \subseteq pub.targets \cup subscribers
          /\ \A u \in Stream :
                  q'[u].frames = q[u].frames /\ (u \notin pub.targets =>
                    q'[u] = q[u] /\ Pending(callbacks', u) = Pending(callbacks, u))
      BY <1>3, SchedulerEffects
    <3> QED BY <3>1
  <2>2. Unknown(s) => Unknown(s)'
    BY <2>1 DEF Unknown, hubVars
  <2> QED BY <1>2, <2>1, <2>2 DEF hubVars, routeVars
<1>4. CASE RunCallback
  <2> DEFINE x == Head(callbacks)
  <2>1. /\ callbacks # <<>> /\ callbacks' = Tail(callbacks) /\ LoopFree
        /\ UNCHANGED <<schedVars, hubVars, routeVars, shut, seen>>
    BY <1>4 DEF RunCallback
  <2>2. /\ 1 \in DOMAIN callbacks /\ x = callbacks[1] /\ x \in Callback(v)
        /\ Popped(callbacks, callbacks')
    BY <1>1, <2>1, TailCallbacks
  <2>3. x.to # s => q'[s] = q[s]
    BY <1>1, <1>4 DEF RunCallback
  <2>4. Pending(callbacks, s) = {} => x.to # s /\ Pending(callbacks', s) = {}
    BY <2>1, <2>2 DEF Pending, Popped
  <2>5. Unknown(s) => Unknown(s)'
    BY <2>1, <2>3, <2>4 DEF Unknown, hubVars, schedVars
  <2>6. at[s] # "registered"
    BY <2>1 DEF LoopFree
  <2> QED BY <1>2, <2>1, <2>5, <2>6 DEF hubVars, routeVars
<1>5. CASE CloseHub
  <2>1. /\ hubClosed' = TRUE /\ subscribers' = {}
        /\ shut'[s] = (shut[s] \/ s \in subscribers)
        /\ s \notin subscribers => q'[s] = q[s]
        /\ UNCHANGED <<schedVars, callbacks, routeVars>>
    BY <1>5 DEF CloseHub
  <2>2. Unknown(s) => Unknown(s)'
    BY <2>1 DEF Unknown, schedVars
  <2> QED BY <1>2, <2>1, <2>2 DEF routeVars
<1>6. ASSUME NEW u \in Stream, OpenRoute(u)
      PROVE  R(s)'
  <2>1. /\ at[u] = "new" /\ at' = [at EXCEPT ![u] = "snapshot"]
        /\ snap' = [snap EXCEPT ![u] = v]
        /\ UNCHANGED <<schedVars, callbacks, hubVars, q, shut>>
    BY <1>6 DEF OpenRoute
  <2>2. Unknown(s) => Unknown(s)'
    BY <2>1 DEF Unknown, schedVars, hubVars
  <2>3. CASE s = u
    BY <1>1, <1>2, <2>1, <2>2, <2>3 DEF Unknown, hubVars
  <2>4. CASE s # u
    <3>1. at'[s] = at[s] /\ snap'[s] = snap[s]
      BY <1>1, <2>1, <2>4
    <3> QED BY <1>2, <2>1, <2>2, <3>1 DEF hubVars
  <2> QED BY <2>3, <2>4
<1>7. ASSUME NEW u \in Stream, Subscribe(u)
      PROVE  R(s)'
  <2> DEFINE f == SnapshotFrame(snap[u])
             first == Put(q[u], f, QueueSize)
             last == PutPrivileged(first, CloseFrame)
  <2>1. /\ at[u] = "snapshot" /\ at' = [at EXCEPT ![u] = "registered"]
        /\ UNCHANGED <<schedVars, callbacks, hubClosed, snap, seen>>
        /\ \/ /\ hubClosed /\ shut' = [shut EXCEPT ![u] = TRUE] /\ q' = [q EXCEPT ![u] = last]
              /\ UNCHANGED <<subscribers, liveActors>>
           \/ /\ ~hubClosed /\ q' = [q EXCEPT ![u] = first]
              /\ subscribers' = subscribers \cup {u} /\ UNCHANGED shut
    BY <1>7 DEF Subscribe
  <2>2. at[u] \in {"new", "snapshot"} => Unknown(u)
    BY DEF Routes
  <2>3. first.frames = <<f>>
    <3>1. q[u] = NewQueue
      BY <2>1, <2>2 DEF Unknown
    <3>2. Len(NewQueue.frames) < QueueSize /\ NewQueue.frames = <<>>
      BY HubAssumption DEF NewQueue
    <3>3. first = [NewQueue EXCEPT !.frames = Append(<<>>, f)]
      BY <3>1, <3>2 DEF Put, PutPrivileged
    <3> QED BY <3>3 DEF NewQueue
  <2> HIDE DEF first, last, f
  <2>4. CASE s = u
    <3>1. at'[s] = "registered" /\ ~shut[s] /\ s \notin subscribers /\ snap'[s] = snap[s]
      BY <1>1, <2>1, <2>2, <2>4 DEF Unknown
    <3>2. CASE hubClosed
      BY <2>1, <2>4, <3>1, <3>2
    <3>3. CASE ~hubClosed
      <4>1. q'[s] = first /\ s \in subscribers' /\ shut' = shut
        BY <1>1, <2>1, <2>4, <3>3
      <4> QED BY <2>3, <2>4, <3>1, <4>1 DEF f
    <3> QED BY <3>2, <3>3
  <2>5. CASE s # u
    <3>1. at'[s] = at[s] /\ q'[s] = q[s] /\ shut'[s] = shut[s] /\ snap'[s] = snap[s]
          /\ (s \in subscribers' <=> s \in subscribers) /\ hubClosed' = hubClosed
      BY <1>1, <2>1, <2>5
    <3>2. Unknown(s) => Unknown(s)'
      BY <2>1, <3>1 DEF Unknown, schedVars
    <3> QED BY <1>2, <3>1, <3>2
  <2> QED BY <2>4, <2>5
<1>8. ASSUME NEW u \in Stream, Reread(u) \/ ReadFrame(u)
      PROVE  R(s)'
  <2>1. /\ UNCHANGED <<schedVars, callbacks, hubVars, snap, shut>>
        /\ at[u] \in {"registered", "open"} /\ at'[u] = "open"
        /\ s # u => at'[s] = at[s] /\ q'[s] = q[s]
    BY <1>1, <1>8 DEF Reread, ReadFrame, routeVars
  <2>2. CASE s = u
    BY <1>2, <2>1, <2>2 DEF hubVars
  <2>3. CASE s # u
    <3>1. Unknown(s) => Unknown(s)'
      BY <2>1, <2>3 DEF Unknown, schedVars, hubVars
    <3> QED BY <1>2, <2>1, <2>3, <3>1 DEF hubVars
  <2> QED BY <2>2, <2>3
<1>9. ASSUME NEW u \in Stream, EndStream(u) \/ CloseAgain(u)
      PROVE  R(s)'
  <2>1. /\ UNCHANGED <<schedVars, callbacks, hubClosed, snap, seen>>
        /\ at'[u] \in {"ending", "ended"} /\ (s # u => at'[s] = at[s])
    BY <1>1, <1>9 DEF EndStream, CloseAgain
  <2>2. Unsubscribe(u, q)
    BY <1>9 DEF EndStream, CloseAgain
  <2>3. /\ u \notin subscribers' /\ (s # u => (s \in subscribers' <=> s \in subscribers))
        /\ s # u => q'[s] = q[s] /\ shut'[s] = shut[s]
    BY <1>1, <2>2 DEF Unsubscribe
  <2>4. CASE s = u
    BY <2>1, <2>3, <2>4
  <2>5. CASE s # u
    <3>1. Unknown(s) => Unknown(s)'
      BY <2>1, <2>3, <2>5 DEF Unknown, schedVars
    <3> QED BY <1>2, <2>1, <2>3, <2>5, <3>1
  <2> QED BY <2>4, <2>5
<1> QED BY <1>3, <1>4, <1>5, <1>6, <1>7, <1>8, <1>9, NextCases DEF StreamStep

-----------------------------------------------------------------------------
(* Presence.                                                               *)

\* Nobody is there at the start.
LEMMA InitRoster == Init => Roster
<1> SUFFICES ASSUME Init, NEW a \in Actor
             PROVE  liveActors[a] <= Cardinality(LiveTabs(a))
  BY DEF Roster
<1>1. LiveTabs(a) = {} /\ liveActors[a] = 0
  BY DEF Init, LiveTabs
<1> QED BY <1>1, FS_EmptySet

\* A subscription adds one reference, and an actor loses at least one with each
\* of its streams.
LEMMA RosterStep ==
  ASSUME StoreTypes, HubTypes, Routes, Roster, Next
  PROVE  Roster'
<1>1. /\ subscribers \in SUBSET Stream /\ IsFiniteSet(subscribers)
      /\ liveActors \in [Actor -> Nat] /\ at \in [Stream -> At] /\ ActorOf \in [Stream -> Actor]
  BY HubAssumption DEF HubTypes
<1>2. \A a \in Actor : IsFiniteSet(LiveTabs(a)) /\ Cardinality(LiveTabs(a)) \in Nat
  <2> SUFFICES ASSUME NEW a \in Actor
               PROVE  IsFiniteSet(LiveTabs(a)) /\ Cardinality(LiveTabs(a)) \in Nat
    OBVIOUS
  <2>1. LiveTabs(a) \in SUBSET subscribers
    BY DEF LiveTabs
  <2>2. IsFiniteSet(LiveTabs(a))
    BY <1>1, <2>1, FS_Subset
  <2> QED BY <2>2, FS_CardinalityType
<1>3. CASE UNCHANGED hubVars
  BY <1>3 DEF hubVars, Roster, LiveTabs
<1>4. CASE CloseHub
  BY <1>4 DEF CloseHub, Roster
<1>5. ASSUME NEW s \in Stream, Subscribe(s)
      PROVE  Roster'
  <2>1. CASE hubClosed
    BY <1>5, <2>1 DEF Subscribe, Roster, LiveTabs
  <2>2. CASE ~hubClosed
    <3>1. /\ subscribers' = subscribers \cup {s} /\ hubClosed' = hubClosed
          /\ liveActors' = [liveActors EXCEPT ![ActorOf[s]] = liveActors[ActorOf[s]] + 1]
      BY <1>5, <2>2 DEF Subscribe
    <3>2. s \notin subscribers
      BY <1>5 DEF Subscribe, Routes, Unknown
    <3> SUFFICES ASSUME NEW a \in Actor
                 PROVE  liveActors'[a] <= Cardinality(LiveTabs(a)')
      BY DEF Roster
    <3>3. liveActors[a] <= Cardinality(LiveTabs(a)) /\ liveActors[a] \in Nat
      BY <1>1, <2>2 DEF Roster
    <3>4. CASE a = ActorOf[s]
      <4>1. LiveTabs(a)' = LiveTabs(a) \cup {s} /\ s \notin LiveTabs(a)
        BY <3>1, <3>2, <3>4 DEF LiveTabs
      <4>2. Cardinality(LiveTabs(a) \cup {s}) = Cardinality(LiveTabs(a)) + 1
        BY <1>2, <4>1, FS_AddElement
      <4>3. liveActors'[a] = liveActors[a] + 1
        BY <1>1, <3>1, <3>4
      <4> QED BY <1>2, <3>3, <4>1, <4>2, <4>3
    <3>5. CASE a # ActorOf[s]
      <4>1. LiveTabs(a)' = LiveTabs(a)
        BY <3>1, <3>5 DEF LiveTabs
      <4>2. liveActors'[a] = liveActors[a]
        BY <1>1, <3>1, <3>5
      <4> QED BY <3>3, <4>1, <4>2
    <3> QED BY <3>4, <3>5
  <2> QED BY <2>1, <2>2
<1>6. ASSUME NEW s \in Stream, EndStream(s) \/ CloseAgain(s)
      PROVE  Roster'
  <2>1. Unsubscribe(s, q) /\ hubClosed' = hubClosed
    BY <1>6 DEF EndStream, CloseAgain
  <2>2. CASE hubClosed
    BY <2>1, <2>2 DEF Roster
  <2>3. CASE ~hubClosed /\ subscribers = {}
    BY <2>1, <2>3 DEF Unsubscribe, Roster, LiveTabs
  <2>4. CASE ~hubClosed /\ subscribers # {}
    <3>1. subscribers' = subscribers \ {s} /\ liveActors' = Leave(s)
      BY <2>1, <2>4 DEF Unsubscribe
    <3> SUFFICES ASSUME NEW a \in Actor
                 PROVE  liveActors'[a] <= Cardinality(LiveTabs(a)')
      BY DEF Roster
    <3>2. liveActors[a] <= Cardinality(LiveTabs(a)) /\ liveActors[a] \in Nat
      BY <1>1, <2>4 DEF Roster
    <3>3. CASE a = ActorOf[s]
      <4>1. LiveTabs(a)' = LiveTabs(a) \ {s}
        BY <3>1 DEF LiveTabs
      <4>2. Cardinality(LiveTabs(a) \ {s}) >= Cardinality(LiveTabs(a)) - 1
            /\ Cardinality(LiveTabs(a) \ {s}) \in Nat
        <5>1. /\ IsFiniteSet(LiveTabs(a) \ {s})
              /\ Cardinality(LiveTabs(a) \ {s}) = IF s \in LiveTabs(a) THEN Cardinality(LiveTabs(a)) - 1
                                                   ELSE Cardinality(LiveTabs(a))
          BY <1>2, FS_RemoveElement
        <5>2. Cardinality(LiveTabs(a) \ {s}) \in Nat
          BY <5>1, FS_CardinalityType
        <5> QED BY <1>2, <5>1, <5>2
      <4>3. liveActors'[a] = IF liveActors[a] = 0 THEN 0 ELSE liveActors[a] - 1
        BY <1>1, <3>1, <3>3 DEF Leave
      <4> QED BY <1>2, <3>2, <4>1, <4>2, <4>3
    <3>4. CASE a # ActorOf[s]
      <4>1. LiveTabs(a)' = LiveTabs(a)
        BY <3>1, <3>4 DEF LiveTabs
      <4>2. liveActors'[a] = liveActors[a]
        BY <1>1, <3>1, <3>4 DEF Leave
      <4> QED BY <3>2, <4>1, <4>2
    <3> QED BY <3>3, <3>4
  <2> QED BY <2>2, <2>3, <2>4
<1>7. SchedulerStep => UNCHANGED hubVars
  BY SchedulerEffects
<1>8. RunCallback => UNCHANGED hubVars
  BY DEF RunCallback
<1>9. \A s \in Stream : OpenRoute(s) \/ Reread(s) \/ ReadFrame(s) => UNCHANGED hubVars
  BY DEF OpenRoute, Reread, ReadFrame
<1> QED BY <1>3, <1>4, <1>5, <1>6, <1>7, <1>8, <1>9, NextCases DEF StreamStep

-----------------------------------------------------------------------------
(* No subscriber is left behind.                                           *)

\* What waits for s in cb, but for the first callback, waits in t.
Shifts(cb, t, s) ==
  /\ \A i \in Pending(cb, s) : i # 1 => i - 1 \in Pending(t, s) /\ t[i - 1] = cb[i]
  /\ Events(cb, s) = {} => Events(t, s) = {}

\* The oldest callback leaves; the others keep their order.
LEMMA TailEvents ==
  ASSUME NEW C, NEW cb \in Seq(C), cb # <<>>, NEW s, NEW p
  PROVE  /\ Shifts(cb, Tail(cb), s)
         /\ EndsIn(cb, s, p) => EndsIn(Tail(cb), s, p)
<1> DEFINE u == Tail(cb)
<1>1. Popped(cb, u) /\ u \in Seq(C)
  BY TailCallbacks
<1>2. \A i \in DOMAIN u : i >= 1
  <2> HIDE DEF u
  <2>1. DOMAIN u = 1 .. Len(u) /\ Len(u) \in Nat
    BY <1>1, PendingFacts
  <2> QED BY <2>1
<1> HIDE DEF u
<1>3. \A i \in Pending(cb, s) : i # 1 => i - 1 \in Pending(u, s) /\ u[i - 1] = cb[i]
  BY <1>1 DEF Popped, Pending
<1>4. \A i \in Events(cb, s) : i # 1 => i - 1 \in Events(u, s) /\ u[i - 1] = cb[i] /\ i \in Nat
  BY <1>1, <1>3 DEF Popped, Events, Pending
<1>5. \A i \in Events(u, s) : i + 1 \in Events(cb, s) /\ i \in Nat /\ i >= 1
  BY <1>1, <1>2 DEF Popped, Events, Pending
<1>6. ASSUME EndsIn(cb, s, p), NEW i \in Events(u, s)
      PROVE  \E j \in Events(u, s) : i <= j /\ u[j].frame.rev = p
  <2>1. PICK j \in Events(cb, s) : i + 1 <= j /\ cb[j].frame.rev = p
    BY <1>5, <1>6 DEF EndsIn
  <2>2. j \in DOMAIN cb
    BY DEF Events, Pending
  <2>3. j # 1
    BY <1>5, <2>1
  <2>4. j - 1 \in Events(u, s) /\ u[j - 1] = cb[j] /\ j \in Nat
    BY <1>4, <2>3
  <2>5. i <= j - 1
    BY <1>5, <2>1, <2>4
  <2> QED BY <2>1, <2>4, <2>5
<1>7. Shifts(cb, u, s)
  BY <1>3, <1>5 DEF Shifts
<1>8. EndsIn(cb, s, p) => EndsIn(u, s, p)
  BY <1>6 DEF EndsIn
<1> QED BY <1>7, <1>8 DEF u

\* Frames that are only added to, and callbacks that are only added to, reach as
\* far as before.
LEMMA ReachGrows ==
  ASSUME NEW x, NEW sn, NEW fr, NEW cb, NEW s, Reach(x, sn, fr, cb, s),
         NEW cc, Pending(cb, s) \subseteq Pending(cc, s), \A i \in Pending(cb, s) : cc[i] = cb[i]
  PROVE  Reach(x, sn, fr, cc, s)
BY DEF Reach

\* The scheduler thread.
LEMMA SchedulerCovers ==
  ASSUME StoreTypes, HubTypes, SchedulerStep, NEW s \in subscribers, Covered(s)
  PROVE  Covered(s)'
<1> DEFINE v == sceneVersion
<1>1. /\ v \in Nat /\ pub \in Publisher(v) /\ pub.to \subseteq pub.targets
      /\ callbacks \in Seq(Callback(v)) /\ s \in Stream /\ IsFiniteSet(pub.targets)
      /\ pub.to # {} => pub.step \in {"lagged", "reset", "send"}
  BY HubAssumption DEF StoreTypes, HubTypes
<1>2. UNCHANGED <<at, seen>> /\ q'[s].frames = q[s].frames
  <2>1. UNCHANGED <<routeVars, seen>> /\ \A u \in Stream : q'[u].frames = q[u].frames
    BY SchedulerEffects
  <2> QED BY <1>1, <2>1 DEF routeVars
<1>3. CASE Commit \/ SnapshotSubscribers \/ BeginHeartbeats \/ EndHeartbeats
             \/ \E u \in Stream : ReadLag(u) \/ ResetFlag(u)
  <2>1. UNCHANGED <<published, callbacks>>
    BY <1>3 DEF Commit, SnapshotSubscribers, BeginHeartbeats, EndHeartbeats, ReadLag, ResetFlag
  <2>2. ~Missed(s)'
    <3>1. CASE Commit
      BY <1>1, <3>1 DEF Commit, Missed, Publisher
    <3>2. CASE SnapshotSubscribers
      BY <1>1, <3>2 DEF SnapshotSubscribers, Missed, Publisher
    <3>3. CASE BeginHeartbeats
      BY <1>1, <3>3 DEF BeginHeartbeats, Missed, Publisher
    <3>4. CASE EndHeartbeats
      BY <3>4 DEF EndHeartbeats, Missed, Idle
    <3>5. ASSUME NEW u \in Stream, ReadLag(u)
          PROVE  ~Missed(s)'
      BY <1>1, <3>5 DEF ReadLag, Missed, Publisher
    <3>6. ASSUME NEW u \in Stream, ResetFlag(u)
          PROVE  ~Missed(s)'
      BY <1>1, <3>6 DEF ResetFlag, Missed, Publisher
    <3> QED BY <1>3, <3>1, <3>2, <3>3, <3>4, <3>5, <3>6
  <2> QED BY <1>2, <2>1, <2>2 DEF Covered
<1>4. CASE DeliverFrame
  <2> DEFINE f == CanonicalFrame(pub.rev, {})
             M == {[to |-> u, frame |-> f] : u \in pub.targets}
             x == SetToSeq(M)
  <2>1. /\ callbacks' = callbacks \o x /\ published' = pub.rev /\ pub' = Idle
        /\ pub.step = "deliver"
    BY <1>4 DEF DeliverFrame
  <2>2. M \in SUBSET Callback(v) /\ IsFiniteSet(M)
    <3>1. f \in Frame(v)
      BY <1>1, FramesMade DEF Publisher
    <3> DEFINE g == [u \in pub.targets |-> [to |-> u, frame |-> f]]
    <3> HIDE DEF f
    <3>2. g \in Surjection(pub.targets, M)
      BY DEF Surjection
    <3>3. IsFiniteSet(M)
      BY <1>1, <3>2, FS_Surjection
    <3> QED BY <1>1, <3>1, <3>3 DEF Callback, Publisher
  <2>3. \A m \in M : m.frame = f /\ m.frame.event # "heartbeat" /\ m.to \in pub.targets
                     /\ m.frame.rev = pub.rev
    BY DEF CanonicalFrame
  <2>4. s \in pub.targets => \E m \in M : m.to = s
    <3>1. s \in pub.targets => [to |-> s, frame |-> f] \in M
      OBVIOUS
    <3>2. [to |-> s, frame |-> f].to = s
      OBVIOUS
    <3> HIDE DEF M
    <3> QED BY <3>1, <3>2
  <2> HIDE DEF M, f
  <2>5. x \in Seq(M) /\ \A m \in M : \E j \in DOMAIN x : x[j] = m
    BY <2>2, SetToSeqFacts
  <2>6. x \in Seq(Callback(v)) /\ \A j \in DOMAIN x : x[j] \in M
    BY <2>2, <2>5, SeqMonotonic, PendingFacts
  <2> HIDE DEF x
  <2>7. \A j \in DOMAIN x : x[j].frame.event # "heartbeat" /\ x[j].to \in pub.targets
                           /\ x[j].frame.rev = pub.rev
    BY <2>3, <2>6
  <2>8. /\ callbacks' \in Seq(Callback(v))
        /\ Pending(callbacks, s) \subseteq Pending(callbacks', s)
        /\ \A i \in Pending(callbacks, s) : callbacks'[i] = callbacks[i]
        /\ \A j \in DOMAIN x : x[j].to = s =>
             Len(callbacks) + j \in Events(callbacks', s) /\ callbacks'[Len(callbacks) + j] = x[j]
        /\ \A i \in Events(callbacks', s) :
             i \in Events(callbacks, s) \/ \E j \in DOMAIN x : i = Len(callbacks) + j /\ x[j].to = s
    <3>1. \A j \in DOMAIN x : x[j].frame.event # "heartbeat"
      BY <2>7
    <3>2. callbacks' \in Seq(Callback(v)) /\ FannedOut(callbacks, x, callbacks', s)
      BY <1>1, <2>1, <2>6, <3>1, ConcatCallbacks
    <3> QED BY <3>2 DEF FannedOut, Keeps
  <2>9. ~Missed(s)'
    BY <2>1 DEF Missed, Idle
  <2>10. CASE s \in pub.targets
    <3>1. PICK j \in DOMAIN x : x[j].to = s
      BY <2>4, <2>5, <2>10
    <3> DEFINE k == Len(callbacks) + j
    <3>2. k \in Events(callbacks', s) /\ callbacks'[k].frame.rev = published'
      BY <2>1, <2>7, <2>8, <3>1
    <3>3. published' <= callbacks'[k].frame.rev
      BY <1>1, <2>1, <3>2 DEF Publisher
    <3>4. Reach(published', seen'[s], q'[s].frames, callbacks', s)
      BY <3>2, <3>3 DEF Reach, Events
    <3>5. ASSUME NEW i \in Events(callbacks', s)
          PROVE  \E l \in Events(callbacks', s) : i <= l /\ callbacks'[l].frame.rev = published'
      <4>1. CASE i \in Events(callbacks, s)
        <5>1. i \in 1 .. Len(callbacks) /\ Len(callbacks) \in Nat
          BY <1>1, <4>1, PendingFacts DEF Events, Pending
        <5>2. DOMAIN x = 1 .. Len(x) /\ Len(x) \in Nat
          BY <2>6, PendingFacts
        <5>3. i <= k
          BY <5>1, <5>2
        <5> QED BY <3>2, <5>3
      <4>2. CASE \E l \in DOMAIN x : i = Len(callbacks) + l /\ x[l].to = s
        <5>1. PICK l \in DOMAIN x : i = Len(callbacks) + l /\ x[l].to = s
          BY <4>2
        <5>2. callbacks'[i].frame.rev = published'
          BY <2>1, <2>7, <2>8, <5>1
        <5>3. DOMAIN callbacks' = 1 .. Len(callbacks') /\ Len(callbacks') \in Nat
          BY <2>8, PendingFacts
        <5>4. i <= i
          BY <5>3 DEF Events, Pending
        <5> QED BY <5>2, <5>4
      <4> QED BY <2>8, <4>1, <4>2
    <3> QED BY <2>9, <3>4, <3>5 DEF Covered, EndsIn
  <2>11. CASE s \notin pub.targets
    <3>1. Missed(s) /\ Events(callbacks, s) = {}
      BY <2>1, <2>11 DEF Missed, Covered
    <3>2. Events(callbacks', s) = {}
      BY <2>7, <2>8, <2>11, <3>1
    <3>3. at[s] = "open" => Reach(pub.rev, seen[s], q[s].frames, callbacks', s)
      BY <2>8, <3>1, ReachGrows DEF Covered
    <3>4. at'[s] = "open" => Reach(published', seen'[s], q'[s].frames, callbacks', s)
      BY <1>2, <2>1, <3>3
    <3> QED BY <2>9, <3>2, <3>4 DEF Covered, EndsIn
  <2> QED BY <2>10, <2>11
<1>5. ASSUME NEW u \in Stream, SendHeartbeat(u)
      PROVE  Covered(s)'
  <2> DEFINE x == [to |-> u, frame |-> HeartbeatFrame(pub.missed)]
  <2>1. /\ callbacks' = Append(callbacks, x) /\ published' = published
        /\ pub' = [Idle EXCEPT !.step = "beat", !.targets = pub.targets \ {u}]
    BY <1>5 DEF SendHeartbeat
  <2>2. x \in Callback(v) /\ x.frame.event = "heartbeat"
    BY <1>1, FramesMade DEF Callback, Publisher, HeartbeatFrame
  <2> HIDE DEF x
  <2>3. /\ Pending(callbacks, s) \subseteq Pending(callbacks', s)
        /\ \A i \in Pending(callbacks, s) : callbacks'[i] = callbacks[i]
        /\ Events(callbacks', s) = Events(callbacks, s)
    <3>1. Scheduled(callbacks, x, callbacks', s)
      BY <1>1, <2>1, <2>2, AppendCallback
    <3> QED BY <2>2, <3>1 DEF Scheduled, Keeps
  <2>4. ~Missed(s)'
    BY <2>1 DEF Missed, Idle
  <2>5. at[s] = "open" => Reach(published, seen[s], q[s].frames, callbacks', s)
    BY <2>3, ReachGrows DEF Covered
  <2>6. at'[s] = "open" => Reach(published', seen'[s], q'[s].frames, callbacks', s)
    BY <1>2, <2>1, <2>5
  <2>7. \A i \in Events(callbacks', s) : \E j \in Events(callbacks', s) :
          i <= j /\ callbacks'[j].frame.rev = published'
    <3>1. \A j \in Events(callbacks, s) : callbacks'[j] = callbacks[j]
      BY <2>3 DEF Events
    <3> QED BY <2>1, <2>3, <3>1, ZenonT(60) DEF Covered, EndsIn
  <2> QED BY <2>4, <2>6, <2>7 DEF Covered, EndsIn
<1> QED BY <1>3, <1>4, <1>5 DEF SchedulerStep

\* A stream to which nothing happens is covered as before.
LEMMA StillCovered ==
  ASSUME NEW s, Covered(s), published' = published, pub' = pub, callbacks' = callbacks,
         at'[s] = at[s], seen'[s] = seen[s], q'[s] = q[s]
  PROVE  Covered(s)'
BY DEF Covered, Missed

\* The greater of two revisions.
LEMMA MaxOfTwo ==
  ASSUME NEW a \in Nat, NEW b \in Nat
  PROVE  Max({a, b}) \in {a, b} /\ a <= Max({a, b}) /\ b <= Max({a, b})
<1>1. \E x \in {a, b} : \A y \in {a, b} : x >= y
  OBVIOUS
<1>2. Max({a, b}) \in {a, b} /\ \A y \in {a, b} : Max({a, b}) >= y
  BY <1>1 DEF Max
<1> QED BY <1>2

\* The loop runs a callback: the frame moves to its stream's queue, which drops
\* older frames only for a newer one.
LEMMA RunCovers ==
  ASSUME StoreTypes, HubTypes, Routes, RunCallback, NEW s \in subscribers, Covered(s)
  PROVE  Covered(s)'
<1> DEFINE v == sceneVersion
           x == Head(callbacks)
<1>1. /\ v \in Nat /\ callbacks \in Seq(Callback(v)) /\ s \in Stream
      /\ q[s] \in Queue(v) /\ q \in [Stream -> Queue(v)] /\ seen[s] \in Nat
      /\ published \in Nat /\ pub.rev \in Nat
  BY HubAssumption DEF StoreTypes, HubTypes, Publisher
<1>2. /\ callbacks # <<>> /\ callbacks' = Tail(callbacks)
      /\ UNCHANGED <<published, pub, at, seen>>
  BY DEF RunCallback, schedVars, routeVars
<1>3. at[s] = "open" /\ ~shut[s]
  <2>1. LoopFree /\ s \in Stream
    BY <1>1 DEF RunCallback
  <2> QED BY <2>1 DEF Routes, LoopFree
<1>4. /\ 1 \in DOMAIN callbacks /\ x = callbacks[1] /\ x \in Callback(v)
      /\ Shifts(callbacks, callbacks', s)
      /\ EndsIn(callbacks', s, published)
  <2>1. /\ 1 \in DOMAIN callbacks /\ x = callbacks[1] /\ x \in Callback(v)
    BY <1>1, <1>2, TailCallbacks
  <2>2. Shifts(callbacks, callbacks', s) /\ EndsIn(callbacks', s, published)
    BY <1>1, <1>2, TailEvents DEF Covered
  <2> QED BY <2>1, <2>2
<1>5. x.to \in Stream /\ x.frame \in Frame(v)
  BY <1>4 DEF Callback
<1>6. Missed(s)' => Missed(s)
  BY <1>2 DEF Missed
<1>7. Missed(s)' => Events(callbacks', s) = {}
  BY <1>4, <1>6 DEF Covered, Shifts
<1>8. ASSUME NEW y \in Nat, Reach(y, seen[s], q[s].frames, callbacks, s),
             x.to # s \/ x.frame.event = "heartbeat"
      PROVE  Reach(y, seen[s], q'[s].frames, callbacks', s)
  <2>1. CASE \E i \in Pending(callbacks, s) : y <= callbacks[i].frame.rev
    <3>1. PICK i \in Pending(callbacks, s) : y <= callbacks[i].frame.rev
      BY <2>1
    <3>2. CASE i = 1
      <4>1. x.to = s
        BY <1>4, <3>2 DEF Pending
      <4>2. x.frame.rev = 0
        BY <1>5, <1>8, <4>1 DEF Frame
      <4>3. y <= seen[s]
        BY <1>1, <1>4, <3>1, <3>2, <4>2
      <4> QED BY <4>3 DEF Reach
    <3>3. CASE i # 1
      <4>1. i - 1 \in Pending(callbacks', s) /\ y <= callbacks'[i - 1].frame.rev
        BY <1>4, <3>1, <3>3 DEF Shifts
      <4> QED BY <4>1 DEF Reach
    <3> QED BY <3>2, <3>3
  <2>2. CASE y <= seen[s]
    BY <2>2 DEF Reach
  <2>3. CASE \E i \in DOMAIN q[s].frames : y <= q[s].frames[i].rev
    <3>1. PICK k \in DOMAIN q[s].frames : y <= q[s].frames[k].rev
      BY <2>3
    <3>2. CASE x.to # s
      <4>1. q'[s] = q[s]
        BY <1>1, <3>2 DEF RunCallback
      <4> QED BY <3>1, <4>1 DEF Reach
    <3>3. CASE x.to = s
      <4>1. q'[s] = PutHeartbeat(q[s], x.frame)
        BY <1>1, <1>3, <1>8, <3>3 DEF RunCallback
      <4>2. q[s].frames[k].rev = 0 \/
              \E i \in DOMAIN q'[s].frames : q'[s].frames[i].rev = q[s].frames[k].rev
        BY <1>1, <1>5, <4>1, HeartbeatFacts, SMTT(30)
      <4>3. CASE q[s].frames[k].rev = 0
        <5>1. y <= seen[s]
          BY <1>1, <3>1, <4>3
        <5> QED BY <5>1 DEF Reach
      <4>4. CASE \E i \in DOMAIN q'[s].frames : q'[s].frames[i].rev = q[s].frames[k].rev
        BY <3>1, <4>4 DEF Reach
      <4> QED BY <4>2, <4>3, <4>4
    <3> QED BY <3>2, <3>3
  <2> QED BY <1>8, <2>1, <2>2, <2>3 DEF Reach
<1>9. CASE x.to # s \/ x.frame.event = "heartbeat"
  <2>1. Reach(published, seen[s], q'[s].frames, callbacks', s)
    BY <1>1, <1>3, <1>8, <1>9 DEF Covered
  <2>2. Missed(s)' => Reach(pub.rev, seen[s], q'[s].frames, callbacks', s)
    BY <1>1, <1>3, <1>6, <1>8, <1>9 DEF Covered
  <2> QED BY <1>2, <1>4, <1>7, <2>1, <2>2 DEF Covered
<1>10. CASE x.to = s /\ x.frame.event # "heartbeat"
  <2>1. 1 \in Events(callbacks, s)
    BY <1>4, <1>10 DEF Events, Pending
  <2>2. ~Missed(s)'
    BY <1>6, <2>1 DEF Covered
  <2>3. PICK j \in Events(callbacks, s) : 1 <= j /\ callbacks[j].frame.rev = published
    BY <2>1 DEF Covered, EndsIn
  <2>4. CASE j = 1
    <3>1. q'[s] = Put(q[s], x.frame, QueueSize)
      BY <1>1, <1>3, <1>10 DEF RunCallback
    <3>2. \E i \in DOMAIN q'[s].frames : q'[s].frames[i] = x.frame
      BY <1>1, <1>5, <3>1, PutFacts
    <3>3. \E i \in DOMAIN q'[s].frames : published <= q'[s].frames[i].rev
      BY <1>1, <1>4, <2>3, <2>4, <3>2
    <3>4. Reach(published', seen'[s], q'[s].frames, callbacks', s)
      BY <1>2, <3>3 DEF Reach
    <3> QED BY <1>2, <1>4, <2>2, <3>4 DEF Covered
  <2>5. CASE j # 1
    <3>1. j \in Pending(callbacks, s)
      BY DEF Events
    <3>2. j - 1 \in Pending(callbacks', s) /\ callbacks'[j - 1] = callbacks[j]
      BY <1>4, <2>5, <3>1 DEF Shifts
    <3>3. published <= callbacks'[j - 1].frame.rev
      BY <1>1, <2>3, <3>2
    <3>4. Reach(published', seen'[s], q'[s].frames, callbacks', s)
      BY <1>2, <3>2, <3>3 DEF Reach
    <3> QED BY <1>2, <1>4, <2>2, <3>4 DEF Covered
  <2> QED BY <2>4, <2>5
<1> QED BY <1>9, <1>10

\* The route's second read: with the corrective frame the stream has the
\* revision the store is at.
LEMMA RereadCovers ==
  ASSUME StoreTypes, HubTypes, Routes, NEW s \in subscribers, Reread(s), Covered(s)
  PROVE  Covered(s)'
<1> DEFINE v == sceneVersion
           f == SnapshotFrame(snap[s])
           g == <<f>> \o Corrective(s)
<1>1. /\ v \in Nat /\ s \in Stream /\ q \in [Stream -> Queue(v)] /\ q[s] \in Queue(v)
      /\ published \in 0 .. v /\ pub.rev \in 0 .. v /\ snap[s] \in 0 .. v
  BY HubAssumption DEF StoreTypes, HubTypes, Publisher
<1>2. /\ at[s] = "registered" /\ UNCHANGED <<published, pub, callbacks, seen>>
  BY DEF Reread, schedVars
<1>3. ~shut[s] /\ q[s].frames = <<f>>
  BY <1>1, <1>2 DEF Routes
<1>4. q' = [q EXCEPT ![s] = [q[s] EXCEPT !.frames = g]]
  BY <1>1, <1>3 DEF Reread
<1>5. q'[s].frames = g
  <2> HIDE DEF g
  <2> QED BY <1>1, <1>4 DEF Queue
<1>6. \E i \in DOMAIN g : g[i].rev = v
  <2> DEFINE c == Corrective(s)
  <2>1. SnapshotFrame(v) \in Frame(v) /\ f \in Frame(v)
    BY <1>1, FramesMade
  <2>2. <<f>> \in Seq(Frame(v)) /\ Len(<<f>>) = 1 /\ <<f>>[1] = f
    BY <2>1
  <2>3. /\ v > snap[s] => c = <<SnapshotFrame(v)>>
        /\ ~(v > snap[s]) => c = <<>>
    BY DEF Corrective
  <2>4. /\ c \in Seq(Frame(v)) /\ Len(c) \in Nat
        /\ v > snap[s] => Len(c) = 1 /\ c[1] = SnapshotFrame(v)
    <3>1. CASE v > snap[s]
      <4> DEFINE h == SnapshotFrame(v)
      <4>1. c = <<h>> /\ h \in Frame(v)
        BY <2>1, <2>3, <3>1
      <4> HIDE DEF c, h
      <4>2. c \in Seq(Frame(v)) /\ Len(c) = 1 /\ c[1] = h
        BY <4>1
      <4> QED BY <4>2 DEF h
    <3>2. CASE ~(v > snap[s])
      <4>1. c = <<>>
        BY <2>3, <3>2
      <4> HIDE DEF c
      <4> QED BY <3>2, <4>1, EmptySeq
    <3> QED BY <3>1, <3>2
  <2> DEFINE w == <<f>>
  <2> HIDE DEF c, w
  <2>5. /\ g \in Seq(Frame(v)) /\ Len(g) = 1 + Len(c)
        /\ \A i \in 1 .. 1 + Len(c) : g[i] = IF i <= 1 THEN w[i] ELSE c[i - 1]
    <3>1. g = w \o c /\ w \in Seq(Frame(v)) /\ Len(w) = 1
      BY <2>2 DEF c, w
    <3> HIDE DEF g
    <3>2. /\ w \o c \in Seq(Frame(v)) /\ Len(w \o c) = Len(w) + Len(c)
          /\ \A i \in 1 .. Len(w) + Len(c) :
               (w \o c)[i] = IF i <= Len(w) THEN w[i] ELSE c[i - Len(w)]
      BY <2>4, <3>1, ConcatProperties
    <3> QED BY <3>1, <3>2
  <2> HIDE DEF g
  <2>6. DOMAIN g = 1 .. 1 + Len(c)
    BY <2>5, LenProperties
  <2>7. CASE v > snap[s]
    <3>1. 2 \in DOMAIN g /\ g[2] = SnapshotFrame(v)
      BY <2>4, <2>5, <2>6, <2>7
    <3>2. 2 \in DOMAIN g /\ g[2].rev = v
      BY <3>1 DEF SnapshotFrame
    <3> QED BY <3>2
  <2>8. CASE ~(v > snap[s])
    <3>1. 1 \in DOMAIN g /\ g[1] = w[1]
      BY <2>4, <2>5, <2>6
    <3>2. 1 \in DOMAIN g /\ g[1].rev = snap[s]
      BY <2>2, <3>1 DEF SnapshotFrame, w
    <3>3. snap[s] = v
      BY <1>1, <2>8
    <3> QED BY <3>2, <3>3
  <2> QED BY <2>7, <2>8
<1> HIDE DEF g
<1>7. \A y \in 0 .. v : Reach(y, seen[s], g, callbacks, s)
  BY <1>1, <1>6 DEF Reach
<1> QED BY <1>1, <1>2, <1>5, <1>7 DEF Covered, Missed

\* The client receives the oldest frame of its queue.
LEMMA ReadCovers ==
  ASSUME StoreTypes, HubTypes, NEW s \in subscribers, ReadFrame(s), Covered(s)
  PROVE  Covered(s)'
<1> DEFINE v == sceneVersion
           g == q[s].frames
           t == Tail(g)
           m == Max({seen[s], Head(g).rev})
<1>1. /\ v \in Nat /\ s \in Stream /\ q \in [Stream -> Queue(v)] /\ q[s] \in Queue(v)
      /\ published \in Nat /\ pub.rev \in Nat /\ seen \in [Stream -> 0 .. v]
  BY HubAssumption DEF StoreTypes, HubTypes, Publisher
<1>2. /\ g # <<>> /\ UNCHANGED <<published, pub, callbacks, at>>
      /\ q' = [q EXCEPT ![s] = [q[s] EXCEPT !.frames = t]] /\ seen' = [seen EXCEPT ![s] = m]
  BY <1>1 DEF ReadFrame, schedVars, routeVars
<1>3. g \in Seq(Frame(v))
  BY <1>1 DEF Queue
<1> HIDE DEF g
<1>4. /\ Head(g) = g[1] /\ g[1] \in Frame(v) /\ Popped(g, t)
  BY <1>2, <1>3, TailCallbacks
<1> HIDE DEF t
<1>5. g[1].rev \in Nat /\ seen[s] \in Nat /\ \A i \in DOMAIN g : g[i].rev \in Nat
  <2>1. \A i \in DOMAIN g : g[i] \in Frame(v)
    BY <1>3, PendingFacts
  <2> QED BY <1>1, <1>4, <2>1 DEF Frame, AnyFrame
<1>6. m \in Nat /\ seen[s] <= m /\ g[1].rev <= m
  BY <1>4, <1>5, MaxOfTwo
<1> HIDE DEF m
<1>7. q'[s].frames = t /\ seen'[s] = m
  BY <1>1, <1>2 DEF Queue
<1>8. ASSUME NEW y \in Nat, Reach(y, seen[s], g, callbacks, s)
      PROVE  Reach(y, m, t, callbacks, s)
  <2>1. CASE y <= seen[s]
    <3>1. y <= m
      BY <1>5, <1>6, <2>1
    <3> QED BY <3>1 DEF Reach
  <2>2. CASE \E i \in Pending(callbacks, s) : y <= callbacks[i].frame.rev
    BY <2>2 DEF Reach
  <2>3. CASE \E i \in DOMAIN g : y <= g[i].rev
    <3>1. PICK i \in DOMAIN g : y <= g[i].rev
      BY <2>3
    <3>2. CASE i = 1
      <4>1. y <= m
        BY <1>5, <1>6, <3>1, <3>2
      <4> QED BY <4>1 DEF Reach
    <3>3. CASE i # 1
      <4>1. i - 1 \in DOMAIN t /\ y <= t[i - 1].rev
        BY <1>4, <3>1, <3>3 DEF Popped
      <4> QED BY <4>1 DEF Reach
    <3> QED BY <3>2, <3>3
  <2> QED BY <1>8, <2>1, <2>2, <2>3 DEF Reach
<1>9. Covered(s) => /\ at[s] = "open" => Reach(published, seen[s], g, callbacks, s)
                    /\ at[s] = "open" /\ Missed(s) => Reach(pub.rev, seen[s], g, callbacks, s)
                    /\ Missed(s) => Events(callbacks, s) = {}
                    /\ EndsIn(callbacks, s, published)
  BY DEF Covered, g
<1>10. Missed(s)' <=> Missed(s)
  BY <1>2 DEF Missed
<1> QED BY <1>1, <1>2, <1>7, <1>8, <1>9, <1>10 DEF Covered

\* The route of one stream leaves the others alone.
LEMMA OthersUntouched ==
  ASSUME HubTypes, NEW u \in Stream, NEW s \in subscribers', s # u,
         OpenRoute(u) \/ Subscribe(u) \/ Reread(u) \/ ReadFrame(u) \/ EndStream(u) \/ CloseAgain(u)
  PROVE  s \in subscribers /\ at'[s] = at[s] /\ seen'[s] = seen[s] /\ q'[s] = q[s]
<1>1. subscribers \in SUBSET Stream /\ at \in [Stream -> At] /\ q \in [Stream -> Queue(sceneVersion)]
      /\ seen \in [Stream -> 0 .. sceneVersion]
  BY DEF HubTypes
<1>2. s \in subscribers
  <2>1. CASE OpenRoute(u) \/ Reread(u) \/ ReadFrame(u)
    BY <2>1 DEF OpenRoute, Reread, ReadFrame, hubVars
  <2>2. CASE Subscribe(u)
    BY <2>2 DEF Subscribe
  <2>3. CASE EndStream(u) \/ CloseAgain(u)
    BY <2>3 DEF EndStream, CloseAgain, Unsubscribe
  <2> QED BY <2>1, <2>2, <2>3
<1>3. CASE OpenRoute(u)
  BY <1>1, <1>2, <1>3 DEF OpenRoute
<1>4. CASE Subscribe(u)
  BY <1>1, <1>2, <1>4 DEF Subscribe
<1>5. CASE Reread(u)
  BY <1>1, <1>2, <1>5 DEF Reread
<1>6. CASE ReadFrame(u)
  BY <1>1, <1>2, <1>6 DEF ReadFrame, routeVars
<1>7. CASE EndStream(u) \/ CloseAgain(u)
  BY <1>1, <1>2, <1>7 DEF EndStream, CloseAgain, Unsubscribe
<1> QED BY <1>2, <1>3, <1>4, <1>5, <1>6, <1>7

\* Every subscriber stays covered.
LEMMA CoverageStep ==
  ASSUME StoreTypes, HubTypes, Routes, Coverage, Next
  PROVE  Coverage'
<1> SUFFICES ASSUME NEW s \in subscribers' PROVE Covered(s)'
  BY DEF Coverage
<1>1. subscribers \in SUBSET Stream /\ at \in [Stream -> At] /\ q \in [Stream -> Queue(sceneVersion)]
      /\ seen \in [Stream -> 0 .. sceneVersion]
  BY DEF HubTypes
<1>2. s \in subscribers => Covered(s)
  BY DEF Coverage
<1>3. CASE SchedulerStep
  <2>1. s \in subscribers
    BY <1>3, SchedulerEffects DEF hubVars
  <2> QED BY <1>2, <1>3, <2>1, SchedulerCovers
<1>4. CASE RunCallback
  <2>1. s \in subscribers
    BY <1>4 DEF RunCallback, hubVars
  <2> QED BY <1>2, <1>4, <2>1, RunCovers
<1>5. CASE CloseHub
  BY <1>5 DEF CloseHub
<1>6. ASSUME NEW u \in Stream, StreamStep(u), s # u
      PROVE  Covered(s)'
  <2>1. OpenRoute(u) \/ Subscribe(u) \/ Reread(u) \/ ReadFrame(u) \/ EndStream(u) \/ CloseAgain(u)
    BY <1>6 DEF StreamStep
  <2>2. UNCHANGED <<published, pub, callbacks>>
    BY <2>1 DEF OpenRoute, Subscribe, Reread, ReadFrame, EndStream, CloseAgain, schedVars
  <2>3. s \in subscribers /\ at'[s] = at[s] /\ seen'[s] = seen[s] /\ q'[s] = q[s]
    BY <1>6, <2>1, OthersUntouched
  <2> QED BY <1>2, <2>2, <2>3, StillCovered
<1>7. CASE s \in Stream /\ OpenRoute(s)
  <2>1. s \in subscribers /\ at[s] = "new"
    BY <1>7 DEF OpenRoute, hubVars
  <2> QED BY <1>7, <2>1 DEF Routes, Unknown
<1>8. CASE s \in Stream /\ Subscribe(s)
  <2>1. Pending(callbacks, s) = {}
    BY <1>8 DEF Subscribe, Routes, Unknown
  <2>2. Events(callbacks', s) = {}
    BY <1>8, <2>1 DEF Subscribe, Events
  <2>3. at'[s] = "registered"
    BY <1>1, <1>8 DEF Subscribe
  <2> QED BY <2>2, <2>3 DEF Covered, EndsIn
<1>9. CASE s \in Stream /\ Reread(s)
  <2>1. s \in subscribers
    BY <1>9 DEF Reread, hubVars
  <2> QED BY <1>2, <1>9, <2>1, RereadCovers
<1>10. CASE s \in Stream /\ ReadFrame(s)
  <2>1. s \in subscribers
    BY <1>10 DEF ReadFrame, hubVars
  <2> QED BY <1>2, <1>10, <2>1, ReadCovers
<1>11. CASE s \in Stream /\ (EndStream(s) \/ CloseAgain(s))
  BY <1>11 DEF EndStream, CloseAgain, Unsubscribe
<1>12. ASSUME NEW u \in Stream, StreamStep(u)
       PROVE  Covered(s)'
  BY <1>6, <1>7, <1>8, <1>9, <1>10, <1>11, <1>12 DEF StreamStep
<1> QED BY <1>3, <1>4, <1>5, <1>12, NextCases

\* Nobody is subscribed at the start.
LEMMA InitCoverage == Init => Coverage
BY DEF Init, Coverage


-----------------------------------------------------------------------------
(* The size of the queues.                                                 *)

\* The scheduler thread makes one more heartbeat due for a stream only when it
\* begins a round.
LEMMA SchedulerGrowth ==
  ASSUME StoreTypes, HubTypes, SchedulerStep, NEW s \in subscribers, Small(s)
  PROVE  Small(s)'
<1> DEFINE v == sceneVersion
           n == Cardinality(Pulses(callbacks, s))
           d == IF s \in pub.targets /\ pub.step \in Beating THEN 1 ELSE 0
           e == IF s \in pub'.targets /\ pub'.step \in Beating THEN 1 ELSE 0
           k == Cardinality(Pulses(callbacks', s))
<1>1. /\ v \in Nat /\ pub \in Publisher(v) /\ pub.to \subseteq pub.targets
      /\ callbacks \in Seq(Callback(v)) /\ s \in Stream /\ beats \in Nat
      /\ IsFiniteSet(pub.targets) /\ q[s] \in Queue(v)
  BY HubAssumption DEF StoreTypes, HubTypes
<1>2. q'[s].frames = q[s].frames /\ Len(q[s].frames) \in Nat
  <2>1. \A u \in Stream : q'[u].frames = q[u].frames
    BY SchedulerEffects
  <2>2. q[s].frames \in Seq(Frame(v))
    BY <1>1 DEF Queue
  <2> QED BY <1>1, <2>1, <2>2, LenProperties
<1>3. n \in Nat /\ k \in Nat
  <2>1. StoreTypes'
    BY SchedulerTypes
  <2>2. callbacks' \in Seq(Callback(sceneVersion'))
    BY <2>1 DEF StoreTypes
  <2> QED BY <1>1, <2>2, PendingFacts
<1> HIDE DEF n, k, d, e
<1>4. Due(s) = n + d /\ Due(s)' = k + e /\ d \in {0, 1} /\ e \in {0, 1}
  BY DEF Due, n, k, d, e
<1>5. CASE k + e <= n + d /\ beats' = beats
  <2>1. n + d <= beats /\ Len(q[s].frames) + (n + d) <= QueueSize + beats
    BY <1>4 DEF Small
  <2>2. k + e <= beats /\ Len(q[s].frames) + (k + e) <= QueueSize + beats
    <3> DEFINE l == Len(q[s].frames)
    <3>1. l \in Nat /\ QueueSize \in Nat /\ n + d \in Nat /\ k + e \in Nat
      BY <1>2, <1>3, <1>4, HubAssumption
    <3>2. n + d <= beats /\ l + (n + d) <= QueueSize + beats
      BY <2>1
    <3> HIDE DEF l
    <3>3. k + e <= beats /\ l + (k + e) <= QueueSize + beats
      BY <1>1, <1>5, <3>1, <3>2
    <3> QED BY <3>3 DEF l
  <2> QED BY <1>2, <1>4, <1>5, <2>2 DEF Small
<1>6. CASE k = n /\ d = 0 /\ beats' = beats + 1
  <2>1. n <= beats /\ Len(q[s].frames) + n <= QueueSize + beats
    BY <1>3, <1>4, <1>6 DEF Small
  <2>2. k + e <= beats' /\ Len(q[s].frames) + (k + e) <= QueueSize + beats'
    <3> DEFINE l == Len(q[s].frames)
    <3>1. l \in Nat /\ QueueSize \in Nat
      BY <1>2, HubAssumption
    <3>2. n <= beats /\ l + n <= QueueSize + beats
      BY <2>1
    <3> HIDE DEF l
    <3>3. k + e <= beats + 1 /\ l + (k + e) <= QueueSize + (beats + 1)
      BY <1>1, <1>3, <1>4, <1>6, <3>1, <3>2
    <3> QED BY <1>6, <3>3 DEF l
  <2> QED BY <1>2, <1>4, <2>2 DEF Small
<1>7. CASE Commit \/ SnapshotSubscribers
  <2>1. UNCHANGED <<callbacks, beats>> /\ pub'.step \in {"committed", "deliver"}
    BY <1>1, <1>7 DEF Commit, SnapshotSubscribers, Publisher
  <2>2. e = 0 /\ k = n
    BY <2>1 DEF e, k, n, Beating
  <2> QED BY <1>3, <1>4, <1>5, <2>1, <2>2
<1>8. CASE BeginHeartbeats
  <2>1. callbacks' = callbacks /\ beats' = beats + 1 /\ pub.step = "idle"
    BY <1>8 DEF BeginHeartbeats
  <2>2. k = n /\ d = 0
    BY <2>1 DEF k, n, d, Beating
  <2> QED BY <1>6, <2>1, <2>2
<1>9. CASE EndHeartbeats
  <2>1. UNCHANGED <<callbacks, beats>> /\ pub' = Idle
    BY <1>9 DEF EndHeartbeats
  <2>2. e = 0 /\ k = n
    BY <2>1 DEF e, k, n, Beating, Idle
  <2> QED BY <1>3, <1>4, <1>5, <2>1, <2>2
<1>10. CASE \E u \in Stream : ReadLag(u) \/ ResetFlag(u)
  <2>1. /\ UNCHANGED <<callbacks, beats>> /\ pub.step \in {"beat", "lagged"}
    BY <1>10 DEF ReadLag, ResetFlag
  <2>2. pub'.targets = pub.targets
    BY <1>1, <1>10 DEF ReadLag, ResetFlag, Publisher
  <2>3. d = IF s \in pub.targets THEN 1 ELSE 0
    BY <2>1 DEF d, Beating
  <2>4. e \in {0, d} /\ k = n
    BY <2>1, <2>2, <2>3 DEF e, k, n
  <2>5. k + e <= n + d
    BY <1>3, <1>4, <2>4
  <2> QED BY <1>5, <2>1, <2>5
<1>11. CASE DeliverFrame
  <2> DEFINE M == {[to |-> u, frame |-> CanonicalFrame(pub.rev, {})] : u \in pub.targets}
             x == SetToSeq(M)
  <2>1. callbacks' = callbacks \o x /\ pub' = Idle /\ beats' = beats
    BY <1>11 DEF DeliverFrame
  <2>2. M \in SUBSET Callback(v) /\ IsFiniteSet(M)
        /\ \A m \in M : m.frame.event # "heartbeat"
    <3>1. CanonicalFrame(pub.rev, {}) \in Frame(v)
      BY <1>1, FramesMade DEF Publisher
    <3> DEFINE f == [u \in pub.targets |-> [to |-> u, frame |-> CanonicalFrame(pub.rev, {})]]
    <3>2. f \in Surjection(pub.targets, M)
      BY DEF Surjection
    <3>3. IsFiniteSet(M)
      BY <1>1, <3>2, FS_Surjection
    <3>4. \A m \in M : m.frame.event # "heartbeat"
      BY DEF CanonicalFrame
    <3> QED BY <1>1, <3>1, <3>3, <3>4 DEF Callback, Publisher
  <2> HIDE DEF M
  <2>3. x \in Seq(M)
    BY <2>2, SetToSeqFacts
  <2>4. x \in Seq(Callback(v)) /\ \A j \in DOMAIN x : x[j] \in M
    BY <2>2, <2>3, SeqMonotonic, PendingFacts
  <2> HIDE DEF x
  <2>5. \A j \in DOMAIN x : x[j].frame.event # "heartbeat"
    BY <2>2, <2>4
  <2>6. FannedOut(callbacks, x, callbacks', s)
    BY <1>1, <2>1, <2>4, <2>5, ConcatCallbacks
  <2>7. k = n /\ e = 0
    BY <2>1, <2>6 DEF FannedOut, k, n, e, Idle, Beating
  <2> QED BY <1>3, <1>4, <1>5, <2>1, <2>7
<1>12. ASSUME NEW u \in Stream, SendHeartbeat(u)
       PROVE  Small(s)'
  <2> DEFINE x == [to |-> u, frame |-> HeartbeatFrame(pub.missed)]
  <2>1. /\ callbacks' = Append(callbacks, x) /\ beats' = beats
        /\ pub' = [Idle EXCEPT !.step = "beat", !.targets = pub.targets \ {u}]
        /\ u \in pub.targets /\ pub.step \in {"send", "reset"}
    BY <1>1, <1>12 DEF SendHeartbeat
  <2>2. x \in Callback(v) /\ x.to = u
    BY <1>1, FramesMade DEF Callback, Publisher
  <2>3. pub'.targets = pub.targets \ {u}
    BY <2>1 DEF Idle
  <2> HIDE DEF x
  <2>4. Scheduled(callbacks, x, callbacks', s)
    BY <1>1, <2>1, <2>2, AppendCallback
  <2>5. d = IF s \in pub.targets THEN 1 ELSE 0
    BY <2>1 DEF d, Beating
  <2>6. CASE s = u
    <3>1. d = 1 /\ e = 0 /\ k <= n + 1
      BY <2>1, <2>3, <2>4, <2>5, <2>6 DEF e, k, n, Scheduled
    <3> QED BY <1>3, <1>5, <2>1, <3>1
  <2>7. CASE s # u
    <3>1. k = n
      BY <2>2, <2>4, <2>7 DEF k, n, Scheduled
    <3>2. e \in {0, d}
      BY <2>3, <2>5 DEF e
    <3>3. k + e <= n + d
      BY <1>3, <1>4, <3>1, <3>2
    <3> QED BY <1>5, <2>1, <3>3
  <2> QED BY <2>6, <2>7
<1> QED BY <1>7, <1>8, <1>9, <1>10, <1>11, <1>12 DEF SchedulerStep

\* A heartbeat that is run is no longer due; an event makes a queue grow only up
\* to its capacity.
LEMMA RunGrowth ==
  ASSUME StoreTypes, HubTypes, Routes, RunCallback, NEW s \in subscribers, Small(s)
  PROVE  Small(s)'
<1> DEFINE v == sceneVersion
           x == Head(callbacks)
           n == Cardinality(Pulses(callbacks, s))
           k == Cardinality(Pulses(callbacks', s))
           d == IF s \in pub.targets /\ pub.step \in Beating THEN 1 ELSE 0
           l == Len(q[s].frames)
           m == Len(q'[s].frames)
<1>1. /\ v \in Nat /\ callbacks \in Seq(Callback(v)) /\ s \in Stream /\ beats \in Nat
      /\ q[s] \in Queue(v) /\ q \in [Stream -> Queue(v)]
  BY HubAssumption DEF StoreTypes, HubTypes
<1>2. /\ callbacks # <<>> /\ callbacks' = Tail(callbacks) /\ UNCHANGED <<pub, beats>>
  BY DEF RunCallback, schedVars
<1>3. ~shut[s]
  BY <1>1 DEF Routes
<1>4. /\ 1 \in DOMAIN callbacks /\ x = callbacks[1] /\ x \in Callback(v)
      /\ Tail(callbacks) \in Seq(Callback(v))
  BY <1>1, <1>2, TailCallbacks
<1>5. x.to \in Stream /\ x.frame \in Frame(v)
  BY <1>4 DEF Callback
<1>6. n \in Nat /\ k \in Nat
  BY <1>1, <1>2, <1>4, PendingFacts
<1>7. k = IF 1 \in Pulses(callbacks, s) THEN n - 1 ELSE n
  BY <1>1, <1>2, TailPulses
<1>8. 1 \in Pulses(callbacks, s) <=> x.to = s /\ x.frame.event = "heartbeat"
  BY <1>4 DEF Pulses, Pending
<1>9. q[s].frames \in Seq(Frame(v))
  BY <1>1 DEF Queue
<1>10. l \in Nat
  BY <1>9, LenProperties
<1>11. Due(s) = n + d /\ Due(s)' = k + d /\ d \in {0, 1}
  BY <1>2 DEF Due
<1> HIDE DEF n, k, d
<1>12. n + d <= beats /\ l + (n + d) <= QueueSize + beats
  BY <1>11 DEF Small
<1>13. m \in Nat /\ k + d <= beats /\ m + (k + d) <= QueueSize + beats
  <2>1. CASE x.to # s
    <3>1. m = l
      BY <1>1, <2>1 DEF RunCallback
    <3> HIDE DEF l, m
    <3> QED BY <1>7, <1>8, <1>10, <1>12, <2>1, <3>1
  <2>2. CASE x.to = s /\ x.frame.event = "heartbeat"
    <3>1. q'[s] = PutHeartbeat(q[s], x.frame)
      BY <1>1, <1>3, <2>2 DEF RunCallback
    <3>2. m \in Nat /\ m <= l + 1
      BY <1>1, <1>5, <3>1, HeartbeatFacts
    <3>3. k = n - 1
      BY <1>7, <1>8, <2>2
    <3> HIDE DEF l, m
    <3> QED BY <1>1, <1>6, <1>10, <1>11, <1>12, <3>2, <3>3, HubAssumption
  <2>3. CASE x.to = s /\ x.frame.event # "heartbeat"
    <3>1. q'[s] = Put(q[s], x.frame, QueueSize)
      BY <1>1, <1>3, <2>3 DEF RunCallback
    <3>2. m \in Nat /\ (m <= QueueSize \/ m = l)
      BY <1>1, <1>5, <3>1, PutFacts
    <3>3. k = n
      BY <1>7, <1>8, <2>3
    <3> HIDE DEF l, m
    <3> QED BY <1>1, <1>6, <1>10, <1>11, <1>12, <3>2, <3>3, HubAssumption
  <2> QED BY <2>1, <2>2, <2>3
<1> HIDE DEF m
<1> QED BY <1>2, <1>11, <1>13 DEF Small, m

\* A queue of capacity two or more has room for the snapshot and its correction.
LEMMA RouteGrowth ==
  ASSUME StoreTypes, HubTypes, Routes, QueueSize >= 2, NEW s \in subscribers',
         s \in Stream, Subscribe(s) \/ Reread(s), s \in subscribers => Small(s)
  PROVE  Small(s)'
<1> DEFINE v == sceneVersion
           f == SnapshotFrame(snap[s])
           c == Corrective(s)
           w == <<f>>
           m == Len(q'[s].frames)
<1>1. /\ v \in Nat /\ q \in [Stream -> Queue(v)] /\ beats \in Nat /\ q[s] \in Queue(v)
      /\ callbacks \in Seq(Callback(v)) /\ snap[s] \in 0 .. v
  BY HubAssumption DEF StoreTypes, HubTypes
<1>2. UNCHANGED <<callbacks, pub, beats>>
  BY DEF Subscribe, Reread, schedVars
<1>3. f \in Frame(v) /\ SnapshotFrame(v) \in Frame(v)
  BY <1>1, FramesMade
<1>4. Due(s)' = Due(s) /\ Due(s) \in Nat
  <2>1. Cardinality(Pulses(callbacks, s)) \in Nat
    BY <1>1, PendingFacts
  <2> QED BY <1>2, <2>1 DEF Due
<1>5. Due(s) <= beats /\ m \in Nat /\ m <= 2
  <2>1. CASE Subscribe(s)
    <3>1. Unknown(s)
      BY <2>1 DEF Subscribe, Routes
    <3>2. Due(s) = 0
      <4>1. Pulses(callbacks, s) = {}
        BY <3>1 DEF Unknown, Pulses
      <4> QED BY <3>1, <4>1, FS_EmptySet DEF Unknown, Due
    <3>3. q'[s] = Put(q[s], f, QueueSize)
      BY <1>1, <2>1, <3>1 DEF Subscribe, Unknown
    <3>4. Put(q[s], f, QueueSize) = PutPrivileged(q[s], f) /\ Len(q[s].frames) = 0
      <4>1. q[s].frames = <<>>
        BY <3>1 DEF Unknown, NewQueue
      <4>2. Len(q[s].frames) = 0
        BY <4>1
      <4> QED BY <4>2, HubAssumption DEF Put
    <3> HIDE DEF f
    <3>5. m = 0 + 1
      <4>1. Len(PutPrivileged(q[s], f).frames) = Len(q[s].frames) + 1
        BY <1>1, <1>3, PrivilegedFacts
      <4> QED BY <3>3, <3>4, <4>1
    <3> QED BY <1>1, <3>2, <3>5
  <2>2. CASE Reread(s)
    <3>1. s \in subscribers /\ at[s] = "registered"
      BY <2>2 DEF Reread, hubVars
    <3>2. ~shut[s] /\ q[s].frames = w
      BY <3>1 DEF Routes
    <3>3. q' = [q EXCEPT ![s] = [q[s] EXCEPT !.frames = w \o c]]
      BY <1>1, <2>2, <3>2 DEF Reread
    <3>4. c = <<SnapshotFrame(v)>> \/ c = <<>>
      BY DEF Corrective
    <3> HIDE DEF c, f
    <3>5. w \in Seq(Frame(v)) /\ Len(w) = 1
      BY <1>3
    <3>6. c \in Seq(Frame(v)) /\ Len(c) \in {0, 1}
      <4> DEFINE h == SnapshotFrame(v)
      <4>1. h \in Frame(v) /\ (c = <<h>> \/ c = <<>>)
        BY <1>3, <3>4
      <4> HIDE DEF h
      <4>2. CASE c = <<h>>
        BY <4>1, <4>2
      <4>3. CASE c = <<>>
        BY <4>3, EmptySeq
      <4> QED BY <4>1, <4>2, <4>3
    <3> HIDE DEF w
    <3>7. Len(w \o c) = Len(w) + Len(c)
      BY <3>5, <3>6, ConcatProperties
    <3> DEFINE g == w \o c
    <3> HIDE DEF g
    <3>8. q'[s].frames = g
      BY <1>1, <3>3 DEF Queue, g
    <3>9. m \in Nat /\ m <= 2
      BY <3>5, <3>6, <3>7, <3>8 DEF g
    <3> QED BY <3>1, <3>9 DEF Small
  <2> QED BY <2>1, <2>2
<1> HIDE DEF m
<1>6. m + Due(s) <= QueueSize + beats
  BY <1>1, <1>4, <1>5, HubAssumption
<1> QED BY <1>2, <1>4, <1>5, <1>6 DEF Small, m

\* A stream to which nothing happens keeps its bound.
LEMMA StillSmall ==
  ASSUME NEW s, Small(s), pub' = pub, callbacks' = callbacks, beats' = beats, q'[s] = q[s]
  PROVE  Small(s)'
BY DEF Small, Due

\* Every queue keeps its bound.
LEMMA GrowthStep ==
  ASSUME StoreTypes, HubTypes, Routes, QueueSize >= 2, Growth, Next
  PROVE  Growth'
<1> SUFFICES ASSUME NEW s \in subscribers' PROVE Small(s)'
  BY DEF Growth
<1>1. subscribers \in SUBSET Stream /\ q \in [Stream -> Queue(sceneVersion)]
  BY DEF HubTypes
<1>2. s \in subscribers => Small(s)
  BY DEF Growth
<1>3. CASE SchedulerStep
  <2>1. s \in subscribers
    BY <1>3, SchedulerEffects DEF hubVars
  <2> QED BY <1>2, <1>3, <2>1, SchedulerGrowth
<1>4. CASE RunCallback
  <2>1. s \in subscribers
    BY <1>4 DEF RunCallback, hubVars
  <2> QED BY <1>2, <1>4, <2>1, RunGrowth
<1>5. CASE CloseHub
  BY <1>5 DEF CloseHub
<1>6. ASSUME NEW u \in Stream, StreamStep(u), s # u
      PROVE  Small(s)'
  <2>1. OpenRoute(u) \/ Subscribe(u) \/ Reread(u) \/ ReadFrame(u) \/ EndStream(u) \/ CloseAgain(u)
    BY <1>6 DEF StreamStep
  <2>2. UNCHANGED <<pub, callbacks, beats>>
    BY <2>1 DEF OpenRoute, Subscribe, Reread, ReadFrame, EndStream, CloseAgain, schedVars
  <2>3. s \in subscribers /\ q'[s] = q[s]
    BY <1>6, <2>1, OthersUntouched
  <2> QED BY <1>2, <2>2, <2>3, StillSmall
<1>7. CASE s \in Stream /\ OpenRoute(s)
  <2>1. s \in subscribers /\ at[s] = "new"
    BY <1>7 DEF OpenRoute, hubVars
  <2> QED BY <1>7, <2>1 DEF Routes, Unknown
<1>8. CASE s \in Stream /\ (Subscribe(s) \/ Reread(s))
  BY <1>2, <1>8, RouteGrowth
<1>9. CASE s \in Stream /\ ReadFrame(s)
  <2> DEFINE g == q[s].frames
             t == Tail(g)
  <2>1. /\ s \in subscribers /\ g # <<>> /\ UNCHANGED <<pub, callbacks, beats>>
        /\ q' = [q EXCEPT ![s] = [q[s] EXCEPT !.frames = t]]
    BY <1>1, <1>9 DEF ReadFrame, hubVars, schedVars
  <2>2. /\ g \in Seq(Frame(sceneVersion)) /\ q[s] \in Queue(sceneVersion)
        /\ callbacks \in Seq(Callback(sceneVersion)) /\ beats \in Nat
    BY <1>1, <1>9, HubAssumption DEF Queue, StoreTypes
  <2>3. Len(t) = Len(g) - 1 /\ Len(g) \in Nat
    BY <2>1, <2>2, HeadTailProperties, LenProperties
  <2> HIDE DEF t
  <2>4. q'[s].frames = t
    BY <1>1, <1>9, <2>1, <2>2 DEF Queue
  <2>5. Due(s)' = Due(s) /\ Due(s) \in Nat
    <3>1. Cardinality(Pulses(callbacks, s)) \in Nat
      BY <2>2, PendingFacts
    <3> QED BY <2>1, <3>1 DEF Due
  <2>6. Due(s) <= beats /\ Len(g) + Due(s) <= QueueSize + beats
    BY <1>2, <2>1 DEF Small
  <2> HIDE DEF g
  <2>7. Len(t) + Due(s) <= QueueSize + beats
    BY <2>2, <2>3, <2>5, <2>6, HubAssumption
  <2> QED BY <2>1, <2>4, <2>5, <2>6, <2>7 DEF Small
<1>10. CASE s \in Stream /\ (EndStream(s) \/ CloseAgain(s))
  BY <1>10 DEF EndStream, CloseAgain, Unsubscribe
<1>11. ASSUME NEW u \in Stream, StreamStep(u)
       PROVE  Small(s)'
  BY <1>6, <1>7, <1>8, <1>9, <1>10, <1>11 DEF StreamStep
<1> QED BY <1>3, <1>4, <1>5, <1>11, NextCases

-----------------------------------------------------------------------------
(* The theorems.                                                           *)

\* The invariant holds in every reachable state.
THEOREM Invariance == Spec => []IInv
<1>1. Init => IInv
  BY InitTypes, InitRoutes, InitRoster, InitCoverage DEF IInv
<1>2. IInv /\ [Next]_vars => IInv'
  <2>1. CASE Next
    <3> SUFFICES ASSUME IInv, Next PROVE IInv'
      BY <2>1
    <3>1. StoreTypes' /\ HubTypes'
      BY SchedulerTypes, LoopTypes, NextCases DEF IInv
    <3>2. Routes' /\ Roster' /\ Coverage'
      BY RoutesStep, RosterStep, CoverageStep DEF IInv
    <3> QED BY <3>1, <3>2 DEF IInv
  <2>2. CASE UNCHANGED vars
    <3> USE <2>2 DEF vars, schedVars, hubVars, routeVars
    <3>1. StoreTypes /\ HubTypes => StoreTypes' /\ HubTypes'
      BY DEF StoreTypes, HubTypes
    <3>2. Routes /\ Roster => Routes' /\ Roster'
      BY DEF Routes, Unknown, Roster, LiveTabs
    <3>3. Coverage => Coverage'
      BY DEF Coverage, Covered, Missed
    <3> QED BY <3>1, <3>2, <3>3 DEF IInv
  <2> QED BY <2>1, <2>2
<1> QED BY <1>1, <1>2, PTL DEF Spec

\* BroadcastHub's type invariant: however often a stream is unsubscribed, no
\* refcount goes below zero, and no client and no route is ahead of the store.
THEOREM TypeCorrect == Spec => []TypeOK
<1>1. IInv => TypeOK
  <2> SUFFICES ASSUME IInv PROVE TypeOK
    OBVIOUS
  <2>1. /\ sceneVersion \in 0 .. MaxRevision /\ published \in 0 .. sceneVersion
        /\ beats \in 0 .. MaxBeats /\ pub \in Publisher(sceneVersion)
        /\ subscribers \in SUBSET Stream /\ liveActors \in [Actor -> Nat] /\ at \in [Stream -> At]
        /\ snap \in [Stream -> 0 .. sceneVersion] /\ seen \in [Stream -> 0 .. sceneVersion]
    BY DEF IInv, StoreTypes, HubTypes
  <2>2. published \in 0 .. MaxRevision
    BY <2>1, HubAssumption
  <2>3. \A s \in Stream : snap[s] <= sceneVersion /\ seen[s] <= sceneVersion
    BY <2>1
  <2>4. pub.step \in Step /\ pub.targets \subseteq Stream
    BY <2>1 DEF Publisher
  <2> QED BY <2>1, <2>2, <2>3, <2>4 DEF TypeOK, Step, At
<1> QED BY <1>1, Invariance, PTL

\* unsubscribe and the refcounts: while the hub is open, an actor on the roster
\* has a live stream, although a stream is unsubscribed twice.
THEOREM NoGhosts == Spec => []NoGhostActors
<1>1. IInv => NoGhostActors
  <2> SUFFICES ASSUME IInv, ~hubClosed, NEW a \in Actor, liveActors[a] > 0
               PROVE  \E s \in subscribers : ActorOf[s] = a
    BY DEF NoGhostActors
  <2>1. liveActors[a] <= Cardinality(LiveTabs(a)) /\ liveActors[a] \in Nat
        /\ IsFiniteSet(subscribers)
    BY DEF IInv, Roster, HubTypes
  <2>2. LiveTabs(a) # {}
    <3>1. ASSUME LiveTabs(a) = {} PROVE FALSE
      <4>1. Cardinality(LiveTabs(a)) = 0
        BY <3>1, FS_EmptySet
      <4> QED BY <2>1, <4>1
    <3> QED BY <3>1
  <2> QED BY <2>2 DEF LiveTabs
<1> QED BY <1>1, Invariance, PTL

\* push_snapshot closes the subscribe race: an open subscriber, one that lost a
\* frame included, has received the newest published revision or it is on its
\* way to it.
THEOREM NobodyStranded == Spec => []NoStranding
<1>1. IInv => NoStranding
  <2> SUFFICES ASSUME IInv, NEW s \in subscribers, at[s] = "open"
               PROVE  \E r \in {seen[s]} \cup {f.rev : f \in InFlight(s)} : published <= r
    BY DEF NoStranding
  <2>1. Reach(published, seen[s], q[s].frames, callbacks, s)
    BY DEF IInv, Coverage, Covered
  <2>2. CASE published <= seen[s]
    BY <2>2
  <2>3. CASE \E i \in DOMAIN q[s].frames : published <= q[s].frames[i].rev
    <3>1. PICK i \in DOMAIN q[s].frames : published <= q[s].frames[i].rev
      BY <2>3
    <3>2. q[s].frames[i] \in InFlight(s)
      BY DEF InFlight
    <3> QED BY <3>1, <3>2
  <2>4. CASE \E i \in Pending(callbacks, s) : published <= callbacks[i].frame.rev
    <3>1. PICK i \in Pending(callbacks, s) : published <= callbacks[i].frame.rev
      BY <2>4
    <3>2. callbacks[i].frame \in InFlight(s)
      BY DEF InFlight, Pending
    <3> QED BY <3>1, <3>2
  <2> QED BY <2>1, <2>2, <2>3, <2>4 DEF Reach
<1> QED BY <1>1, Invariance, PTL

\* _enqueue: with a capacity of two or more, events never make a queue longer
\* than its capacity; only heartbeats do, one frame for each round.
THEOREM QueueGrowth ==
  ASSUME QueueSize >= 2
  PROVE  Spec => []GrowthOnlyByHeartbeats
<1>1. Init => Growth
  BY DEF Init, Growth
<1>2. IInv /\ Growth /\ [Next]_vars => Growth'
  <2>1. CASE Next
    BY <2>1, GrowthStep DEF IInv
  <2>2. CASE UNCHANGED vars
    BY <2>2 DEF vars, schedVars, hubVars, routeVars, Growth, Small, Due
  <2> QED BY <2>1, <2>2
<1>3. IInv /\ Growth => GrowthOnlyByHeartbeats
  <2> SUFFICES ASSUME IInv, Growth, NEW s \in subscribers
               PROVE  Len(q[s].frames) <= QueueSize + beats
    BY DEF GrowthOnlyByHeartbeats
  <2>1. /\ callbacks \in Seq(Callback(sceneVersion)) /\ beats \in Nat
        /\ q[s] \in Queue(sceneVersion)
    BY DEF IInv, StoreTypes, HubTypes
  <2>2. q[s].frames \in Seq(Frame(sceneVersion))
    BY <2>1 DEF Queue
  <2>3. Len(q[s].frames) \in Nat /\ Cardinality(Pulses(callbacks, s)) \in Nat
    BY <2>1, <2>2, LenProperties, PendingFacts
  <2>4. Due(s) \in Nat
    BY <2>3 DEF Due
  <2>5. Len(q[s].frames) + Due(s) <= QueueSize + beats
    BY DEF Growth, Small
  <2> QED BY <2>1, <2>3, <2>4, <2>5, HubAssumption
<1> QED BY <1>1, <1>2, <1>3, Invariance, PTL DEF Spec

===============================================================================
