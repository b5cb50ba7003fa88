------------------------- MODULE RealtimeClientProofs -------------------------
(***************************************************************************)
(* Proofs about RealtimeClient for every queue size, retry budget and      *)
(* number of operations, errors and subscriptions.  The client computes on *)
(* its state between two awaits (Fetch, CatchUp, Flush ...); each of these *)
(* operators gets a lemma that says what it does to the gap fence, the     *)
(* reconnect cycle and the requests in flight, and the actions are put     *)
(* together from them.                                                     *)
(***************************************************************************)
EXTENDS RealtimeClient, FiniteSetTheorems, SequenceTheorems, WellFoundedInduction, TLAPS

-----------------------------------------------------------------------------
(* The inductive invariant.                                                *)

FrameEvent == {"canonical", "snapshot", "heartbeat"}
GetStatus  == {"sent", "answered", "transient", "refused"}
State      == {"idle", "live", "buffering", "reconnecting", "catching_up", "closed",
               "failed"}
Source     == {"none", "opening", "open"}
Cycle      == {"none", "backoff", "catchup", "abandoned"}

\* Frames, requests, clients and queues when n operations are accepted and the
\* revision is r: none of them knows of more.
Frame(n, r) == [event : FrameEvent, rev : 0 .. r, ops : SUBSET (1 .. n), missed : Nat]

Get(n, r) ==
  [owner : Owner, since : 0 .. n, status : GetStatus, upto : 0 .. n, rev : 0 .. r]

Client(n, r) ==
  [subscribed : BOOLEAN, state : State, source : Source, broken : BOOLEAN,
   gap : BOOLEAN, orphan : BOOLEAN, buffered : Seq(Frame(n, r)),
   cycle : Cycle, attempts : Nat, applied : SUBSET (1 .. n), rev : 0 .. r,
   gets : Seq(Get(n, r))]

Queue(n, r) == [frames : Seq(Frame(n, r)), missed : Nat, lagged : BOOLEAN]

\* The server's numbers, and everything the client has within them.
Types ==
  /\ accepted \in 0 .. MaxOps /\ canonical \in 0 .. accepted
  /\ revision \in 0 .. canonical /\ sent \subseteq 1 .. canonical
  /\ errors \in 0 .. MaxErrors /\ subscribes \in 0 .. MaxSubscribes
  /\ client \in Client(accepted, revision) /\ q \in Queue(accepted, revision)

\* The requests that hold the gap fence, and those of a reconnect cycle.
Fencing(g)    == {i \in DOMAIN g : g[i].owner # "join"}
Reconnects(g) == {i \in DOMAIN g : g[i].owner = "reconnect"}

\* At most one request is a reconnect's.
Lone(g) == \A i, j \in Reconnects(g) : i = j

\* The fence has an owner or was left by a rejected reconnect; a reconnect request is in flight, alone, exactly
\* while the cycle waits for its catch-up; the cycle backs off within budget.
Sound(c) ==
  /\ c.gap => Fencing(c.gets) # {} \/ c.orphan
  /\ c.cycle = "catchup" <=> Reconnects(c.gets) # {}
  /\ Lone(c.gets)
  /\ c.cycle = "backoff" => c.attempts <= MaxRetries

IInv == Types /\ Sound(client)

-----------------------------------------------------------------------------
(* The requests in flight.                                                 *)

\* One more request.
LEMMA AppendRequest ==
  ASSUME NEW S, NEW g \in Seq(S), NEW x \in S
  PROVE  /\ Append(g, x) \in Seq(S)
         /\ x.owner # "join" => Fencing(Append(g, x)) # {}
         /\ Fencing(g) # {} => Fencing(Append(g, x)) # {}
         /\ x.owner # "reconnect" => Reconnects(Append(g, x)) = Reconnects(g)
         /\ x.owner # "reconnect" /\ Lone(g) => Lone(Append(g, x))
         /\ x.owner = "reconnect" => Reconnects(Append(g, x)) # {}
         /\ Reconnects(g) = {} => Lone(Append(g, x))
<1> DEFINE h == Append(g, x)
<1>1. /\ h \in Seq(S) /\ Len(g) \in Nat
      /\ DOMAIN g = 1 .. Len(g) /\ DOMAIN h = 1 .. Len(g) + 1
      /\ \A i \in DOMAIN g : h[i] = g[i]
      /\ h[Len(g) + 1] = x
  BY AppendProperties, LenProperties
<1> HIDE DEF h
<1>2. x.owner # "join" => Len(g) + 1 \in Fencing(h)
  BY <1>1 DEF Fencing
<1>3. \A i \in Fencing(g) : i \in Fencing(h)
  BY <1>1 DEF Fencing
<1>4. \A i \in DOMAIN h : i \in DOMAIN g \/ i = Len(g) + 1
  BY <1>1
<1>5. \A i : i \in Reconnects(h) <=> (i \in Reconnects(g) \/ (i = Len(g) + 1 /\ x.owner = "reconnect"))
  BY <1>1, <1>4 DEF Reconnects
<1>6. x.owner # "reconnect" => Reconnects(h) = Reconnects(g)
  BY <1>5
<1>7. x.owner # "reconnect" /\ Lone(g) => Lone(h)
  BY <1>5 DEF Lone
<1>8. x.owner = "reconnect" => Len(g) + 1 \in Reconnects(h)
  BY <1>5
<1>9. Reconnects(g) = {} => Lone(h)
  BY <1>5 DEF Lone
<1>10. /\ x.owner # "join" => Fencing(h) # {}
       /\ Fencing(g) # {} => Fencing(h) # {}
       /\ x.owner = "reconnect" => Reconnects(h) # {}
  BY <1>2, <1>3, <1>8
<1> QED BY <1>1, <1>6, <1>7, <1>9, <1>10 DEF h

\* One request less.
LEMMA RemoveRequest ==
  ASSUME NEW S, NEW g \in Seq(S), NEW i \in DOMAIN g
  PROVE  /\ RemoveAt(g, i) \in Seq(S)
         /\ g[i].owner = "join" /\ Fencing(g) # {} => Fencing(RemoveAt(g, i)) # {}
         /\ g[i].owner # "reconnect" =>
              (Reconnects(RemoveAt(g, i)) # {} <=> Reconnects(g) # {})
         /\ Lone(g) => Lone(RemoveAt(g, i))
         /\ g[i].owner = "reconnect" /\ Lone(g) => Reconnects(RemoveAt(g, i)) = {}
<1> DEFINE a == SubSeq(g, 1, i - 1)
           b == SubSeq(g, i + 1, Len(g))
           h == a \o b
<1>1. Len(g) \in Nat /\ DOMAIN g = 1 .. Len(g) /\ i \in 1 .. Len(g)
  BY LenProperties
<1>2. /\ a \in Seq(S) /\ Len(a) = i - 1
      /\ \A k \in 1 .. i - 1 : a[k] = g[k]
  BY <1>1, SubSeqProperties
<1>3. /\ b \in Seq(S) /\ Len(b) = Len(g) - i
      /\ \A k \in 1 .. Len(g) - i : b[k] = g[i + k]
  BY <1>1, SubSeqProperties, SMTT(30)
<1> HIDE DEF a, b
<1>4. /\ h \in Seq(S) /\ Len(h) = Len(g) - 1 /\ DOMAIN h = 1 .. Len(g) - 1
      /\ \A k \in 1 .. Len(g) - 1 : h[k] = IF k <= i - 1 THEN a[k] ELSE b[k - (i - 1)]
  <2>1. /\ h \in Seq(S) /\ Len(h) = Len(a) + Len(b)
        /\ \A k \in 1 .. Len(a) + Len(b) : h[k] = IF k <= Len(a) THEN a[k] ELSE b[k - Len(a)]
    BY <1>2, <1>3, ConcatProperties
  <2>2. Len(a) + Len(b) = Len(g) - 1
    BY <1>1, <1>2, <1>3
  <2>3. DOMAIN h = 1 .. Len(h)
    <3> HIDE DEF h
    <3> QED BY <2>1, LenProperties
  <2> HIDE DEF h
  <2> QED BY <1>2, <2>1, <2>2, <2>3
<1> HIDE DEF h
<1>5. \A k \in 1 .. Len(g) - 1 : h[k] = IF k < i THEN g[k] ELSE g[k + 1]
  <2> SUFFICES ASSUME NEW k \in 1 .. Len(g) - 1
               PROVE  h[k] = IF k < i THEN g[k] ELSE g[k + 1]
    OBVIOUS
  <2>1. CASE k < i
    BY <1>1, <1>2, <1>4, <2>1
  <2>2. CASE ~(k < i)
    <3>1. k - (i - 1) \in 1 .. Len(g) - i /\ i + (k - (i - 1)) = k + 1 /\ ~(k <= i - 1)
      BY <1>1, <2>2
    <3>2. b[k - (i - 1)] = g[i + (k - (i - 1))]
      BY <1>3, <3>1
    <3> QED BY <1>4, <2>2, <3>1, <3>2
  <2> QED BY <2>1, <2>2
<1>6. h = RemoveAt(g, i)
  BY DEF RemoveAt, h, a, b
<1>7. ASSUME NEW j \in DOMAIN g, j # i
      PROVE  \E k \in DOMAIN h : h[k] = g[j]
  <2>1. CASE j < i
    BY <1>1, <1>4, <1>5, <2>1
  <2>2. CASE ~(j < i)
    <3>1. j - 1 \in 1 .. Len(g) - 1 /\ ~(j - 1 < i) /\ (j - 1) + 1 = j
      BY <1>1, <1>7, <2>2
    <3> QED BY <1>4, <1>5, <3>1
  <2> QED BY <2>1, <2>2
<1>8. ASSUME NEW k \in DOMAIN h
      PROVE  \E j \in DOMAIN g : j # i /\ h[k] = g[j] /\ j = IF k < i THEN k ELSE k + 1
  BY <1>1, <1>4, <1>5
<1>9. g[i].owner = "join" /\ Fencing(g) # {} => Fencing(h) # {}
  BY <1>7 DEF Fencing
<1>10. g[i].owner # "reconnect" => (Reconnects(h) # {} <=> Reconnects(g) # {})
  BY <1>7, <1>8 DEF Reconnects
<1>11. Lone(g) => Lone(h)
  <2> SUFFICES ASSUME Lone(g), NEW k \in Reconnects(h), NEW l \in Reconnects(h)
               PROVE  k = l
    BY DEF Lone
  <2>1. k \in DOMAIN h /\ l \in DOMAIN h
    BY DEF Reconnects
  <2>2. PICK x \in DOMAIN g : h[k] = g[x] /\ x = IF k < i THEN k ELSE k + 1
    BY <1>8, <2>1
  <2>3. PICK y \in DOMAIN g : h[l] = g[y] /\ y = IF l < i THEN l ELSE l + 1
    BY <1>8, <2>1
  <2>4. x = y
    BY <2>2, <2>3 DEF Lone, Reconnects
  <2>5. k \in Nat /\ l \in Nat /\ i \in Nat
    BY <1>1, <1>4, <2>1
  <2> QED BY <2>2, <2>3, <2>4, <2>5
<1>12. g[i].owner = "reconnect" /\ Lone(g) => Reconnects(h) = {}
  BY <1>8 DEF Reconnects, Lone
<1> QED BY <1>4, <1>6, <1>9, <1>10, <1>11, <1>12

\* A request changes and keeps its owner.
LEMMA SameOwners ==
  ASSUME NEW g, NEW h, DOMAIN h = DOMAIN g, \A i \in DOMAIN g : h[i].owner = g[i].owner
  PROVE  Fencing(h) = Fencing(g) /\ Reconnects(h) = Reconnects(g) /\ (Lone(h) <=> Lone(g))
<1>1. Fencing(h) = Fencing(g)
  BY DEF Fencing
<1>2. Reconnects(h) = Reconnects(g)
  BY DEF Reconnects
<1> QED BY <1>1, <1>2 DEF Lone

-----------------------------------------------------------------------------
(* What the client computes between two awaits.                            *)

\* The largest member of a nonempty bounded set.
LEMMA MaxProperties ==
  ASSUME NEW n \in Nat, NEW S \in SUBSET (0 .. n), S # {}
  PROVE  Max(S) \in S /\ \A x \in S : x <= Max(S)
<1> DEFINE T == {n - x : x \in S}
<1>1. \A x \in S : x \in Nat /\ n - x \in Nat
  OBVIOUS
<1>2. T \in SUBSET Nat /\ T # {}
  BY <1>1
<1>3. PICK t \in T : \A y \in T : ~(<<y, t>> \in OpToRel(<, Nat))
  BY <1>2, WFMin, NatLessThanWellFounded
<1>4. \A y \in T : ~(y < t)
  BY <1>2, <1>3 DEF OpToRel
<1>5. PICK m \in S : t = n - m
  BY <1>3
<1>6. \A x \in S : m >= x
  <2>1. \A x \in S : ~(n - x < n - m)
    BY <1>4, <1>5
  <2> QED BY <1>1, <2>1
<1>7. Max(S) \in S /\ \A x \in S : Max(S) >= x
  BY <1>6 DEF Max
<1> QED BY <1>1, <1>7

\* What is known is within what is known later.
LEMMA Grows ==
  ASSUME NEW n \in Nat, NEW m \in Nat, n <= m, NEW r \in Nat, NEW t \in Nat, r <= t
  PROVE  /\ Client(n, r) \subseteq Client(m, t) /\ Queue(n, r) \subseteq Queue(m, t)
<1>1. 0 .. n \subseteq 0 .. m /\ 0 .. r \subseteq 0 .. t
        /\ SUBSET (1 .. n) \subseteq SUBSET (1 .. m)
  OBVIOUS
<1>2. Frame(n, r) \subseteq Frame(m, t)
  BY <1>1 DEF Frame
<1>3. Get(n, r) \subseteq Get(m, t)
  BY <1>1 DEF Get
<1>4. Seq(Frame(n, r)) \subseteq Seq(Frame(m, t)) /\ Seq(Get(n, r)) \subseteq Seq(Get(m, t))
  BY <1>2, <1>3, SeqMonotonic
<1>5. Client(n, r) \subseteq Client(m, t)
  BY <1>1, <1>4 DEF Client
<1>6. Queue(n, r) \subseteq Queue(m, t)
  BY <1>4 DEF Queue
<1> QED BY <1>5, <1>6

\* Two client states in the same reconnect cycle, and with the same fence and
\* requests.
SameCycle(c, d) ==
  /\ d.cycle = c.cycle /\ d.attempts = c.attempts
  /\ d.source = c.source /\ d.subscribed = c.subscribed

Alike(c, d) ==
  SameCycle(c, d) /\ d.gap = c.gap /\ d.orphan = c.orphan /\ d.gets = c.gets

\* #catchUp adds its request and touches nothing else.
LEMMA FetchFacts ==
  ASSUME NEW n \in Nat, NEW r \in Nat, NEW c \in Client(n, r), NEW o \in Owner
  PROVE  /\ Fetch(c, o) \in Client(n, r)
         /\ \E x \in Get(n, r) : x.owner = o /\ Fetch(c, o).gets = Append(c.gets, x)
         /\ Fetch(c, o).gap = c.gap /\ Fetch(c, o).orphan = c.orphan
         /\ SameCycle(c, Fetch(c, o))
<1> DEFINE W == c.applied \cup {0}
           x == Request(o, Watermark(c))
<1>1. W \in SUBSET (0 .. n) /\ W # {}
  BY DEF Client
<1>2. Max(W) \in 0 .. n
  <2> HIDE DEF W
  <2> QED BY <1>1, MaxProperties
<1>3. Watermark(c) \in 0 .. n
  BY <1>2 DEF Watermark
<1>4. x \in Get(n, r) /\ x.owner = o
  BY <1>3 DEF Request, Get, GetStatus
<1> HIDE DEF x
<1>5. c.gets \in Seq(Get(n, r)) /\ Append(c.gets, x) \in Seq(Get(n, r))
  BY <1>4, AppendRequest DEF Client
<1>6. Fetch(c, o) = [c EXCEPT !.gets = Append(c.gets, x)]
  BY DEF Fetch, x
<1>7. Fetch(c, o) \in Client(n, r) /\ Fetch(c, o).gets = Append(c.gets, x)
  BY <1>5, <1>6 DEF Client
<1>8. /\ Fetch(c, o).gap = c.gap /\ Fetch(c, o).orphan = c.orphan
      /\ SameCycle(c, Fetch(c, o))
  BY <1>6 DEF Client, SameCycle
<1> QED BY <1>4, <1>7, <1>8

\* A catch-up answer or a canonical event: operations and a revision.
Learn(c, ops, x) == [ApplyOperations(c, ops) EXCEPT !.rev = Max({@, x})]

\* Operations are applied; the revision is never walked back.
LEMMA ApplyFacts ==
  ASSUME NEW n \in Nat, NEW r \in Nat, NEW c \in Client(n, r),
         NEW ops \in SUBSET (1 .. n), NEW x \in 0 .. r
  PROVE  /\ Learn(c, ops, x) \in Client(n, r) /\ Alike(c, Learn(c, ops, x))
         /\ Learn(c, ops, x).buffered = c.buffered
<1> DEFINE R == {c.rev, x}
           b == [c EXCEPT !.applied = c.applied \cup ops]
           d == [b EXCEPT !.rev = Max(R)]
<1>1. R \in SUBSET (0 .. r) /\ R # {}
  BY DEF Client
<1>2. Max(R) \in 0 .. r
  <2> HIDE DEF R
  <2> QED BY <1>1, MaxProperties
<1> HIDE DEF R
<1>3. b \in Client(n, r) /\ Alike(c, b) /\ b.rev = c.rev /\ b.buffered = c.buffered
  BY DEF Client, Alike, SameCycle
<1> HIDE DEF b
<1>4. d \in Client(n, r) /\ Alike(b, d) /\ d.buffered = b.buffered
  BY <1>2, <1>3 DEF Client, Alike, SameCycle
<1>5. d = Learn(c, ops, x)
  BY <1>3 DEF Learn, ApplyOperations, b, R
<1> HIDE DEF d
<1> QED BY <1>3, <1>4, <1>5 DEF Alike, SameCycle

\* The answered or failed request is taken away, and what it brought is applied.
LEMMA CatchUpFacts ==
  ASSUME NEW n \in Nat, NEW r \in Nat, NEW c \in Client(n, r), NEW i \in DOMAIN c.gets
  PROVE  LET d == CatchUp(c, i)
         IN  /\ d \in Client(n, r) /\ SameCycle(c, d)
             /\ d.gets = RemoveAt(c.gets, i) /\ d.gap = c.gap /\ d.orphan = c.orphan
             /\ d.buffered = c.buffered
<1> DEFINE g == c.gets[i]
           b == [c EXCEPT !.gets = RemoveAt(c.gets, i)]
<1>1. c.gets \in Seq(Get(n, r))
  BY DEF Client
<1>2. RemoveAt(c.gets, i) \in Seq(Get(n, r))
  BY <1>1, RemoveRequest
<1>3. /\ b \in Client(n, r) /\ SameCycle(c, b)
      /\ b.gets = RemoveAt(c.gets, i) /\ b.gap = c.gap /\ b.orphan = c.orphan
      /\ b.buffered = c.buffered
  BY <1>2 DEF Client, SameCycle
<1>4. g \in Get(n, r)
  BY <1>1, ElementOfSeq, LenProperties
<1> DEFINE ops == g.since + 1 .. g.upto
           x == g.rev
<1>5. ops \in SUBSET (1 .. n) /\ x \in 0 .. r
  BY <1>4 DEF Get
<1> DEFINE d == Learn(b, ops, x)
<1>6. CatchUp(c, i) = IF g.status = "answered" THEN d ELSE b
  BY DEF CatchUp, Learn
<1> HIDE DEF b, g, ops, x
<1>7. d \in Client(n, r) /\ Alike(b, d) /\ d.buffered = b.buffered
  BY <1>3, <1>5, ApplyFacts
<1> HIDE DEF d
<1> QED BY <1>3, <1>6, <1>7 DEF Alike, SameCycle

\* What delivering events may do to the fence and the requests: the cycle is
\* left alone, and a fence that goes up has a request.
Delivered(n, r, c, d) ==
  /\ d \in Client(n, r) /\ SameCycle(c, d) /\ d.orphan = c.orphan
  /\ Reconnects(d.gets) = Reconnects(c.gets)
  /\ d.gap => c.gap \/ Fencing(d.gets) # {}
  /\ Fencing(c.gets) # {} => Fencing(d.gets) # {}

\* Deliveries add up.
LEMMA DeliveredTransitive ==
  ASSUME NEW n, NEW r, NEW c, NEW d, NEW e, Delivered(n, r, c, d), Delivered(n, r, d, e)
  PROVE  Delivered(n, r, c, e)
BY DEF Delivered, SameCycle

\* #recoverMissedEvents raises the fence together with the request that takes it
\* down, and never during a reconnect cycle.
LEMMA RecoverFacts ==
  ASSUME NEW n \in Nat, NEW r \in Nat, NEW c \in Client(n, r)
  PROVE  Delivered(n, r, c, RecoverMissedEvents(c))
<1> DEFINE b == [c EXCEPT !.gap = TRUE, !.buffered = <<>>, !.state = "catching_up"]
<1>1. <<>> \in Seq(Frame(n, r))
  BY EmptySeq
<1>2. b \in Client(n, r) /\ SameCycle(c, b) /\ b.gets = c.gets /\ b.orphan = c.orphan
  BY <1>1 DEF Client, SameCycle, State
<1>3. CASE c.gap \/ c.cycle # "none"
  BY <1>3 DEF RecoverMissedEvents, Delivered, SameCycle
<1>4. CASE ~(c.gap \/ c.cycle # "none")
  <2> DEFINE d == Fetch(b, "recover")
  <2>1. d = RecoverMissedEvents(c)
    BY <1>4 DEF RecoverMissedEvents
  <2> HIDE DEF b
  <2>2. /\ d \in Client(n, r) /\ SameCycle(b, d) /\ d.orphan = b.orphan
        /\ \E x \in Get(n, r) : x.owner = "recover" /\ d.gets = Append(b.gets, x)
    <3>1. "recover" \in Owner
      BY DEF Owner
    <3>2. d \in Client(n, r) /\ SameCycle(b, d) /\ d.orphan = b.orphan
      BY <1>2, <3>1, FetchFacts
    <3>3. \E x \in Get(n, r) : x.owner = "recover" /\ d.gets = Append(b.gets, x)
      BY <1>2, <3>1, FetchFacts
    <3> QED BY <3>2, <3>3
  <2> HIDE DEF d
  <2>3. PICK x \in Get(n, r) : x.owner = "recover" /\ d.gets = Append(c.gets, x)
    BY <1>2, <2>2
  <2>4. c.gets \in Seq(Get(n, r))
    BY DEF Client
  <2>5. Fencing(d.gets) # {} /\ Reconnects(d.gets) = Reconnects(c.gets)
    BY <2>3, <2>4, AppendRequest
  <2> QED BY <1>2, <2>1, <2>2, <2>5 DEF Delivered, SameCycle
<1> QED BY <1>3, <1>4

\* One event.
LEMMA DeliverFacts ==
  ASSUME NEW n \in Nat, NEW r \in Nat, NEW c \in Client(n, r), NEW f \in Frame(n, r)
  PROVE  Delivered(n, r, c, DeliverEvent(c, f))
<1>1. f.event \in FrameEvent /\ f.ops \in SUBSET (1 .. n) /\ f.rev \in 0 .. r
  BY DEF Frame
<1>2. CASE f.event \in {"canonical", "snapshot"}
  <2> DEFINE d == Learn(c, f.ops, f.rev)
  <2>1. d = DeliverEvent(c, f)
    BY <1>2 DEF DeliverEvent, ApplyCanonicalEvent, Learn
  <2>2. d \in Client(n, r) /\ Alike(c, d)
    BY <1>1, ApplyFacts
  <2> HIDE DEF d
  <2> QED BY <2>1, <2>2 DEF Delivered, Alike
<1>3. CASE f.event = "heartbeat"
  <2>1. DeliverEvent(c, f) = IF f.missed > 0 THEN RecoverMissedEvents(c) ELSE c
    BY <1>3 DEF DeliverEvent
  <2>2. Delivered(n, r, c, c)
    BY DEF Delivered, SameCycle
  <2> QED BY <2>1, <2>2, RecoverFacts
<1> QED BY <1>1, <1>2, <1>3 DEF FrameEvent

\* A nonempty set of naturals has a least member.
LEMMA LeastNumber ==
  ASSUME NEW T \in SUBSET Nat, T # {}
  PROVE  \E x \in T : \A y \in T : x <= y
<1>1. PICK x \in T : \A y \in T : ~(<<y, x>> \in OpToRel(<, Nat))
  BY WFMin, NatLessThanWellFounded
<1>2. \A y \in T : ~(y < x)
  BY <1>1 DEF OpToRel
<1> QED BY <1>2

\* The function the recursion of Flushing defines exists: a shortest prefix of the
\* buffer without one would have one, built from that of the prefix before it.
LEMMA FlushingEquation ==
  ASSUME NEW c, Len(c.buffered) \in Nat
  PROVE  \A n \in 0 .. Len(c.buffered) :
           Flushing(c)[n] = IF n = 0 THEN [c EXCEPT !.buffered = <<>>]
                            ELSE DeliverEvent(Flushing(c)[n - 1], c.buffered[n])
<1> DEFINE N == Len(c.buffered)
           z == [c EXCEPT !.buffered = <<>>]
           F(g, m) == g = [n \in 0 .. m |-> IF n = 0 THEN z
                                            ELSE DeliverEvent(g[n - 1], c.buffered[n])]
           Bad == {m \in 0 .. N : ~\E g : F(g, m)}
<1>1. Bad = {}
  <2> SUFFICES ASSUME Bad # {} PROVE FALSE
    OBVIOUS
  <2>0. Bad \in SUBSET Nat
    OBVIOUS
  <2>1. PICK m \in Bad : \A y \in Bad : m <= y
    BY <2>0, LeastNumber
  <2>2. m \in 0 .. N /\ ~\E g : F(g, m)
    BY <2>1
  <2> HIDE DEF z
  <2>3. CASE m = 0
    <3> DEFINE g == [n \in 0 .. 0 |-> z]
    <3>1. F(g, 0)
      OBVIOUS
    <3> QED BY <2>2, <2>3, <3>1
  <2>4. CASE m # 0
    <3>1. m - 1 \in 0 .. N /\ ~(m <= m - 1)
      BY <2>2, <2>4
    <3>2. m - 1 \notin Bad
      <4> HIDE DEF Bad
      <4> QED BY <2>1, <3>1
    <3>3. PICK h : F(h, m - 1)
      BY <3>1, <3>2
    <3> DEFINE g == [n \in 0 .. m |-> IF n = m THEN DeliverEvent(h[m - 1], c.buffered[m])
                                      ELSE h[n]]
    <3>4. \A n \in 0 .. m - 1 : g[n] = h[n]
      BY <2>2, <2>4
    <3>5. \A n \in 0 .. m - 1 : h[n] = IF n = 0 THEN z
                                       ELSE DeliverEvent(h[n - 1], c.buffered[n])
      <4> HIDE DEF Bad, N
      <4> QED BY <3>3, Zenon
    <3>6. \A n \in 0 .. m : g[n] = IF n = 0 THEN z
                                   ELSE DeliverEvent(g[n - 1], c.buffered[n])
      <4>1. SUFFICES ASSUME NEW n \in 0 .. m
                     PROVE  g[n] = IF n = 0 THEN z
                                   ELSE DeliverEvent(g[n - 1], c.buffered[n])
        OBVIOUS
      <4>2. CASE n = m
        <5>1. g[m] = DeliverEvent(h[m - 1], c.buffered[m]) /\ g[m - 1] = h[m - 1]
          BY <2>2, <2>4, <3>4
        <5> HIDE DEF g
        <5> QED BY <2>4, <4>2, <5>1
      <4>3. CASE n # m
        <5>1. n \in 0 .. m - 1 /\ (n # 0 => n - 1 \in 0 .. m - 1)
          BY <2>2, <4>3
        <5> HIDE DEF g
        <5> QED BY <3>4, <3>5, <5>1
      <4> QED BY <4>2, <4>3
    <3>7. F(g, m)
      <4>1. g = [n \in 0 .. m |-> g[n]]
        OBVIOUS
      <4> HIDE DEF g
      <4> QED BY <3>6, <4>1
    <3> QED BY <2>2, <3>7
  <2> QED BY <2>3, <2>4
<1>2. N \in 0 .. N
  OBVIOUS
<1>3. \E g : F(g, N)
  BY <1>1, <1>2
<1>4. Flushing(c) = CHOOSE g : F(g, N)
  BY DEF Flushing
<1> HIDE DEF F
<1>5. F(Flushing(c), N)
  BY <1>3, <1>4
<1> HIDE DEF z, N
<1>6. \A n \in 0 .. N : Flushing(c)[n] = IF n = 0 THEN z
                         ELSE DeliverEvent(Flushing(c)[n - 1], c.buffered[n])
  BY <1>5, Zenon DEF F
<1> QED BY <1>6 DEF z, N

\* The flush delivers what was buffered and nothing else, however far it gets.
LEMMA FlushFacts ==
  ASSUME NEW n \in Nat, NEW r \in Nat, NEW c \in Client(n, r)
  PROVE  /\ \A k \in 0 .. Len(c.buffered) : Delivered(n, r, c, Flushing(c)[k])
         /\ Delivered(n, r, c, Flush(c))
<1> DEFINE N == Len(c.buffered)
           z == [c EXCEPT !.buffered = <<>>]
           D(k) == Delivered(n, r, c, Flushing(c)[k])
           Bad == {k \in 0 .. N : ~D(k)}
<1>1. c.buffered \in Seq(Frame(n, r))
  BY DEF Client
<1>2. N \in Nat /\ \A k \in 1 .. N : c.buffered[k] \in Frame(n, r)
  BY <1>1, LenProperties, ElementOfSeq
<1>3. <<>> \in Seq(Frame(n, r))
  BY EmptySeq
<1>4. z \in Client(n, r) /\ Alike(c, z)
  BY <1>3 DEF Client, Alike, SameCycle
<1>5. Delivered(n, r, c, z)
  BY <1>4 DEF Delivered, Alike
<1>6. \A k \in 0 .. N : Flushing(c)[k] = IF k = 0 THEN z
                         ELSE DeliverEvent(Flushing(c)[k - 1], c.buffered[k])
  BY <1>2, FlushingEquation
<1> HIDE DEF z, N
<1>7. Bad = {}
  <2> SUFFICES ASSUME Bad # {} PROVE FALSE
    OBVIOUS
  <2>0. Bad \in SUBSET Nat
    BY <1>2
  <2>1. PICK k \in Bad : \A y \in Bad : k <= y
    BY <2>0, LeastNumber
  <2>2. k \in 0 .. N /\ ~D(k)
    BY <2>1
  <2>3. CASE k = 0
    BY <1>5, <1>6, <2>2, <2>3
  <2>4. CASE k # 0
    <3>1. k - 1 \in 0 .. N /\ ~(k <= k - 1) /\ k \in 1 .. N
      BY <1>2, <2>2, <2>4
    <3>2. k - 1 \notin Bad
      <4> HIDE DEF Bad
      <4> QED BY <2>1, <3>1
    <3>3. D(k - 1)
      BY <3>1, <3>2
    <3> DEFINE p == Flushing(c)[k - 1]
               f == c.buffered[k]
    <3>4. Delivered(n, r, c, p) /\ p \in Client(n, r) /\ f \in Frame(n, r)
      BY <1>2, <3>1, <3>3 DEF Delivered
    <3>5. Flushing(c)[k] = DeliverEvent(p, f)
      BY <1>6, <2>2, <2>4
    <3> HIDE DEF p, f
    <3>6. Delivered(n, r, p, DeliverEvent(p, f))
      BY <3>4, DeliverFacts
    <3>7. Delivered(n, r, c, DeliverEvent(p, f))
      BY <3>4, <3>6, DeliveredTransitive
    <3> QED BY <2>2, <3>5, <3>7
  <2> QED BY <2>3, <2>4
<1>8. N \in 0 .. N
  BY <1>2
<1>9. \A k \in 0 .. N : D(k)
  BY <1>7
<1> QED BY <1>8, <1>9 DEF Flush, N

-----------------------------------------------------------------------------
(* The requests of a sound client.                                         *)

\* Soundness depends on the fence, the cycle and who owns which request.
LEMMA SoundDelivered ==
  ASSUME NEW n, NEW r, NEW c, NEW d, Sound(c), Delivered(n, r, c, d)
  PROVE  Sound(d)
BY DEF Sound, Delivered, SameCycle, Lone

\* A join request may come at any time.
LEMMA JoinSound ==
  ASSUME NEW n \in Nat, NEW r \in Nat, NEW c \in Client(n, r), Sound(c)
  PROVE  Fetch(c, "join") \in Client(n, r) /\ Sound(Fetch(c, "join"))
<1> DEFINE d == Fetch(c, "join")
<1>1. /\ d \in Client(n, r) /\ d.gap = c.gap /\ d.orphan = c.orphan /\ SameCycle(c, d)
      /\ \E x \in Get(n, r) : x.owner = "join" /\ d.gets = Append(c.gets, x)
  BY FetchFacts DEF Owner
<1>2. PICK x \in Get(n, r) : x.owner = "join" /\ d.gets = Append(c.gets, x)
  BY <1>1
<1> HIDE DEF d
<1>3. c.gets \in Seq(Get(n, r))
  BY DEF Client
<1>4. /\ Fencing(c.gets) # {} => Fencing(d.gets) # {}
      /\ Reconnects(d.gets) = Reconnects(c.gets)
  BY <1>2, <1>3, AppendRequest
<1>5. Sound(d)
  BY <1>1, <1>4 DEF Sound, SameCycle, Lone
<1> QED BY <1>1, <1>5 DEF d

\* The reconnect request comes when no other is in flight, and holds the fence.
LEMMA ReconnectSound ==
  ASSUME NEW n \in Nat, NEW r \in Nat, NEW c \in Client(n, r),
         Reconnects(c.gets) = {}, c.cycle = "catchup"
  PROVE  Fetch(c, "reconnect") \in Client(n, r) /\ Sound(Fetch(c, "reconnect"))
<1> DEFINE d == Fetch(c, "reconnect")
<1>1. /\ d \in Client(n, r) /\ d.gap = c.gap /\ d.orphan = c.orphan /\ SameCycle(c, d)
      /\ \E x \in Get(n, r) : x.owner = "reconnect" /\ d.gets = Append(c.gets, x)
  BY FetchFacts DEF Owner
<1>2. PICK x \in Get(n, r) : x.owner = "reconnect" /\ d.gets = Append(c.gets, x)
  BY <1>1
<1> HIDE DEF d
<1>3. c.gets \in Seq(Get(n, r))
  BY DEF Client
<1>4. Fencing(d.gets) # {} /\ Reconnects(d.gets) # {} /\ Lone(d.gets)
  BY <1>2, <1>3, AppendRequest
<1>5. Sound(d)
  BY <1>1, <1>4 DEF Sound, SameCycle
<1> QED BY <1>1, <1>5 DEF d

\* A request that is not a reconnect's ends; the fence comes down with it or was
\* another's.
LEMMA OtherEnds ==
  ASSUME NEW n \in Nat, NEW r \in Nat, NEW c \in Client(n, r), Sound(c),
         NEW i \in DOMAIN c.gets, c.gets[i].owner # "reconnect"
  PROVE  /\ c.gets[i].owner = "join" => Sound(CatchUp(c, i))
         /\ Sound(ClearGap(CatchUp(c, i))) /\ ClearGap(CatchUp(c, i)) \in Client(n, r)
         /\ SameCycle(c, ClearGap(CatchUp(c, i))) /\ ~ClearGap(CatchUp(c, i)).gap
<1> DEFINE d == CatchUp(c, i)
           e == ClearGap(d)
<1>1. /\ d \in Client(n, r) /\ SameCycle(c, d)
      /\ d.gets = RemoveAt(c.gets, i) /\ d.gap = c.gap /\ d.orphan = c.orphan
  BY CatchUpFacts
<1>2. c.gets \in Seq(Get(n, r))
  BY DEF Client
<1> HIDE DEF d
<1>3. /\ c.gets[i].owner = "join" /\ Fencing(c.gets) # {} => Fencing(d.gets) # {}
      /\ Reconnects(d.gets) # {} <=> Reconnects(c.gets) # {}
      /\ Lone(d.gets)
  BY <1>1, <1>2, RemoveRequest DEF Sound
<1>4. e \in Client(n, r) /\ SameCycle(d, e) /\ e.gets = d.gets /\ ~e.gap
  BY <1>1 DEF ClearGap, Client, SameCycle
<1> HIDE DEF e
<1>5. Sound(e) /\ SameCycle(c, e)
  BY <1>1, <1>3, <1>4 DEF Sound, SameCycle
<1>6. c.gets[i].owner = "join" => Sound(d)
  BY <1>1, <1>3 DEF Sound, SameCycle
<1> QED BY <1>4, <1>5, <1>6 DEF d, e

\* The reconnect request ends: none is left.
LEMMA ReconnectEnds ==
  ASSUME NEW n \in Nat, NEW r \in Nat, NEW c \in Client(n, r), Sound(c),
         NEW i \in DOMAIN c.gets, c.gets[i].owner = "reconnect"
  PROVE  LET d == CatchUp(c, i)
         IN  /\ d \in Client(n, r) /\ SameCycle(c, d)
             /\ Reconnects(d.gets) = {}
<1> DEFINE d == CatchUp(c, i)
<1>1. d \in Client(n, r) /\ SameCycle(c, d) /\ d.gets = RemoveAt(c.gets, i)
  BY CatchUpFacts
<1>2. c.gets \in Seq(Get(n, r))
  BY DEF Client
<1> HIDE DEF d
<1>3. Reconnects(d.gets) = {}
  BY <1>1, <1>2, RemoveRequest DEF Sound
<1> QED BY <1>1, <1>3 DEF d

\* The fence comes down.
LEMMA ClearGapFacts ==
  ASSUME NEW n, NEW r, NEW c \in Client(n, r)
  PROVE  /\ ClearGap(c) \in Client(n, r) /\ SameCycle(c, ClearGap(c))
         /\ ClearGap(c).gets = c.gets /\ ClearGap(c).gap = FALSE
BY DEF ClearGap, Client, SameCycle

\* A rejected cycle leaves no request of its own, and the fence to nobody.
LEMMA RejectedSound ==
  ASSUME NEW n, NEW r, NEW c \in Client(n, r), Reconnects(c.gets) = {}
  PROVE  Rejected(c) \in Client(n, r) /\ Sound(Rejected(c))
<1> DEFINE d == Rejected(c)
<1>1. d \in Client(n, r) /\ d.gets = c.gets /\ d.cycle = "none" /\ d.orphan
  BY DEF Rejected, Client, State, Cycle
<1> HIDE DEF d
<1>2. Sound(d)
  BY <1>1 DEF Sound, Lone
<1> QED BY <1>1, <1>2 DEF d

\* The stream is closed.
LEMMA CloseFacts ==
  ASSUME NEW n, NEW r, NEW c \in Client(n, r)
  PROVE  /\ CloseSource(c) \in Client(n, r) /\ CloseSource(c).gets = c.gets
         /\ CloseSource(c).gap = c.gap /\ CloseSource(c).orphan = c.orphan
         /\ CloseSource(c).cycle = c.cycle
         /\ CloseSource(c).attempts = c.attempts
BY DEF CloseSource, Client, Source

\* A client without a fence's owner or a reconnect request backs off within its
\* budget or fails.
LEMMA AttemptSound ==
  ASSUME NEW n, NEW r, NEW c \in Client(n, r),
         c.gap => Fencing(c.gets) # {} \/ c.orphan, Reconnects(c.gets) = {}
  PROVE  StartAttempt(c) \in Client(n, r) /\ Sound(StartAttempt(c))
<1> DEFINE d == StartAttempt(c)
           k == c.attempts + 1
<1>1. k \in Nat /\ MaxRetries \in Nat
  BY ClientAssumption DEF Client
<1>2. CASE k > MaxRetries
  <2>1. d = [c EXCEPT !.attempts = k, !.cycle = "none", !.state = "failed"]
    BY <1>2 DEF StartAttempt
  <2> HIDE DEF k
  <2>2. /\ d \in Client(n, r) /\ d.cycle = "none" /\ d.gap = c.gap /\ d.gets = c.gets
        /\ d.orphan = c.orphan
    BY <1>1, <2>1 DEF Client, Cycle, State
  <2> HIDE DEF d
  <2>3. Sound(d)
    BY <2>2 DEF Sound, Lone
  <2> QED BY <2>2, <2>3 DEF d
<1>3. CASE ~(k > MaxRetries)
  <2>1. d = [c EXCEPT !.attempts = k, !.cycle = "backoff",
                      !.state = "reconnecting"]
    BY <1>3 DEF StartAttempt
  <2> HIDE DEF k
  <2>2. /\ d \in Client(n, r) /\ d.cycle = "backoff" /\ d.gap = c.gap /\ d.gets = c.gets
        /\ d.attempts = k /\ d.orphan = c.orphan
    BY <1>1, <2>1 DEF Client, Cycle, State
  <2> HIDE DEF d
  <2>3. Sound(d)
    BY <1>1, <1>3, <2>2 DEF Sound, Lone
  <2> QED BY <2>2, <2>3 DEF d
<1> QED BY <1>2, <1>3

\* A stream error never starts a second cycle.
LEMMA ErrorSound ==
  ASSUME NEW n, NEW r, NEW c \in Client(n, r), Sound(c)
  PROVE  OnStreamError(c) \in Client(n, r) /\ Sound(OnStreamError(c))
<1> DEFINE b == CloseSource(c)
<1>1. /\ b \in Client(n, r) /\ b.gets = c.gets
      /\ b.gap = c.gap /\ b.orphan = c.orphan /\ b.cycle = c.cycle
      /\ b.attempts = c.attempts
  BY CloseFacts
<1>2. OnStreamError(c) = IF c.cycle # "none" THEN [b EXCEPT !.broken = TRUE]
                                             ELSE StartAttempt(b)
  BY DEF OnStreamError
<1> HIDE DEF b
<1>3. CASE c.cycle # "none"
  <2> DEFINE d == [b EXCEPT !.broken = TRUE]
  <2>1. /\ d \in Client(n, r) /\ d.gets = b.gets
        /\ d.gap = b.gap /\ d.orphan = b.orphan /\ d.cycle = b.cycle
        /\ d.attempts = b.attempts
    BY <1>1 DEF Client
  <2> HIDE DEF d
  <2>2. Sound(d)
    BY <1>1, <2>1 DEF Sound
  <2> QED BY <1>2, <1>3, <2>1, <2>2 DEF d
<1>4. CASE c.cycle = "none"
  <2>1. (b.gap => Fencing(b.gets) # {} \/ b.orphan) /\ Reconnects(b.gets) = {}
    BY <1>1, <1>4 DEF Sound
  <2> QED BY <1>1, <1>2, <1>4, <2>1, AttemptSound
<1> QED BY <1>3, <1>4

-----------------------------------------------------------------------------
(* The stream's queue.                                                     *)

\* A frame joins the queue, and drops the oldest one when it is full.
LEMMA PutFacts ==
  ASSUME NEW n \in Nat, NEW r \in Nat, NEW Q \in Queue(n, r), NEW f \in Frame(n, r)
  PROVE  Put(Q, f, QueueSize) \in Queue(n, r) /\ PutPrivileged(Q, f) \in Queue(n, r)
<1>1. Q.frames \in Seq(Frame(n, r)) /\ Q.missed \in Nat
  BY DEF Queue
<1>2. Append(Q.frames, f) \in Seq(Frame(n, r))
  BY <1>1, AppendProperties
<1>3. PutPrivileged(Q, f) \in Queue(n, r)
  BY <1>2 DEF PutPrivileged, Queue
<1>4. CASE Len(Q.frames) < QueueSize
  BY <1>3, <1>4 DEF Put
<1>5. CASE ~(Len(Q.frames) < QueueSize)
  <2>1. Q.frames # <<>>
    BY <1>5, EmptySeq, ClientAssumption
  <2>2. Tail(Q.frames) \in Seq(Frame(n, r))
    BY <1>1, <2>1, HeadTailProperties
  <2>3. Append(Tail(Q.frames), f) \in Seq(Frame(n, r))
    BY <2>2, AppendProperties
  <2>4. Put(Q, f, QueueSize) = [frames |-> Append(Tail(Q.frames), f),
                                missed |-> Q.missed + 1, lagged |-> TRUE]
    BY <1>5 DEF Put
  <2> QED BY <1>1, <1>3, <2>3, <2>4 DEF Queue
<1> QED BY <1>3, <1>4, <1>5

\* A heartbeat joins the queue or takes a pending one's place.
LEMMA PutHeartbeatFacts ==
  ASSUME NEW n \in Nat, NEW r \in Nat, NEW Q \in Queue(n, r), NEW h \in Frame(n, r)
  PROVE  PutHeartbeat(Q, h) \in Queue(n, r)
<1> DEFINE P == PendingHeartbeats(Q)
           k == Min(P)
<1>1. Q.frames \in Seq(Frame(n, r))
  BY DEF Queue
<1>2. CASE P = {}
  BY <1>2, PutFacts DEF PutHeartbeat
<1>3. CASE P # {}
  <2> DEFINE g == [Q.frames EXCEPT ![k] = h]
  <2>1. PutHeartbeat(Q, h) = [Q EXCEPT !.frames = g]
    BY <1>3 DEF PutHeartbeat
  <2> HIDE DEF k
  <2>2. g \in Seq(Frame(n, r))
    <3>1. Len(Q.frames) \in Nat /\ Q.frames \in [1 .. Len(Q.frames) -> Frame(n, r)]
      BY <1>1, LenProperties, ElementOfSeq
    <3>2. g \in [1 .. Len(Q.frames) -> Frame(n, r)]
      BY <3>1
    <3> QED BY <3>1, <3>2, SeqDef
  <2> HIDE DEF g
  <2> QED BY <2>1, <2>2 DEF Queue
<1> QED BY <1>2, <1>3

\* The frames the server makes.
LEMMA FramesMade ==
  ASSUME NEW n \in Nat, NEW r \in Nat
  PROVE  /\ \A ops \in SUBSET (1 .. n) : CanonicalFrame(r, ops) \in Frame(n, r)
         /\ SnapshotFrame(r) \in Frame(n, r)
         /\ \A m \in Nat : HeartbeatFrame(m) \in Frame(n, r)
         /\ NewQueue \in Queue(n, r)
<1>1. \A ops \in SUBSET (1 .. n) : CanonicalFrame(r, ops) \in Frame(n, r)
  BY DEF CanonicalFrame, Frame, FrameEvent
<1>2. SnapshotFrame(r) \in Frame(n, r)
  BY DEF SnapshotFrame, Frame, FrameEvent
<1>3. \A m \in Nat : HeartbeatFrame(m) \in Frame(n, r)
  BY DEF HeartbeatFrame, Frame, FrameEvent
<1>4. <<>> \in Seq(Frame(n, r))
  BY EmptySeq
<1>5. NewQueue \in Queue(n, r)
  BY <1>4 DEF NewQueue, Queue
<1> QED BY <1>1, <1>2, <1>3, <1>5

-----------------------------------------------------------------------------
(* Every action preserves the invariant.                                   *)

\* No client and no queue at the start.
LEMMA InitInvariant == Init => IInv
<1> SUFFICES ASSUME Init PROVE IInv
  OBVIOUS
<1> USE ClientAssumption
<1>1. <<>> \in Seq(Frame(0, 0)) /\ <<>> \in Seq(Get(0, 0))
  BY EmptySeq
<1>2. NewClient \in Client(0, 0)
  BY <1>1 DEF NewClient, Client, State, Source, Cycle
<1>3. NewQueue \in Queue(0, 0)
  BY FramesMade
<1>4. Types
  BY <1>2, <1>3 DEF Init, Types
<1>5. Reconnects(client.gets) = {} /\ client.gap = FALSE /\ client.cycle = "none"
  <2>1. client.gets = <<>> /\ client.gap = FALSE /\ client.cycle = "none"
    BY DEF Init, NewClient
  <2>2. DOMAIN client.gets = {}
    BY <2>1
  <2> QED BY <2>1, <2>2 DEF Reconnects
<1> QED BY <1>4, <1>5 DEF IInv, Sound, Lone

\* Steps of the client alone: its next state and the queue that goes with it.
LEMMA BecomeInvariant ==
  ASSUME IInv, UNCHANGED serverVars,
         errors' \in 0 .. MaxErrors, subscribes' \in 0 .. MaxSubscribes,
         NEW c \in Client(accepted, revision), Sound(c),
         NEW Q \in Queue(accepted, revision), Become(c, Q)
  PROVE  IInv'
<1>1. accepted \in Nat /\ revision \in Nat
  BY ClientAssumption DEF IInv, Types
<1>2. NewQueue \in Queue(accepted, revision)
  BY <1>1, FramesMade
<1>3. client' = c /\ q' \in Queue(accepted, revision)
  BY <1>2 DEF Become
<1>4. Types'
  BY <1>3 DEF IInv, Types, serverVars
<1>5. Sound(client')
  BY <1>3
<1> QED BY <1>4, <1>5 DEF IInv

\* The server's steps.
LEMMA ServerInvariant ==
  ASSUME IInv, Accept \/ CommitEpoch \/ Heartbeat \/ Register
  PROVE  IInv'
<1> USE ClientAssumption
<1>1. /\ accepted \in Nat /\ revision \in Nat /\ canonical \in Nat
      /\ client \in Client(accepted, revision) /\ q \in Queue(accepted, revision)
      /\ Sound(client)
  BY DEF IInv, Types
<1>2. CASE Accept
  <2>1. /\ accepted' = accepted + 1 /\ accepted + 1 \in 0 .. MaxOps
        /\ UNCHANGED <<canonical, revision, sent, q, client, errors, subscribes>>
    BY <1>1, <1>2 DEF Accept
  <2>2. client \in Client(accepted + 1, revision) /\ q \in Queue(accepted + 1, revision)
    BY <1>1, Grows
  <2>3. canonical \in 0 .. accepted + 1
    BY <1>1 DEF IInv, Types
  <2> QED BY <1>1, <2>1, <2>2, <2>3 DEF IInv, Types
<1>3. CASE CommitEpoch
  <2> DEFINE ops == canonical + 1 .. accepted
             r == revision + 1
  <2>1. /\ canonical' = accepted /\ revision' = r
        /\ UNCHANGED <<accepted, client, errors, subscribes>>
        /\ \/ q' = Put(q, CanonicalFrame(r, ops), QueueSize) /\ sent' = sent \cup ops
           \/ q' = q /\ sent' = sent
    BY <1>3 DEF CommitEpoch
  <2>2. ops # {} /\ canonical <= accepted /\ revision <= canonical
    BY <1>1, <1>3 DEF CommitEpoch, IInv, Types
  <2>3. r \in Nat /\ revision <= r /\ r \in 0 .. accepted
    BY <1>1, <2>2
  <2>4. ops \in SUBSET (1 .. accepted) /\ sent \cup ops \subseteq 1 .. accepted
        /\ sent \subseteq 1 .. accepted
    BY <1>1, <2>2 DEF IInv, Types
  <2> HIDE DEF ops, r
  <2>5. client \in Client(accepted, r) /\ q \in Queue(accepted, r)
    BY <1>1, <2>3, Grows
  <2>6. Put(q, CanonicalFrame(r, ops), QueueSize) \in Queue(accepted, r)
    BY <1>1, <2>3, <2>4, <2>5, FramesMade, PutFacts
  <2>7. q' \in Queue(accepted, r) /\ sent' \subseteq 1 .. accepted
    BY <2>1, <2>4, <2>5, <2>6
  <2>8. Types'
    BY <1>1, <2>1, <2>3, <2>5, <2>7 DEF IInv, Types
  <2> QED BY <1>1, <2>1, <2>8 DEF IInv
<1>4. CASE Heartbeat
  <2>1. Notice(q) \in Nat /\ NoticeTaken(q) \in Queue(accepted, revision)
    BY <1>1 DEF Notice, NoticeTaken, Queue
  <2>2. HeartbeatFrame(Notice(q)) \in Frame(accepted, revision)
    BY <1>1, <2>1, FramesMade
  <2>3. PutHeartbeat(NoticeTaken(q), HeartbeatFrame(Notice(q))) \in Queue(accepted, revision)
    BY <1>1, <2>1, <2>2, PutHeartbeatFacts
  <2>4. q' \in Queue(accepted, revision) /\ UNCHANGED <<serverVars, client, errors, subscribes>>
    BY <1>4, <2>3 DEF Heartbeat
  <2> QED BY <1>1, <2>4 DEF IInv, Types, serverVars
<1>5. CASE Register
  <2>1. NewQueue \in Queue(accepted, revision) /\ SnapshotFrame(revision) \in Frame(accepted, revision)
    BY <1>1, FramesMade
  <2>2. Put(NewQueue, SnapshotFrame(revision), QueueSize) \in Queue(accepted, revision)
    BY <1>1, <2>1, PutFacts
  <2> DEFINE c == [client EXCEPT !.source = "open"]
  <2>3. /\ c \in Client(accepted, revision) /\ c.gap = client.gap /\ c.gets = client.gets
        /\ c.cycle = client.cycle /\ c.attempts = client.attempts /\ c.orphan = client.orphan
    BY <1>1 DEF Client, Source
  <2>4. client' = c /\ q' \in Queue(accepted, revision) /\ UNCHANGED <<serverVars, errors, subscribes>>
    BY <1>5, <2>2 DEF Register
  <2> HIDE DEF c
  <2>5. Sound(c)
    BY <1>1, <2>3 DEF Sound
  <2> QED BY <2>3, <2>4, <2>5 DEF IInv, Types, serverVars
<1> QED BY <1>2, <1>3, <1>4, <1>5

\* A request is answered or fails; its owner stays.
LEMMA AnswerInvariant ==
  ASSUME IInv, NEW i \in DOMAIN client.gets, AnswerGet(i) \/ FailGet(i)
  PROVE  IInv'
<1> USE ClientAssumption
<1>1. /\ accepted \in Nat /\ revision \in Nat
      /\ client \in Client(accepted, revision) /\ q \in Queue(accepted, revision)
      /\ Sound(client)
  BY DEF IInv, Types
<1> DEFINE g == client.gets
           S == Get(accepted, revision)
<1>2. g \in Seq(S)
  BY <1>1 DEF Client
<1>3. Len(g) \in Nat /\ g \in [1 .. Len(g) -> S] /\ DOMAIN g = 1 .. Len(g)
  BY <1>2, LenProperties, ElementOfSeq
<1>4. g[i] \in S
  BY <1>3
<1>5. ASSUME NEW x \in S, x.owner = g[i].owner, client' = [client EXCEPT !.gets = [g EXCEPT ![i] = x]]
      PROVE  client' \in Client(accepted, revision) /\ Sound(client')
  <2> DEFINE h == [g EXCEPT ![i] = x]
  <2>1. h \in [1 .. Len(g) -> S] /\ DOMAIN h = DOMAIN g
    BY <1>3
  <2>2. \A j \in DOMAIN g : h[j].owner = g[j].owner
    BY <1>5, <1>3
  <2>3. h \in Seq(S)
    BY <1>3, <2>1, SeqDef
  <2>4. Reconnects(h) = Reconnects(g) /\ Fencing(h) = Fencing(g) /\ (Lone(h) <=> Lone(g))
    <3> HIDE DEF h, g
    <3> QED BY <2>1, <2>2, SameOwners
  <2> HIDE DEF h
  <2>5. /\ client' \in Client(accepted, revision) /\ client'.gets = h
        /\ client'.gap = client.gap /\ client'.cycle = client.cycle
        /\ client'.attempts = client.attempts /\ client'.orphan = client.orphan
    BY <1>1, <1>5, <2>3 DEF Client, h
  <2>6. Sound(client')
    BY <1>1, <2>4, <2>5 DEF Sound
  <2> QED BY <2>5, <2>6
<1>6. CASE AnswerGet(i)
  <2> DEFINE x == [g[i] EXCEPT !.status = "answered", !.upto = accepted, !.rev = revision]
  <2>1. accepted \in 0 .. accepted /\ revision \in 0 .. revision
    BY <1>1
  <2>2. x \in S /\ x.owner = g[i].owner
    BY <1>4, <2>1 DEF Get, GetStatus
  <2>3. client' = [client EXCEPT !.gets = [g EXCEPT ![i] = x]]
    BY <1>1, <1>3, <1>6 DEF AnswerGet, Client
  <2> HIDE DEF x
  <2>4. client' \in Client(accepted, revision) /\ Sound(client')
    BY <1>5, <2>2, <2>3
  <2> QED BY <1>6, <2>4 DEF IInv, Types, AnswerGet, serverVars
<1>7. CASE FailGet(i)
  <2>1. PICK kind \in {"transient", "refused"} : client' = [client EXCEPT !.gets[i].status = kind]
    BY <1>7 DEF FailGet
  <2> DEFINE x == [g[i] EXCEPT !.status = kind]
  <2>2. x \in S /\ x.owner = g[i].owner
    BY <1>4, <2>1 DEF Get, GetStatus
  <2>3. client' = [client EXCEPT !.gets = [g EXCEPT ![i] = x]]
    BY <1>1, <1>3, <2>1 DEF Client
  <2> HIDE DEF x
  <2>4. client' \in Client(accepted, revision) /\ Sound(client')
    BY <1>5, <2>2, <2>3
  <2>5. errors' \in 0 .. MaxErrors
    BY <1>7 DEF FailGet, IInv, Types
  <2> QED BY <1>7, <2>4, <2>5 DEF IInv, Types, FailGet, serverVars
<1> QED BY <1>6, <1>7

\* The steps the client takes on its own: subscribing and unsubscribing, an event,
\* an error, the end of a backoff.
LEMMA ClientInvariant ==
  ASSUME IInv,
         \/ Subscribe \/ Unsubscribe \/ OnStreamEvent \/ StreamError
         \/ BackoffElapses \/ OpenThrows
  PROVE  IInv'
<1> DEFINE C == Client(accepted, revision)
<1>1. /\ accepted \in Nat /\ revision \in Nat
      /\ client \in Client(accepted, revision) /\ q \in Queue(accepted, revision)
      /\ Sound(client)
      /\ errors \in 0 .. MaxErrors /\ subscribes \in 0 .. MaxSubscribes
  BY ClientAssumption DEF IInv, Types
<1>2. CASE Subscribe
  <2> DEFINE b == [OpenStream(client) EXCEPT !.subscribed = TRUE, !.state = "live"]
             c == Fetch(b, "join")
  <2>1. OpenStream(client) \in C
    BY <1>1 DEF OpenStream, Client, Source
  <2>2. /\ b \in C /\ b.gap = client.gap /\ b.gets = client.gets
        /\ b.cycle = client.cycle /\ b.attempts = client.attempts /\ b.orphan = client.orphan
    <3>1. /\ OpenStream(client).gap = client.gap /\ OpenStream(client).gets = client.gets
          /\ OpenStream(client).cycle = client.cycle
          /\ OpenStream(client).attempts = client.attempts
          /\ OpenStream(client).orphan = client.orphan
      BY <1>1 DEF OpenStream, Client
    <3> QED BY <2>1, <3>1 DEF Client, State
  <2> HIDE DEF b
  <2>3. Sound(b)
    BY <1>1, <2>2 DEF Sound
  <2>4. c \in C /\ Sound(c)
    BY <1>1, <2>2, <2>3, JoinSound
  <2>5. Become(c, q) /\ UNCHANGED <<serverVars, errors>> /\ subscribes' \in 0 .. MaxSubscribes
    BY <1>1, <1>2, ClientAssumption DEF Subscribe, b
  <2> HIDE DEF c
  <2> QED BY <1>1, <2>4, <2>5, BecomeInvariant
<1>3. CASE Unsubscribe
  <2> DEFINE k == IF client.cycle = "backoff" THEN "abandoned" ELSE client.cycle
             b == CloseSource(client)
             c == [b EXCEPT !.subscribed = FALSE, !.state = "closed", !.cycle = k]
  <2>1. /\ b \in C /\ b.gets = client.gets /\ b.gap = client.gap
        /\ b.cycle = client.cycle /\ b.attempts = client.attempts /\ b.orphan = client.orphan
    BY <1>1, CloseFacts
  <2>2. Become(c, q) /\ UNCHANGED <<serverVars, errors, subscribes>>
    BY <1>3, <2>1 DEF Unsubscribe, CloseSource
  <2>3. k \in Cycle /\ k # "backoff" /\ (k = "catchup" <=> client.cycle = "catchup")
    BY <1>1 DEF Client, Cycle
  <2> HIDE DEF b, k
  <2>4. c \in C /\ c.gets = b.gets /\ c.gap = b.gap /\ c.cycle = k /\ c.orphan = b.orphan
    BY <2>1, <2>3 DEF Client, State
  <2> HIDE DEF c
  <2>5. Sound(c)
    BY <1>1, <2>1, <2>3, <2>4 DEF Sound
  <2> QED BY <1>1, <2>2, <2>4, <2>5, BecomeInvariant
<1>4. CASE OnStreamEvent
  <2> DEFINE f == Head(q.frames)
             Q == [q EXCEPT !.frames = Tail(q.frames)]
             c == IF client.gap THEN Buffer(client, f) ELSE DeliverEvent(client, f)
  <2>1. q.frames \in Seq(Frame(accepted, revision)) /\ q.frames # <<>>
    BY <1>1, <1>4 DEF OnStreamEvent, Queue
  <2>2. f \in Frame(accepted, revision) /\ Tail(q.frames) \in Seq(Frame(accepted, revision))
    BY <2>1, HeadTailProperties
  <2>3. Become(c, Q) /\ UNCHANGED <<serverVars, errors, subscribes>>
    BY <1>4 DEF OnStreamEvent
  <2>4. Q \in Queue(accepted, revision)
    BY <1>1, <2>2 DEF Queue
  <2> HIDE DEF f, Q
  <2>5. Buffer(client, f) \in C /\ Sound(Buffer(client, f))
    <3>1. CASE Buffer(client, f) = client
      BY <1>1, <3>1
    <3>2. CASE Buffer(client, f) = [client EXCEPT !.buffered = Append(client.buffered, f)]
      <4>1. Append(client.buffered, f) \in Seq(Frame(accepted, revision))
        BY <1>1, <2>2, AppendProperties DEF Client
      <4> DEFINE b == [client EXCEPT !.buffered = Append(client.buffered, f)]
      <4>2. b \in C /\ Alike(client, b)
        BY <1>1, <4>1 DEF Client, Alike, SameCycle
      <4> HIDE DEF b
      <4>3. Sound(b)
        BY <1>1, <4>2 DEF Sound, Alike, SameCycle
      <4> QED BY <3>2, <4>2, <4>3 DEF b
    <3> QED BY <3>1, <3>2 DEF Buffer
  <2>6. DeliverEvent(client, f) \in C /\ Sound(DeliverEvent(client, f))
    <3>1. Delivered(accepted, revision, client, DeliverEvent(client, f))
      BY <1>1, <2>2, DeliverFacts
    <3> QED BY <1>1, <3>1, SoundDelivered DEF Delivered
  <2>7. c \in C /\ Sound(c)
    BY <2>5, <2>6
  <2> HIDE DEF c
  <2> QED BY <1>1, <2>3, <2>4, <2>7, BecomeInvariant
<1>5. CASE StreamError
  <2>1. OnStreamError(client) \in C /\ Sound(OnStreamError(client))
    BY <1>1, ErrorSound
  <2>2. Become(OnStreamError(client), q) /\ UNCHANGED <<serverVars, subscribes>>
        /\ errors' \in 0 .. MaxErrors
    BY <1>1, <1>5, ClientAssumption DEF StreamError
  <2> QED BY <1>1, <2>1, <2>2, BecomeInvariant
<1>6. CASE BackoffElapses
  <2> DEFINE a == OpenStream(client)
             b == [a EXCEPT !.gap = TRUE, !.orphan = FALSE, !.buffered = <<>>,
                            !.state = "buffering", !.cycle = "catchup"]
             c == Fetch(b, "reconnect")
  <2>1. a \in C /\ a.gets = client.gets
    BY <1>1 DEF OpenStream, Client, Source
  <2>2. Become(c, q) /\ UNCHANGED <<serverVars, errors, subscribes>> /\ client.cycle = "backoff"
    BY <1>6 DEF BackoffElapses
  <2> HIDE DEF a
  <2>3. <<>> \in Seq(Frame(accepted, revision))
    BY EmptySeq
  <2>4. b \in C /\ b.gets = a.gets /\ b.cycle = "catchup"
    BY <2>1, <2>3 DEF Client, State, Cycle
  <2> HIDE DEF b
  <2>5. Reconnects(b.gets) = {}
    BY <1>1, <2>1, <2>2, <2>4 DEF Sound
  <2>6. c \in C /\ Sound(c)
    BY <1>1, <2>4, <2>5, ReconnectSound
  <2> HIDE DEF c
  <2> QED BY <1>1, <2>2, <2>6, BecomeInvariant
<1>7. CASE OpenThrows
  <2> DEFINE b == [client EXCEPT !.gap = TRUE, !.buffered = <<>>]
             c == Rejected(b)
  <2>1. /\ Become(c, q) /\ UNCHANGED <<serverVars, subscribes>>
        /\ errors' \in 0 .. MaxErrors /\ client.cycle = "backoff"
    BY <1>1, <1>7, ClientAssumption DEF OpenThrows
  <2>2. <<>> \in Seq(Frame(accepted, revision))
    BY EmptySeq
  <2>3. b \in C /\ b.gets = client.gets
    BY <1>1, <2>2 DEF Client
  <2> HIDE DEF b
  <2>4. Reconnects(b.gets) = {}
    BY <1>1, <2>1, <2>3 DEF Sound
  <2>5. c \in C /\ Sound(c)
    BY <2>3, <2>4, RejectedSound
  <2> HIDE DEF c
  <2> QED BY <1>1, <2>1, <2>5, BecomeInvariant
<1> QED BY <1>2, <1>3, <1>4, <1>5, <1>6, <1>7

\* A recovery or a join resumes.
LEMMA RecoverInvariant ==
  ASSUME IInv, NEW i \in DOMAIN client.gets,
         \/ JoinDone(i) \/ RecoverSuperseded(i) \/ RecoverFailed(i) \/ RecoverDone(i)
         \/ RecoverThrows(i)
  PROVE  IInv'
<1> DEFINE C == Client(accepted, revision)
<1>1. /\ accepted \in Nat /\ revision \in Nat
      /\ client \in Client(accepted, revision) /\ q \in Queue(accepted, revision)
      /\ Sound(client)
      /\ errors \in 0 .. MaxErrors /\ subscribes \in 0 .. MaxSubscribes
  BY ClientAssumption DEF IInv, Types
<1>2. client.gets[i].owner # "reconnect"
  BY DEF JoinDone, RecoverSuperseded, RecoverFailed, RecoverDone, RecoverThrows, Resumes
<1> DEFINE d == CatchUp(client, i)
           e == ClearGap(d)
<1>3. d \in C
  BY <1>1, CatchUpFacts
<1>4. /\ client.gets[i].owner = "join" => Sound(d)
      /\ Sound(e) /\ e \in C /\ SameCycle(client, e) /\ ~e.gap
  BY <1>1, <1>2, OtherEnds
<1>5. CASE JoinDone(i)
  <2>1. Become(d, q) /\ UNCHANGED <<serverVars, errors, subscribes>> /\ Sound(d)
    BY <1>4, <1>5 DEF JoinDone, Resumes
  <2> HIDE DEF d
  <2> QED BY <1>1, <1>3, <2>1, BecomeInvariant
<1>6. CASE RecoverSuperseded(i)
  <2>1. Become(e, q) /\ UNCHANGED <<serverVars, errors, subscribes>>
    BY <1>6 DEF RecoverSuperseded
  <2> HIDE DEF e
  <2> QED BY <1>1, <1>4, <2>1, BecomeInvariant
<1>7. CASE RecoverFailed(i)
  <2> DEFINE b == [e EXCEPT !.buffered = <<>>]
  <2>1. Become(OnStreamError(b), q) /\ UNCHANGED <<serverVars, errors, subscribes>>
    BY <1>7 DEF RecoverFailed
  <2> HIDE DEF e
  <2>2. <<>> \in Seq(Frame(accepted, revision))
    BY EmptySeq
  <2>3. b \in C /\ Alike(e, b)
    BY <1>4, <2>2 DEF Client, Alike, SameCycle
  <2> HIDE DEF b
  <2>4. Sound(b)
    BY <1>4, <2>3 DEF Sound, Alike, SameCycle
  <2>5. OnStreamError(b) \in C /\ Sound(OnStreamError(b))
    BY <2>3, <2>4, ErrorSound
  <2> QED BY <1>1, <2>1, <2>5, BecomeInvariant
<1>8. CASE RecoverDone(i)
  <2> DEFINE a == Flush(e)
             k == IF a.state = "catching_up" /\ ~a.gap THEN "live" ELSE a.state
             c == [a EXCEPT !.state = k]
  <2>1. Become(c, q) /\ UNCHANGED <<serverVars, errors, subscribes>>
    BY <1>8 DEF RecoverDone
  <2> HIDE DEF e
  <2>2. Delivered(accepted, revision, e, a)
    BY <1>1, <1>4, FlushFacts
  <2>3. a \in C /\ Sound(a)
    BY <1>4, <2>2, SoundDelivered DEF Delivered
  <2> HIDE DEF a
  <2>4. k \in State
    BY <2>3 DEF Client, State
  <2> HIDE DEF k
  <2>5. c \in C /\ Alike(a, c)
    BY <2>3, <2>4 DEF Client, Alike, SameCycle
  <2> HIDE DEF c
  <2>6. Sound(c)
    BY <2>3, <2>5 DEF Sound, Alike, SameCycle
  <2> QED BY <1>1, <2>1, <2>5, <2>6, BecomeInvariant
<1>9. CASE RecoverThrows(i)
  <2>1. UNCHANGED <<serverVars, subscribes>> /\ errors' \in 0 .. MaxErrors
    BY <1>1, <1>9, ClientAssumption DEF RecoverThrows
  <2>2. e.buffered = client.buffered
    <3>1. d.buffered = client.buffered
      BY <1>1, CatchUpFacts
    <3> HIDE DEF d
    <3> QED BY <1>3, <3>1 DEF ClearGap, Client
  <2>3. PICK k \in 0 .. Len(client.buffered) :
          Become([ClearGap(Flushing(e)[k]) EXCEPT !.state = "failed"], q)
    BY <1>9 DEF RecoverThrows
  <2> HIDE DEF e
  <2> DEFINE a == Flushing(e)[k]
             b == ClearGap(a)
             c == [b EXCEPT !.state = "failed"]
  <2>4. Delivered(accepted, revision, e, a)
    BY <1>1, <1>4, <2>2, FlushFacts
  <2>5. a \in C /\ Sound(a)
    BY <1>4, <2>4, SoundDelivered DEF Delivered
  <2> HIDE DEF a
  <2>6. b \in C /\ SameCycle(a, b) /\ b.gets = a.gets /\ ~b.gap
    BY <2>5, ClearGapFacts
  <2> HIDE DEF b
  <2>7. c \in C /\ Alike(b, c)
    BY <2>6 DEF Client, Alike, SameCycle, State
  <2>8. Become(c, q)
    BY <2>3 DEF a, b
  <2> HIDE DEF c
  <2>9. Sound(c)
    BY <2>5, <2>6, <2>7 DEF Sound, Alike, SameCycle
  <2> QED BY <1>1, <2>1, <2>7, <2>8, <2>9, BecomeInvariant
<1> QED BY <1>5, <1>6, <1>7, <1>8, <1>9

\* The reconnect cycle resumes: its request is gone whichever way it ends.
LEMMA ReconnectInvariant ==
  ASSUME IInv, NEW i \in DOMAIN client.gets,
         \/ ReconnectRefused(i) \/ ReconnectAbandoned(i) \/ ReconnectRetry(i)
         \/ ReconnectThrows(i) \/ ReconnectLive(i)
  PROVE  IInv'
<1> DEFINE C == Client(accepted, revision)
<1>1. /\ accepted \in Nat /\ revision \in Nat
      /\ client \in Client(accepted, revision) /\ q \in Queue(accepted, revision)
      /\ Sound(client)
      /\ errors \in 0 .. MaxErrors /\ subscribes \in 0 .. MaxSubscribes
  BY ClientAssumption DEF IInv, Types
<1>2. client.gets[i].owner = "reconnect"
  BY DEF ReconnectRefused, ReconnectAbandoned, ReconnectRetry, ReconnectThrows,
         ReconnectLive, Resumes
<1> DEFINE d == CatchUp(client, i)
           e == ClearGap(d)
           f == ClearGap(Flush(d))
<1>3. d \in C /\ Reconnects(d.gets) = {}
  BY <1>1, <1>2, ReconnectEnds
<1>4. e \in C /\ Reconnects(e.gets) = {} /\ ~e.gap
  <2> HIDE DEF d
  <2> QED BY <1>3, ClearGapFacts
<1>5. f \in C /\ Reconnects(f.gets) = {} /\ ~f.gap
  <2> HIDE DEF d
  <2>1. Delivered(accepted, revision, d, Flush(d))
    BY <1>1, <1>3, FlushFacts
  <2>2. Flush(d) \in C /\ Reconnects(Flush(d).gets) = {}
    BY <1>3, <2>1 DEF Delivered
  <2> QED BY <2>2, ClearGapFacts
<1>6. ASSUME NEW c \in C, Reconnects(c.gets) = {}, ~c.gap, c.cycle \in {"none", "abandoned"}
      PROVE  Sound(c)
  BY <1>6 DEF Sound, Lone
<1>7. CASE ReconnectRefused(i)
  <2> DEFINE b == CloseSource(e)
             c == [b EXCEPT !.cycle = "none", !.state = "failed"]
  <2>1. Become(c, q) /\ UNCHANGED <<serverVars, errors, subscribes>>
    BY <1>7 DEF ReconnectRefused
  <2> HIDE DEF e
  <2>2. b \in C /\ b.gets = e.gets /\ b.gap = e.gap
    BY <1>4, CloseFacts
  <2> HIDE DEF b
  <2>3. c \in C /\ c.gets = b.gets /\ c.gap = b.gap /\ c.cycle = "none"
    BY <2>2 DEF Client, State, Cycle
  <2> HIDE DEF c
  <2>4. Sound(c)
    BY <1>4, <1>6, <2>2, <2>3
  <2> QED BY <1>1, <2>1, <2>3, <2>4, BecomeInvariant
<1>8. CASE ReconnectAbandoned(i)
  <2> DEFINE c == [e EXCEPT !.cycle = "abandoned"]
  <2>1. Become(c, q) /\ UNCHANGED <<serverVars, errors, subscribes>>
    BY <1>8 DEF ReconnectAbandoned
  <2> HIDE DEF e
  <2>3. c \in C /\ c.gets = e.gets /\ c.gap = e.gap /\ c.cycle = "abandoned"
    BY <1>4 DEF Client, Cycle
  <2> HIDE DEF c
  <2>4. Sound(c)
    BY <1>4, <1>6, <2>3
  <2> QED BY <1>1, <2>1, <2>3, <2>4, BecomeInvariant
<1>9. CASE ReconnectRetry(i)
  <2> DEFINE b == CloseSource(f)
             c == StartAttempt(b)
  <2>1. Become(c, q) /\ UNCHANGED <<serverVars, errors, subscribes>>
    BY <1>9 DEF ReconnectRetry
  <2> HIDE DEF f
  <2>2. b \in C /\ b.gets = f.gets /\ b.gap = f.gap
    BY <1>5, CloseFacts
  <2> HIDE DEF b
  <2>3. c \in C /\ Sound(c)
    BY <1>5, <2>2, AttemptSound
  <2> HIDE DEF c
  <2> QED BY <1>1, <2>1, <2>3, BecomeInvariant
<1>10. CASE ReconnectLive(i)
  <2> DEFINE c == [f EXCEPT !.state = "live", !.attempts = 0, !.cycle = "none"]
  <2>1. Become(c, q) /\ UNCHANGED <<serverVars, errors, subscribes>>
    BY <1>10 DEF ReconnectLive
  <2> HIDE DEF f
  <2>3. c \in C /\ c.gets = f.gets /\ c.gap = f.gap /\ c.cycle = "none"
    BY <1>5 DEF Client, State, Cycle
  <2> HIDE DEF c
  <2>4. Sound(c)
    BY <1>5, <1>6, <2>3
  <2> QED BY <1>1, <2>1, <2>3, <2>4, BecomeInvariant
<1>11. CASE ReconnectThrows(i)
  <2>1. UNCHANGED <<serverVars, subscribes>> /\ errors' \in 0 .. MaxErrors
    BY <1>1, <1>11, ClientAssumption DEF ReconnectThrows
  <2>2. d.buffered = client.buffered
    BY <1>1, CatchUpFacts
  <2>3. PICK k \in 0 .. Len(client.buffered) : Become(Rejected(Flushing(d)[k]), q)
    BY <1>11 DEF ReconnectThrows
  <2> HIDE DEF d
  <2> DEFINE a == Flushing(d)[k]
             c == Rejected(a)
  <2>4. Delivered(accepted, revision, d, a)
    BY <1>1, <1>3, <2>2, FlushFacts
  <2>5. a \in C /\ Reconnects(a.gets) = {}
    BY <1>3, <2>4 DEF Delivered
  <2> HIDE DEF a
  <2>6. c \in C /\ Sound(c)
    BY <2>5, RejectedSound
  <2>7. Become(c, q)
    BY <2>3 DEF a
  <2> HIDE DEF c
  <2> QED BY <1>1, <2>1, <2>6, <2>7, BecomeInvariant
<1> QED BY <1>7, <1>8, <1>9, <1>10, <1>11

\* One step.
LEMMA StepInvariant == IInv /\ [Next]_vars => IInv'
<1> SUFFICES ASSUME IInv, [Next]_vars PROVE IInv'
  OBVIOUS
<1>1. CASE UNCHANGED vars
  BY <1>1 DEF vars, serverVars, IInv, Types
<1>2. CASE Accept \/ CommitEpoch \/ Heartbeat \/ Register
  BY <1>2, ServerInvariant
<1>3. CASE \/ Subscribe \/ Unsubscribe \/ OnStreamEvent \/ StreamError
           \/ BackoffElapses \/ OpenThrows
  BY <1>3, ClientInvariant
<1>4. CASE \E i \in DOMAIN client.gets : AnswerGet(i) \/ FailGet(i) \/ Resume(i)
  <2>1. PICK i \in DOMAIN client.gets : AnswerGet(i) \/ FailGet(i) \/ Resume(i)
    BY <1>4
  <2>2. CASE AnswerGet(i) \/ FailGet(i)
    BY <2>2, AnswerInvariant
  <2>3. CASE \/ JoinDone(i) \/ RecoverSuperseded(i) \/ RecoverFailed(i) \/ RecoverDone(i)
             \/ RecoverThrows(i)
    BY <2>3, RecoverInvariant
  <2>4. CASE \/ ReconnectRefused(i) \/ ReconnectAbandoned(i) \/ ReconnectRetry(i)
             \/ ReconnectThrows(i) \/ ReconnectLive(i)
    BY <2>4, ReconnectInvariant
  <2> QED BY <2>1, <2>2, <2>3, <2>4 DEF Resume
<1> QED BY <1>1, <1>2, <1>3, <1>4 DEF Next

-----------------------------------------------------------------------------
(* The theorems.                                                           *)

\* The subscription is always sound: what the client holds is within what the
\* server has, the fence has an owner, and the reconnect cycle its one request.
THEOREM Invariance == Spec => []IInv
BY InitInvariant, StepInvariant, PTL DEF Spec

\* Every variable keeps its type: #runReconnectCycle never overdraws its retry
\* budget, and the client applies nothing that was not accepted.
THEOREM TypeCorrect == Spec => []TypeOK
<1>1. IInv => TypeOK
  <2> SUFFICES ASSUME IInv PROVE TypeOK
    OBVIOUS
  <2> USE ClientAssumption
  <2>1. client \in Client(accepted, revision) /\ Sound(client)
    BY DEF IInv, Types
  <2>2. client.gets \in Seq(Get(accepted, revision))
    BY <2>1 DEF Client
  <2>3. \A i \in DOMAIN client.gets : client.gets[i] \in Get(accepted, revision)
    BY <2>2, ElementOfSeq, LenProperties
  <2>4. \A i \in DOMAIN client.gets : client.gets[i].owner \in Owner
    BY <2>3 DEF Get
  <2>5. /\ client.source \in Source /\ client.state \in State /\ client.cycle \in Cycle
        /\ client.attempts \in Nat /\ client.applied \subseteq 1 .. accepted
        /\ client.rev \in 0 .. revision
    BY <2>1 DEF Client
  <2>6. /\ accepted \in 0 .. MaxOps /\ canonical \in 0 .. accepted
        /\ revision \in 0 .. MaxOps /\ sent \subseteq 1 .. canonical
        /\ errors \in 0 .. MaxErrors /\ subscribes \in 0 .. MaxSubscribes
    BY DEF IInv, Types
  <2> QED BY <2>1, <2>4, <2>5, <2>6 DEF TypeOK, Source, State, Cycle, Sound
<1> QED BY <1>1, Invariance, PTL

\* Events are held back only while a request that will take the fence down is in
\* flight (#recoverMissedEvents and #runReconnectCycle share one flag), or after
\* a reconnect whose .catch left the fence up; no other path loses its owner.
THEOREM FenceHasAnOwner == Spec => []FenceOwned
<1>1. IInv => FenceOwned
  BY DEF IInv, Sound, Fencing, FenceOwned
<1> QED BY <1>1, Invariance, PTL

\* No interleaving of errors, re-subscriptions and late answers starts a second
\* #runReconnectCycle.
THEOREM ReconnectIsSingle == Spec => []OneReconnectCycle
<1>1. IInv => OneReconnectCycle
  <2> SUFFICES ASSUME IInv PROVE OneReconnectCycle
    OBVIOUS
  <2> DEFINE R == Reconnects(client.gets)
  <2>1. (client.cycle = "catchup" <=> R # {}) /\ \A i, j \in R : i = j
    BY DEF IInv, Sound, Lone
  <2>2. R = {i \in DOMAIN client.gets : client.gets[i].owner = "reconnect"}
    BY DEF Reconnects
  <2> HIDE DEF R
  <2>3. CASE R = {}
    BY <2>1, <2>2, <2>3, FS_EmptySet DEF OneReconnectCycle
  <2>4. CASE R # {}
    <3>1. PICK i : i \in R
      BY <2>4
    <3>2. R = {i}
      BY <2>1, <3>1
    <3>3. Cardinality(R) = 1
      BY <3>2, FS_Singleton
    <3> QED BY <2>1, <2>2, <2>4, <3>3 DEF OneReconnectCycle
  <2> QED BY <2>3, <2>4
<1> QED BY <1>1, Invariance, PTL

===============================================================================
