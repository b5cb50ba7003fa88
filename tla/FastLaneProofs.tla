---------------------------- MODULE FastLaneProofs ----------------------------
(***************************************************************************)
(* Proofs about FastLane for every set of workspaces, queue bound and      *)
(* number of revisions, failures and restarts.  The inductive invariant    *)
(* IInv says that nothing the lane holds is ahead of its workspace, what   *)
(* the item in hand stands for at each step of the publish, and that a     *)
(* provisional publication is the frame subscribers have.                  *)
(***************************************************************************)
EXTENDS FastLane, FiniteSetTheorems, SequenceTheorems, WellFoundedInduction, TLAPS

-----------------------------------------------------------------------------
(* The inductive invariant.                                                *)

Status == {"none", "reducing", "fast_planned", "exact_targeted"}

InHand == {"mark", "advance", "record", "pop"}

\* Exact and fast stay within the workspace revision, which is bounded, and an
\* epoch row is at a revision that was committed.
StoreOK ==
  /\ version \in [Workspaces -> 0 .. MaxRevision]
  /\ exact \in [Workspaces -> Nat] /\ fast \in [Workspaces -> Nat]
  /\ status \in [Workspaces -> [Revision -> Status]] /\ open \subseteq Workspaces
  /\ \A w \in Workspaces :
       /\ exact[w] <= version[w] /\ fast[w] <= version[w]
       /\ \A r \in Revision : status[w][r] # "none" => r <= version[w]

\* The epoch scheduler publishes committed revisions only, now and after the
\* boot.
CloserOK ==
  /\ closer.at \in {"idle", "publish", "notify"}
  /\ closer.at # "idle" => /\ closer.ws \in Workspaces /\ closer.rev \in Nat
                           /\ closer.rev <= version[closer.ws]
  /\ redrive \in Seq([ws : Workspaces, rev : Revision])
  /\ \A i \in DOMAIN redrive : redrive[i].rev <= version[redrive[i].ws]

\* The lane's bookkeeping is never ahead of the workspace.
LaneOK ==
  /\ lane \in {"off", "idle", "scan", "mirror", "plan"} \cup InHand
  /\ pending \in [Workspaces -> [rev : Nat, scan : BOOLEAN]]
  /\ keys \in [Workspaces -> Nat] /\ scanned \in [Workspaces -> Nat]
  /\ ready \subseteq Workspaces
  /\ \A w \in Workspaces : /\ pending[w].rev <= version[w] /\ keys[w] <= version[w]
                           /\ scanned[w] <= version[w]

\* The item in hand: called fast_exact only for a revision the exact lane had
\* covered by its plan, and recorded with the fast revision it was advanced to.
ItemOK ==
  lane \in InHand =>
    /\ DOMAIN item = DOMAIN NoItem
    /\ item.ws \in Workspaces /\ item.rev \in Nat /\ item.exact \in Nat
    /\ item.class \in Class
    /\ item.rev <= version[item.ws] /\ item.exact <= version[item.ws]
    /\ lane \in {"mark", "advance"} =>
         (item.class = "fast_exact" => item.rev <= exact[item.ws])
    /\ lane = "record" =>
         /\ item.fast = fast[item.ws] /\ item.rev <= item.fast
         /\ item.floor \in Nat /\ item.floor <= version[item.ws]
         /\ item.class = "fast_exact" => item.rev <= item.floor

\* A frame is not ahead of the fast revision; a publication covers its own
\* revision, and a provisional one is the frame that was sent last.
FramesOK ==
  /\ pubs \in [Workspaces -> Publication] /\ frame \in [Workspaces -> Publication]
  /\ \A w \in Workspaces :
       /\ frame[w].fast <= fast[w]
       /\ pubs[w].rev <= pubs[w].fast /\ pubs[w].fast <= fast[w]
       /\ pubs[w].class = "fast_qualified" => frame[w] = pubs[w]

IInv == StoreOK /\ CloserOK /\ LaneOK /\ ItemOK /\ FramesOK

-----------------------------------------------------------------------------
(* Lemmas.                                                                 *)

\* MaxOf of a nonempty bounded set is its largest member.
LEMMA MaxOfProperties ==
  ASSUME NEW n \in Nat, NEW S \in SUBSET (0 .. n), S # {}
  PROVE  MaxOf(S) \in S /\ \A x \in S : x <= MaxOf(S)
<1> DEFINE T == {n - x : x \in S}
<1>0. \A x \in S : x \in Nat /\ n - x \in Nat
  OBVIOUS
<1>1. T \in SUBSET Nat /\ T # {}
  BY <1>0
<1>2. PICK t \in T : \A y \in T : ~(<<y, t>> \in OpToRel(<, Nat))
  BY <1>1, WFMin, NatLessThanWellFounded
<1>3. \A y \in T : ~(y < t)
  BY <1>1, <1>2 DEF OpToRel
<1>4. PICK m \in S : t = n - m
  BY <1>2
<1>5. \A x \in S : x <= m
  <2>1. \A x \in S : ~(n - x < n - m)
    BY <1>3, <1>4
  <2> QED BY <1>0, <2>1
<1> QED BY <1>5 DEF MaxOf

\* Due revisions are committed ones, and so is the newest of them.
LEMMA NewestDue ==
  ASSUME StoreOK, NEW w \in Workspaces, Due(w) # {}
  PROVE  MaxOf(Due(w)) \in Revision /\ MaxOf(Due(w)) <= version[w]
<1> DEFINE D == Due(w)
<1>1. D \in SUBSET (0 .. MaxRevision) /\ D # {} /\ MaxRevision \in Nat
  BY FastLaneAssumption DEF Due, Revision
<1>2. MaxOf(D) \in D
  <2> HIDE DEF D
  <2> QED BY <1>1, MaxOfProperties
<1> QED BY <1>2 DEF Due

\* advance_fast_revision returns a revision that covers the item's and the exact
\* one and is not ahead of the workspace.
LEMMA NewFastFacts ==
  ASSUME IInv, lane \in InHand
  PROVE  /\ NewFast \in Nat /\ NewFast <= version[item.ws]
         /\ fast[item.ws] <= NewFast /\ item.rev <= NewFast
<1> DEFINE n == version[item.ws]
           S == {fast[item.ws], item.rev, exact[item.ws], item.exact}
<1>1. /\ item.ws \in Workspaces /\ item.rev \in Nat /\ item.exact \in Nat
      /\ item.rev <= n /\ item.exact <= n
  BY DEF IInv, ItemOK
<1>2. /\ n \in Nat /\ fast[item.ws] \in Nat /\ exact[item.ws] \in Nat
      /\ fast[item.ws] <= n /\ exact[item.ws] <= n
  BY <1>1 DEF IInv, StoreOK
<1>3. S \in SUBSET (0 .. n) /\ S # {}
  BY <1>1, <1>2
<1>4. fast[item.ws] \in S /\ item.rev \in S
  OBVIOUS
<1> HIDE DEF n, S
<1>5. MaxOf(S) \in S /\ \A x \in S : x <= MaxOf(S)
  BY <1>2, <1>3, MaxOfProperties
<1>6. MaxOf(S) \in 0 .. n /\ fast[item.ws] <= MaxOf(S) /\ item.rev <= MaxOf(S)
  BY <1>3, <1>4, <1>5
<1> QED BY <1>2, <1>6 DEF NewFast, S, n

\* What the lane knows stays true while the workspace and the exact revision
\* only grow.
LEMMA LaneKept ==
  ASSUME IInv, UNCHANGED <<laneVars, frame, fast>>,
         version' \in [Workspaces -> 0 .. MaxRevision],
         \A w \in Workspaces : version[w] <= version'[w],
         exact' \in [Workspaces -> Nat],
         \A w \in Workspaces : exact[w] <= exact'[w]
  PROVE  LaneOK' /\ ItemOK' /\ FramesOK'
<1> USE FastLaneAssumption
<1>1. \A w \in Workspaces : /\ version[w] \in Nat /\ version'[w] \in Nat
                            /\ exact[w] \in Nat /\ exact'[w] \in Nat
  BY DEF IInv, StoreOK
<1>2. LaneOK'
  <2>1. \A w \in Workspaces : pending[w].rev \in Nat /\ keys[w] \in Nat /\ scanned[w] \in Nat
    BY DEF IInv, LaneOK
  <2> QED BY <1>1, <2>1 DEF IInv, LaneOK, laneVars
<1>3. ItemOK'
  BY <1>1 DEF IInv, ItemOK, laneVars
<1>4. FramesOK'
  BY DEF IInv, FramesOK, laneVars
<1> QED BY <1>2, <1>3, <1>4

\* The same for the epoch scheduler.
LEMMA CloserKept ==
  ASSUME IInv, UNCHANGED closeVars,
         version' \in [Workspaces -> 0 .. MaxRevision],
         \A w \in Workspaces : version[w] <= version'[w]
  PROVE  CloserOK'
<1>1. \A w \in Workspaces : version[w] \in Nat /\ version'[w] \in Nat
  BY FastLaneAssumption DEF IInv, StoreOK
<1>2. \A i \in DOMAIN redrive : redrive[i] \in [ws : Workspaces, rev : Revision]
  BY ElementOfSeq, LenProperties DEF IInv, CloserOK
<1>3. \A i \in DOMAIN redrive : redrive[i].ws \in Workspaces /\ redrive[i].rev \in Nat
  BY <1>2, FastLaneAssumption DEF Revision
<1>4. \A i \in DOMAIN redrive : redrive[i].rev <= version'[redrive[i].ws]
  BY <1>1, <1>3 DEF IInv, CloserOK
<1>5. closer' = closer /\ redrive' = redrive
  BY DEF closeVars
<1> QED BY <1>1, <1>4, <1>5 DEF IInv, CloserOK

-----------------------------------------------------------------------------
(* The steps.                                                              *)

\* The initial state satisfies the inductive invariant.
LEMMA InitIInv == Init => IInv
<1> SUFFICES ASSUME Init PROVE IInv
  OBVIOUS
<1> USE FastLaneAssumption DEF Init, None
<1>1. StoreOK
  BY DEF StoreOK, Status, Revision
<1>2. CloserOK
  BY DEF CloserOK, AtRest
<1>3. LaneOK /\ ItemOK
  BY DEF LaneOK, ItemOK, InHand, Absent
<1>4. FramesOK
  BY DEF FramesOK, NoPub, Publication, Class
<1> QED BY <1>1, <1>2, <1>3, <1>4 DEF IInv

\* Ingest, the exact side and reset: the store grows and nothing else moves.
LEMMA StoreStep ==
  ASSUME IInv, NEW w \in Workspaces, NEW r \in Revision,
         Submit(w) \/ Reset(w) \/ ExactPublish(w, r) \/ ExactConsume(w, r)
  PROVE  IInv'
<1> USE FastLaneAssumption
<1>1. UNCHANGED <<laneVars, frame, fast, closeVars>>
  BY DEF Submit, Reset, ExactPublish, ExactConsume
<1>2. Cardinality(open) \in Nat
  BY FS_Subset, FS_CardinalityType DEF IInv, StoreOK
<1>3. /\ version' \in [Workspaces -> 0 .. MaxRevision]
      /\ \A x \in Workspaces : version[x] <= version'[x]
  <2>1. CASE Reset(w)
    BY <1>2, <2>1 DEF IInv, StoreOK, Reset
  <2>2. CASE Submit(w) \/ ExactPublish(w, r) \/ ExactConsume(w, r)
    BY <2>2 DEF IInv, StoreOK, Submit, ExactPublish, ExactConsume
  <2> QED BY <2>1, <2>2
<1>4. /\ exact' \in [Workspaces -> Nat]
      /\ \A x \in Workspaces : exact[x] <= exact'[x] /\ exact'[x] <= version'[x]
  <2>1. CASE Reset(w)
    BY <2>1 DEF IInv, StoreOK, Reset
  <2>2. CASE ExactPublish(w, r)
    BY <2>2 DEF IInv, StoreOK, ExactPublish, Revision
  <2>3. CASE Submit(w) \/ ExactConsume(w, r)
    BY <2>3 DEF IInv, StoreOK, Submit, ExactConsume
  <2> QED BY <2>1, <2>2, <2>3
<1>5. /\ status' \in [Workspaces -> [Revision -> Status]]
      /\ \A x \in Workspaces : \A y \in Revision :
           status'[x][y] # "none" => status[x][y] # "none"
  <2>1. CASE ExactConsume(w, r)
    BY <2>1 DEF IInv, StoreOK, Status, ExactConsume
  <2>2. CASE Submit(w) \/ Reset(w) \/ ExactPublish(w, r)
    BY <2>2 DEF IInv, StoreOK, Submit, Reset, ExactPublish
  <2> QED BY <2>1, <2>2
<1>6. open' \subseteq Workspaces
  BY DEF IInv, StoreOK, Submit, Reset, ExactPublish, ExactConsume
<1>7. StoreOK'
  <2>1. \A x \in Workspaces : version[x] \in Nat /\ version'[x] \in Nat /\ fast[x] \in Nat
    BY <1>3 DEF IInv, StoreOK
  <2>2. fast' = fast /\ fast \in [Workspaces -> Nat]
    BY <1>1 DEF IInv, StoreOK
  <2>3. \A x \in Workspaces : exact'[x] <= version'[x] /\ fast'[x] <= version'[x]
    BY <1>3, <1>4, <2>1, <2>2 DEF IInv, StoreOK
  <2>4. ASSUME NEW x \in Workspaces, NEW y \in Revision, status'[x][y] # "none"
        PROVE  y <= version'[x]
    <3>1. y <= version[x] /\ version[x] <= version'[x] /\ y \in Nat
      BY <1>3, <1>5, <2>4 DEF IInv, StoreOK, Revision
    <3> QED BY <2>1, <3>1
  <2> QED BY <1>3, <1>4, <1>5, <1>6, <2>2, <2>3, <2>4 DEF StoreOK
<1> QED BY <1>1, <1>3, <1>4, <1>7, LaneKept, CloserKept DEF IInv

\* The epoch scheduler: commit, re-drive, broadcast and the tail hook.
LEMMA CloserStep == ASSUME IInv, Closer PROVE IInv'
<1> USE FastLaneAssumption
<1>1. ASSUME NEW w \in Workspaces, CloseCommit(w)
      PROVE  IInv'
  <2>1. /\ version' \in [Workspaces -> 0 .. MaxRevision]
        /\ \A x \in Workspaces : version[x] <= version'[x]
        /\ version'[w] = version[w] + 1
    BY <1>1 DEF IInv, StoreOK, CloseCommit
  <2>2. UNCHANGED <<laneVars, frame, fast, exact>>
    BY <1>1 DEF CloseCommit
  <2>3. exact' \in [Workspaces -> Nat] /\ \A x \in Workspaces : exact[x] <= exact'[x]
    BY <2>2 DEF IInv, StoreOK
  <2>4. StoreOK'
    <3>1. /\ status' \in [Workspaces -> [Revision -> Status]]
          /\ \A x \in Workspaces : \A y \in Revision :
               status'[x][y] # "none" => status[x][y] # "none" \/ (x = w /\ y = version'[w])
      BY <1>1, <2>1 DEF IInv, StoreOK, Status, CloseCommit
    <3>2. open' \subseteq Workspaces
      BY <1>1 DEF IInv, StoreOK, CloseCommit
    <3>3. \A x \in Workspaces : /\ version[x] \in Nat /\ version'[x] \in Nat
                                /\ fast[x] \in Nat /\ exact[x] \in Nat
      BY <2>1 DEF IInv, StoreOK
    <3>4. \A x \in Workspaces : exact'[x] <= version'[x] /\ fast'[x] <= version'[x]
      BY <2>1, <2>2, <3>3 DEF IInv, StoreOK
    <3>5. ASSUME NEW x \in Workspaces, NEW y \in Revision, status'[x][y] # "none"
          PROVE  y <= version'[x]
      <4>1. status[x][y] # "none" \/ (x = w /\ y = version'[w])
        BY <3>1, <3>5
      <4> QED BY <2>1, <3>3, <4>1, SMTT(30) DEF IInv, StoreOK, Revision
    <3>6. exact' \in [Workspaces -> Nat] /\ fast' \in [Workspaces -> Nat]
      BY <2>2 DEF IInv, StoreOK
    <3> QED BY <2>1, <3>1, <3>2, <3>4, <3>5, <3>6 DEF StoreOK
  <2>5. CloserOK'
    <3>1. \A i \in DOMAIN redrive : redrive[i].rev <= version'[redrive[i].ws]
      BY <1>1 DEF CloseCommit
    <3>2. closer' = [at |-> "publish", ws |-> w, rev |-> version[w] + 1] /\ redrive' = redrive
      BY <1>1 DEF CloseCommit
    <3>3. version'[w] \in Nat
      BY <2>1
    <3> QED BY <2>1, <3>1, <3>2, <3>3 DEF IInv, CloserOK
  <2> QED BY <2>1, <2>2, <2>3, <2>4, <2>5, LaneKept DEF IInv
<1>2. CASE Redrive
  <2>1. StoreOK' /\ LaneOK' /\ ItemOK' /\ FramesOK'
    BY <1>2 DEF IInv, StoreOK, LaneOK, ItemOK, FramesOK, Redrive, storeVars, laneVars
  <2>2. /\ Head(redrive) = redrive[1] /\ 1 \in DOMAIN redrive
        /\ redrive[1] \in [ws : Workspaces, rev : Revision]
        /\ Tail(redrive) \in Seq([ws : Workspaces, rev : Revision])
        /\ DOMAIN redrive = 1 .. Len(redrive) /\ Len(redrive) \in Nat
        /\ DOMAIN Tail(redrive) = 1 .. Len(redrive) - 1
        /\ \A i \in 1 .. Len(redrive) - 1 : Tail(redrive)[i] = redrive[i + 1]
    <3>1. redrive \in Seq([ws : Workspaces, rev : Revision]) /\ redrive # <<>>
      BY <1>2 DEF IInv, CloserOK, Redrive
    <3>2. Len(redrive) \in Nat /\ DOMAIN redrive = 1 .. Len(redrive) /\ Len(redrive) > 0
      BY <3>1, LenProperties, EmptySeq
    <3>3. /\ Tail(redrive) \in Seq([ws : Workspaces, rev : Revision])
          /\ Len(Tail(redrive)) = Len(redrive) - 1
          /\ \A i \in 1 .. Len(Tail(redrive)) : Tail(redrive)[i] = redrive[i + 1]
      BY <3>1, HeadTailProperties
    <3>4. DOMAIN Tail(redrive) = 1 .. Len(Tail(redrive))
      BY <3>3, LenProperties
    <3>5. 1 \in DOMAIN redrive /\ redrive[1] \in [ws : Workspaces, rev : Revision]
      <4>1. 1 \in 1 .. Len(redrive)
        BY <3>2
      <4> QED BY <3>1, <3>2, <4>1, ElementOfSeq
    <3>6. Head(redrive) = redrive[1]
      BY <3>1
    <3> QED BY <3>2, <3>3, <3>4, <3>5, <3>6
  <2>3. closer' = AtRest \/
          closer' = [at |-> "publish", ws |-> redrive[1].ws, rev |-> redrive[1].rev]
    BY <1>2, <2>2 DEF Redrive
  <2>4. UNCHANGED version
    BY <1>2 DEF Redrive, storeVars
  <2>5. \A i \in DOMAIN redrive' : redrive'[i].rev <= version'[redrive'[i].ws]
    BY <1>2, <2>2, <2>4 DEF IInv, CloserOK, Redrive
  <2>6. redrive[1].ws \in Workspaces /\ redrive[1].rev \in Nat
          /\ redrive[1].rev <= version[redrive[1].ws]
    BY <2>2 DEF IInv, CloserOK, Revision
  <2>7. CloserOK'
    <3>1. redrive' \in Seq([ws : Workspaces, rev : Revision])
      BY <1>2, <2>2 DEF Redrive
    <3> QED BY <2>3, <2>4, <2>5, <2>6, <3>1 DEF CloserOK, AtRest
  <2> QED BY <2>1, <2>7 DEF IInv
<1>3. CASE CloseBroadcast
  <2>1. StoreOK' /\ LaneOK' /\ ItemOK' /\ FramesOK'
    BY <1>3 DEF IInv, StoreOK, LaneOK, ItemOK, FramesOK, CloseBroadcast, laneVars
  <2>2. /\ closer'.at = "notify" /\ closer'.ws = closer.ws /\ closer'.rev = closer.rev
        /\ UNCHANGED <<version, redrive>> /\ closer.at # "idle"
    BY <1>3 DEF CloseBroadcast
  <2> QED BY <2>1, <2>2 DEF IInv, CloserOK
<1>4. CASE CloseNotify
  <2>1. StoreOK' /\ FramesOK' /\ ItemOK'
    BY <1>4 DEF IInv, StoreOK, FramesOK, ItemOK, CloseNotify, storeVars
  <2>2. CloserOK'
    BY <1>4 DEF IInv, CloserOK, CloseNotify, storeVars, AtRest
  <2>3. /\ closer.ws \in Workspaces /\ closer.rev \in Nat
        /\ closer.rev <= version[closer.ws]
    BY <1>4 DEF IInv, CloserOK, CloseNotify
  <2>4. /\ pending' \in [Workspaces -> [rev : Nat, scan : BOOLEAN]]
        /\ \A w \in Workspaces : pending'[w].rev <= version[w]
    BY <1>4, <2>3 DEF IInv, LaneOK, CloseNotify, Wake
  <2>5. LaneOK'
    BY <1>4, <2>4 DEF IInv, LaneOK, CloseNotify, storeVars
  <2> QED BY <2>1, <2>2, <2>5 DEF IInv
<1> QED BY <1>1, <1>2, <1>3, <1>4 DEF Closer

\* A pass of the lane.
LEMMA LaneStep == ASSUME IInv, Lane PROVE IInv'
<1> USE FastLaneAssumption
<1>1. CASE Supersede
  <2>1. StoreOK' /\ CloserOK'
    BY <1>1 DEF IInv, StoreOK, CloserOK, Supersede, storeVars, closeVars
  <2>2. \A w \in Workspaces : /\ pubs[w] \in Publication /\ exact[w] \in 0 .. MaxRevision
                              /\ version[w] \in Nat
    <3>1. \A w \in Workspaces : /\ exact[w] \in Nat /\ version[w] \in 0 .. MaxRevision
                                /\ exact[w] <= version[w]
      BY DEF IInv, StoreOK
    <3> QED BY <3>1 DEF IInv, FramesOK
  <2>3. \A w \in Workspaces : /\ Supersession(w) \in Publication
                              /\ Supersession(w).rev = pubs[w].rev
                              /\ Supersession(w).fast = pubs[w].fast
                              /\ Supersession(w).class = "fast_exact"
    BY <2>2 DEF Supersession, Publication, Class
  <2>4. FramesOK'
    <3>1. \A w \in Workspaces :
            /\ pubs'[w] = IF Overtaken(w) THEN Supersession(w) ELSE pubs[w]
            /\ frame'[w] = IF Overtaken(w) THEN Supersession(w) ELSE frame[w]
            /\ fast'[w] = fast[w]
      BY <1>1 DEF Supersede, storeVars
    <3>2. pubs' \in [Workspaces -> Publication] /\ frame' \in [Workspaces -> Publication]
      BY <1>1, <2>3 DEF Supersede, IInv, FramesOK
    <3> QED BY <2>3, <3>1, <3>2 DEF IInv, FramesOK
  <2>5. LaneOK'
    <3>1. \A w \in Workspaces : pubs[w].rev \in Nat /\ pubs[w].rev <= version[w]
      <4>1. \A w \in Workspaces : /\ pubs[w].rev \in Nat /\ pubs[w].fast \in Nat
                                  /\ fast[w] \in Nat
        BY <2>2 DEF Publication, IInv, StoreOK
      <4> QED BY <2>2, <4>1 DEF IInv, FramesOK, StoreOK
    <3>2. keys' \in [Workspaces -> Nat] /\ \A w \in Workspaces : keys'[w] <= version[w]
      BY <1>1, <3>1 DEF IInv, LaneOK, Supersede
    <3> QED BY <1>1, <3>2 DEF IInv, LaneOK, Supersede, storeVars
  <2>6. ItemOK'
    BY <1>1 DEF ItemOK, InHand, Supersede
  <2> QED BY <2>1, <2>4, <2>5, <2>6 DEF IInv
<1>2. CASE Scan
  <2>1. StoreOK' /\ CloserOK' /\ FramesOK' /\ ItemOK'
    BY <1>2 DEF IInv, StoreOK, CloserOK, FramesOK, ItemOK, InHand, Scan, storeVars, closeVars
  <2>2. \A w \in Workspaces : /\ scanned'[w] \in Nat /\ scanned'[w] <= version[w]
                              /\ version[w] \in Nat
    <3>1. \A w \in Workspaces : version[w] \in Nat
      BY DEF IInv, StoreOK
    <3>2. \A w \in Workspaces : scanned'[w] = IF Due(w) = {} THEN None ELSE MaxOf(Due(w))
      BY <1>2 DEF Scan
    <3> QED BY <3>1, <3>2, NewestDue DEF IInv, None, Revision
  <2>3. scanned' \in [Workspaces -> Nat]
    BY <1>2, <2>2 DEF Scan
  <2>4. LaneOK'
    BY <1>2, <2>2, <2>3 DEF IInv, LaneOK, Scan, storeVars
  <2> QED BY <2>1, <2>4 DEF IInv
<1>3. CASE Mirror
  <2>1. StoreOK' /\ CloserOK' /\ FramesOK' /\ ItemOK'
    BY <1>3 DEF IInv, StoreOK, CloserOK, FramesOK, ItemOK, InHand, Mirror, storeVars, closeVars
  <2>2. /\ pending' \in [Workspaces -> [rev : Nat, scan : BOOLEAN]]
        /\ \A w \in Workspaces : pending'[w].rev <= version[w]
    BY <1>3 DEF IInv, LaneOK, Mirror
  <2>3. ready' \subseteq Workspaces /\ lane' \in {"idle", "plan"}
    BY <1>3 DEF Mirror
  <2>4. LaneOK'
    BY <1>3, <2>2, <2>3 DEF IInv, LaneOK, Mirror, storeVars
  <2> QED BY <2>1, <2>4 DEF IInv
<1>4. ASSUME NEW w \in Workspaces, Plan(w)
      PROVE  IInv'
  <2>1. StoreOK' /\ CloserOK' /\ FramesOK' /\ LaneOK'
    BY <1>4 DEF IInv, StoreOK, CloserOK, FramesOK, LaneOK, InHand, Plan, storeVars, closeVars
  <2>2. PICK c \in KernelClass :
          item' = [ws |-> w, rev |-> scanned[w], status |-> status[w][scanned[w]],
                   exact |-> exact[w],
                   class |-> IF c # "view" /\ exact[w] >= scanned[w]
                             THEN "fast_exact" ELSE c,
                   fast |-> 0, floor |-> 0]
    BY <1>4 DEF Plan
  <2>3. /\ scanned[w] \in Nat /\ exact[w] \in Nat /\ scanned[w] <= version[w]
        /\ exact[w] <= version[w]
    BY DEF IInv, StoreOK, LaneOK
  <2>4. c \in Class /\ c # "fast_exact"
    BY DEF KernelClass, Class
  <2>5. /\ item'.ws = w /\ item'.rev = scanned[w] /\ item'.exact = exact[w]
        /\ item'.class \in Class
        /\ item'.class = "fast_exact" => scanned[w] <= exact[w]
    BY <2>2, <2>3, <2>4 DEF Class
  <2>6. lane' = "mark" /\ UNCHANGED <<version, exact>>
    BY <1>4 DEF Plan, storeVars
  <2>7. DOMAIN item' = DOMAIN NoItem
    BY <2>2 DEF NoItem
  <2>8. ItemOK'
    BY <2>3, <2>5, <2>6, <2>7 DEF ItemOK
  <2> QED BY <2>1, <2>8 DEF IInv
<1>5. CASE MarkPlanned
  <2>1. CloserOK' /\ FramesOK' /\ LaneOK'
    BY <1>5 DEF IInv, CloserOK, FramesOK, LaneOK, InHand, MarkPlanned, closeVars
  <2>2. ItemOK'
    BY <1>5 DEF IInv, ItemOK, InHand, MarkPlanned
  <2>3. item.ws \in Workspaces /\ item.rev <= version[item.ws]
    BY <1>5 DEF IInv, ItemOK, InHand, MarkPlanned
  <2>4. /\ status' \in [Workspaces -> [Revision -> Status]]
        /\ \A w \in Workspaces : \A r \in Revision :
             status'[w][r] # "none" => status[w][r] # "none" \/ r <= version[w]
    BY <1>5, <2>3 DEF IInv, StoreOK, Status, MarkPlanned
  <2>5. StoreOK'
    BY <1>5, <2>4 DEF IInv, StoreOK, MarkPlanned
  <2> QED BY <2>1, <2>2, <2>5 DEF IInv
<1>6. CASE Advance
  <2>1. lane = "advance" /\ lane' = "record" /\ lane \in InHand
    BY <1>6 DEF Advance, InHand
  <2>2. /\ NewFast \in Nat /\ NewFast <= version[item.ws]
        /\ fast[item.ws] <= NewFast /\ item.rev <= NewFast
    BY <2>1, NewFastFacts
  <2>3. /\ item.ws \in Workspaces /\ item.rev \in Nat /\ item.exact \in Nat
        /\ item.class \in Class /\ item.rev <= version[item.ws]
        /\ item.exact <= version[item.ws]
        /\ item.class = "fast_exact" => item.rev <= exact[item.ws]
    BY <2>1 DEF IInv, ItemOK
  <2> HIDE DEF NewFast
  <2>4. /\ fast' = [fast EXCEPT ![item.ws] = NewFast]
        /\ UNCHANGED <<version, exact, status, open, closeVars, pending, keys, pubs,
                       scanned, ready, frame>>
    BY <1>6 DEF Advance
  <2>5. /\ fast' \in [Workspaces -> Nat]
        /\ \A w \in Workspaces : fast[w] <= fast'[w] /\ fast'[w] <= version[w]
        /\ fast'[item.ws] = NewFast
    BY <2>2, <2>3, <2>4 DEF IInv, StoreOK
  <2>6. StoreOK' /\ CloserOK' /\ LaneOK'
    BY <2>1, <2>4, <2>5 DEF IInv, StoreOK, CloserOK, LaneOK, InHand, closeVars
  <2>7. FramesOK'
    <3>1. \A w \in Workspaces : /\ frame[w].fast \in Nat /\ pubs[w].fast \in Nat
                                /\ fast[w] \in Nat /\ fast'[w] \in Nat
      BY <2>5 DEF IInv, FramesOK, Publication, StoreOK
    <3> QED BY <2>4, <2>5, <3>1 DEF IInv, FramesOK
  <2>8. /\ item'.ws = item.ws /\ item'.rev = item.rev /\ item'.exact = item.exact
        /\ item'.class = item.class
        /\ item'.fast = NewFast /\ item'.floor = exact[item.ws]
        /\ DOMAIN item' = DOMAIN item
    <3>1. item' = [item EXCEPT !.fast = NewFast, !.floor = exact[item.ws]]
      BY <1>6 DEF Advance
    <3>2. "fast" \in DOMAIN item /\ "floor" \in DOMAIN item
      BY <2>1 DEF IInv, ItemOK, NoItem
    <3> QED BY <3>1, <3>2
  <2>9. ItemOK'
    <3>1. /\ exact[item.ws] \in Nat /\ exact[item.ws] <= version[item.ws]
          /\ DOMAIN item = DOMAIN NoItem
      BY <2>1, <2>3 DEF IInv, StoreOK, ItemOK
    <3> QED BY <2>1, <2>2, <2>3, <2>4, <2>5, <2>8, <3>1 DEF ItemOK
  <2> QED BY <2>6, <2>7, <2>9 DEF IInv
<1>7. CASE Record
  <2> DEFINE p == [rev |-> item.rev, fast |-> item.fast, class |-> item.class,
                   exact |-> item.floor]
  <2>1. /\ item.ws \in Workspaces /\ item.rev \in Nat /\ item.class \in Class
        /\ item.fast = fast[item.ws] /\ item.rev <= item.fast
        /\ item.floor \in Nat /\ item.floor <= version[item.ws]
        /\ item.rev <= version[item.ws]
    BY <1>7 DEF IInv, ItemOK, InHand, Record
  <2>2. /\ version[item.ws] \in 0 .. MaxRevision /\ fast[item.ws] \in Nat
        /\ fast[item.ws] <= version[item.ws]
    BY <2>1 DEF IInv, StoreOK
  <2>3. p \in Publication
    BY <2>1, <2>2 DEF Publication
  <2>4. /\ pubs' = [pubs EXCEPT ![item.ws] = p] /\ frame' = [frame EXCEPT ![item.ws] = p]
        /\ keys' = [keys EXCEPT ![item.ws] = item.rev]
    BY <1>7 DEF Record
  <2>5. StoreOK' /\ CloserOK'
    BY <1>7 DEF IInv, StoreOK, CloserOK, Record, storeVars, closeVars
  <2>6. LaneOK'
    BY <1>7, <2>1, <2>4 DEF IInv, LaneOK, InHand, Record, storeVars
  <2>7. ItemOK'
    BY <1>7 DEF IInv, ItemOK, InHand, Record, storeVars
  <2>8. FramesOK'
    <3>1. UNCHANGED fast /\ p.fast = fast[item.ws] /\ p.rev <= p.fast
      BY <1>7, <2>1 DEF Record, storeVars
    <3>2. fast[item.ws] <= fast[item.ws]
      BY <2>2
    <3> HIDE DEF p
    <3> QED BY <2>1, <2>3, <2>4, <3>1, <3>2 DEF IInv, FramesOK
  <2> QED BY <2>5, <2>6, <2>7, <2>8 DEF IInv
<1>8. CASE Pop
  <2>1. StoreOK' /\ CloserOK' /\ FramesOK'
    BY <1>8 DEF IInv, StoreOK, CloserOK, FramesOK, Pop, storeVars, closeVars
  <2>2. lane' \in {"idle", "plan"}
    BY <1>8 DEF Pop, AfterItem
  <2>3. ItemOK'
    BY <2>2 DEF ItemOK, InHand
  <2>4. \A w \in Workspaces : version[w] \in Nat
    BY DEF IInv, StoreOK
  <2>5. LaneOK'
    <3>1. Absent \in [rev : Nat, scan : BOOLEAN] /\ Absent.rev = 0
      BY DEF Absent, None
    <3>2. pending' = [pending EXCEPT ![item.ws] = Absent]
      BY <1>8 DEF Pop
    <3>3. /\ pending' \in [Workspaces -> [rev : Nat, scan : BOOLEAN]]
          /\ \A w \in Workspaces : pending'[w].rev <= version[w]
      <4>1. item.ws \in Workspaces
        BY <1>8 DEF IInv, ItemOK, InHand, Pop
      <4>2. \A w \in Workspaces : pending'[w] = IF w = item.ws THEN Absent ELSE pending[w]
        BY <3>2, <4>1 DEF IInv, LaneOK
      <4>3. \A w \in Workspaces : pending[w] \in [rev : Nat, scan : BOOLEAN]
                                  /\ pending[w].rev <= version[w]
        BY DEF IInv, LaneOK
      <4>4. \A w \in Workspaces : pending'[w] \in [rev : Nat, scan : BOOLEAN]
        BY <3>1, <4>2, <4>3, Zenon
      <4>5. \A w \in Workspaces : pending'[w].rev <= version[w]
        BY <2>4, <3>1, <4>2, <4>3
      <4>6. pending' = [w \in Workspaces |-> pending'[w]]
        BY <3>2 DEF IInv, LaneOK
      <4> QED BY <4>4, <4>5, <4>6, Zenon
    <3>4. UNCHANGED <<version, keys, scanned, ready>>
      BY <1>8 DEF Pop, storeVars
    <3> QED BY <2>2, <3>3, <3>4 DEF IInv, LaneOK
  <2> QED BY <2>1, <2>3, <2>5 DEF IInv
<1>9. CASE LaneStart
  BY <1>9 DEF IInv, StoreOK, CloserOK, FramesOK, LaneOK, ItemOK, InHand, LaneStart,
              storeVars, closeVars
<1> QED BY <1>1, <1>2, <1>3, <1>4, <1>5, <1>6, <1>7, <1>8, <1>9 DEF Lane

\* A failed publish drops the item; a restart forgets the process's memory and
\* re-drives what is durable.
LEMMA FaultStep == ASSUME IInv, PublishFails \/ Crash PROVE IInv'
<1> USE FastLaneAssumption
<1>1. StoreOK'
  BY DEF IInv, StoreOK, PublishFails, Crash, storeVars
<1>2. CASE PublishFails
  <2>1. lane' \in {"idle", "plan"}
    BY <1>2 DEF PublishFails, AfterItem
  <2>2. ItemOK'
    BY <2>1 DEF ItemOK, InHand
  <2>3. CloserOK' /\ FramesOK' /\ LaneOK'
    BY <1>2, <2>1 DEF IInv, CloserOK, FramesOK, LaneOK, PublishFails, storeVars, closeVars
  <2> QED BY <1>1, <2>2, <2>3 DEF IInv
<1>3. CASE Crash
  <2>1. CloserOK'
    <3>1. PICK s \in [1 .. Cardinality(Recoverable) -> Recoverable] : redrive' = s
      BY <1>3 DEF Crash
    <3>2. Recoverable \subseteq [ws : Workspaces, rev : Revision]
      BY DEF Recoverable
    <3>3. \A e \in Recoverable : e.rev <= version[e.ws]
      BY DEF Recoverable, IInv, StoreOK
    <3>4. Cardinality(Recoverable) \in Nat
      <4>1. IsFiniteSet(Revision)
        BY FS_Interval DEF Revision
      <4>2. IsFiniteSet(Workspaces \X Revision)
        BY <4>1, FS_Product
      <4> DEFINE f == [x \in Workspaces \X Revision |-> [ws |-> x[1], rev |-> x[2]]]
      <4>3. f \in Surjection(Workspaces \X Revision, [ws : Workspaces, rev : Revision])
        <5>1. ASSUME NEW e \in [ws : Workspaces, rev : Revision]
              PROVE  \E x \in Workspaces \X Revision : f[x] = e
          <6>1. <<e.ws, e.rev>> \in Workspaces \X Revision /\ f[<<e.ws, e.rev>>] = e
            OBVIOUS
          <6> QED BY <6>1
        <5>2. f \in [Workspaces \X Revision -> [ws : Workspaces, rev : Revision]]
          OBVIOUS
        <5> QED BY <5>1, <5>2 DEF Surjection
      <4>4. IsFiniteSet([ws : Workspaces, rev : Revision])
        BY <4>2, <4>3, FS_Surjection
      <4> QED BY <3>2, <4>4, FS_Subset, FS_CardinalityType
    <3>5. /\ redrive' \in Seq([ws : Workspaces, rev : Revision])
          /\ DOMAIN redrive' = 1 .. Cardinality(Recoverable)
      <4>1. s \in Seq(Recoverable)
        BY <3>4, IsASeq
      <4> QED BY <3>1, <3>2, <4>1, SeqMonotonic
    <3>6. \A i \in DOMAIN redrive' : redrive'[i].rev <= version[redrive'[i].ws]
      BY <3>1, <3>3, <3>5
    <3> QED BY <1>3, <3>5, <3>6 DEF CloserOK, Crash, AtRest, storeVars
  <2>2. ItemOK'
    BY <1>3 DEF ItemOK, InHand, Crash
  <2>3. LaneOK'
    <3>1. \A w \in Workspaces : version[w] \in Nat
      BY DEF IInv, StoreOK
    <3> QED BY <1>3, <3>1 DEF LaneOK, Crash, storeVars, Absent, None
  <2>4. FramesOK'
    <3>1. NoPub \in Publication /\ NoPub.rev = 0 /\ NoPub.fast = 0
            /\ NoPub.class = "visual_pending"
      BY DEF NoPub, Publication, Class, None
    <3>2. /\ pubs' = [w \in Workspaces |-> NoPub] /\ UNCHANGED <<frame, fast>>
      BY <1>3 DEF Crash, storeVars
    <3>3. \A w \in Workspaces : fast[w] \in Nat
      BY DEF IInv, StoreOK
    <3> QED BY <3>1, <3>2, <3>3 DEF IInv, FramesOK
  <2> QED BY <1>1, <2>1, <2>2, <2>3, <2>4 DEF IInv
<1> QED BY <1>2, <1>3

-----------------------------------------------------------------------------
(* The theorems.                                                           *)

\* IInv is an invariant of the lane, the epoch scheduler and the exact side
\* running against each other, through store failures and restarts.
THEOREM Invariance == Spec => []IInv
<1>1. Init => IInv
  BY InitIInv
<1>2. IInv /\ [Next]_vars => IInv'
  <2> SUFFICES ASSUME IInv, [Next]_vars PROVE IInv'
    OBVIOUS
  <2>1. CASE UNCHANGED vars
    BY <2>1 DEF vars, storeVars, closeVars, laneVars, IInv, StoreOK, CloserOK, LaneOK,
                ItemOK, FramesOK
  <2>2. CASE Lane \/ Closer
    BY <2>2, LaneStep, CloserStep
  <2>3. CASE PublishFails \/ Crash
    BY <2>3, FaultStep
  <2>4. ASSUME NEW w \in Workspaces, Submit(w) \/ Reset(w)
        PROVE  IInv'
    <3>1. 1 \in Revision
      <4>1. Cardinality(open) \in Nat /\ version[w] \in Nat
        BY FastLaneAssumption, FS_Subset, FS_CardinalityType DEF IInv, StoreOK
      <4>2. version[w] + Cardinality(open) < MaxRevision
        BY <2>4 DEF Submit, Reset
      <4> QED BY <4>1, <4>2, FastLaneAssumption DEF Revision
    <3> QED BY <2>4, <3>1, StoreStep
  <2>5. ASSUME NEW w \in Workspaces, NEW r \in Revision,
               ExactPublish(w, r) \/ ExactConsume(w, r)
        PROVE  IInv'
    BY <2>5, StoreStep
  <2> QED BY <2>1, <2>2, <2>3, <2>4, <2>5 DEF Next
<1> QED BY <1>1, <1>2, PTL DEF Spec

\* Every variable has its type, and neither the fast nor the exact revision nor
\* anything queued or published is ahead of the workspace (advance_fast_revision
\* takes a maximum over values read in different transactions).
THEOREM TypeCorrect == Spec => []TypeOK
<1>1. IInv => TypeOK
  <2> SUFFICES ASSUME IInv PROVE TypeOK
    OBVIOUS
  <2>1. \A w \in Workspaces : /\ version[w] \in Nat
                              /\ fast[w] \in 0 .. version[w] /\ exact[w] \in 0 .. version[w]
    BY FastLaneAssumption DEF IInv, StoreOK
  <2>2. \A w \in Workspaces : pending[w].rev \in 0 .. version[w] /\ keys[w] \in 0 .. version[w]
    BY <2>1 DEF IInv, LaneOK
  <2>3. \A w \in Workspaces : pubs[w] \in Publication /\ frame[w] \in Publication
    BY DEF IInv, FramesOK
  <2>4. ready \subseteq Workspaces
    BY DEF IInv, LaneOK
  <2>5. lane \in {"off", "idle", "scan", "mirror", "plan", "mark", "advance", "record", "pop"}
    BY DEF IInv, LaneOK, InHand
  <2> QED BY <2>1, <2>2, <2>3, <2>4, <2>5 DEF TypeOK
<1> QED BY <1>1, Invariance, PTL

\* What subscribers see never goes back and never overstates: the fast revision
\* of a workspace's frames never falls and covers the frame's own revision, and
\* a frame that says fast_exact names an exact revision that covers it
\* (_publish_item, _supersede_stale_qualified).
THEOREM FramesAreMonotone == Spec => FramesNeverRegress
<1> DEFINE A == \A w \in Workspaces : frame'[w] # frame[w] =>
                  /\ frame'[w].fast >= frame[w].fast /\ frame'[w].fast >= frame'[w].rev
                  /\ frame'[w].class = "fast_exact" => frame'[w].exact >= frame'[w].rev
<1>1. IInv /\ [Next]_vars => [A]_vars
  <2> SUFFICES ASSUME IInv, Next PROVE A
    OBVIOUS
  <2>1. CASE Supersede
    <3> SUFFICES ASSUME NEW w \in Workspaces, frame'[w] # frame[w]
                 PROVE  /\ frame'[w].fast >= frame[w].fast
                        /\ frame'[w].fast >= frame'[w].rev
                        /\ frame'[w].class = "fast_exact" => frame'[w].exact >= frame'[w].rev
      OBVIOUS
    <3>1. Overtaken(w) /\ frame'[w] = Supersession(w)
      BY <2>1 DEF Supersede
    <3>2. frame[w] = pubs[w] /\ pubs[w] \in Publication /\ pubs[w].rev <= pubs[w].fast
      BY <3>1 DEF Overtaken, IInv, FramesOK
    <3>3. /\ Supersession(w).fast = pubs[w].fast /\ Supersession(w).rev = pubs[w].rev
          /\ Supersession(w).exact = exact[w]
      BY <3>2 DEF Supersession, Publication
    <3>4. pubs[w].rev \in Nat /\ pubs[w].fast \in Nat /\ exact[w] \in Nat
            /\ exact[w] >= pubs[w].rev
      BY <3>1, <3>2 DEF Overtaken, Publication, IInv, StoreOK
    <3> QED BY <3>1, <3>2, <3>3, <3>4
  <2>2. CASE Record
    <3>1. /\ item.ws \in Workspaces /\ item.rev \in Nat
          /\ item.fast = fast[item.ws] /\ item.rev <= item.fast
          /\ item.floor \in Nat
          /\ item.class = "fast_exact" => item.rev <= item.floor
      BY <2>2 DEF IInv, ItemOK, InHand, Record
    <3>2. \A w \in Workspaces : /\ frame[w].fast \in Nat /\ fast[w] \in Nat
                                /\ frame[w].fast <= fast[w]
      BY DEF IInv, FramesOK, Publication, StoreOK
    <3>3. frame' = [frame EXCEPT ![item.ws] =
                      [rev |-> item.rev, fast |-> item.fast, class |-> item.class,
                       exact |-> item.floor]]
      BY <2>2 DEF Record
    <3> QED BY <3>1, <3>2, <3>3 DEF IInv, FramesOK
  <2>3. CASE UNCHANGED frame
    BY <2>3
  <2>4. Lane => Supersede \/ Record \/ UNCHANGED frame
    BY DEF Lane, Scan, Mirror, Plan, MarkPlanned, Advance, Pop, LaneStart
  <2>5. Closer => UNCHANGED frame
    BY DEF Closer, CloseCommit, Redrive, CloseBroadcast, CloseNotify
  <2>6. PublishFails \/ Crash => UNCHANGED frame
    BY DEF PublishFails, Crash
  <2>7. ASSUME NEW w \in Workspaces,
               \/ Submit(w) \/ Reset(w)
               \/ \E r \in Revision : ExactPublish(w, r) \/ ExactConsume(w, r)
        PROVE  UNCHANGED frame
    BY <2>7 DEF Submit, Reset, ExactPublish, ExactConsume
  <2> HIDE DEF A
  <2> QED BY <2>1, <2>2, <2>3, <2>4, <2>5, <2>6, <2>7 DEF Next
<1> QED BY <1>1, Invariance, PTL DEF Spec, FramesNeverRegress

===============================================================================
