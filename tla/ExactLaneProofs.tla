--------------------------- MODULE ExactLaneProofs ---------------------------
(***************************************************************************)
(* Proofs about ExactLane for every number of epochs, versions, job rows   *)
(* and faults.  The inductive invariant IInv says what the runner's        *)
(* program counter guarantees of the row it holds, that nothing is ahead   *)
(* of scene_version, and that completion is claimed only of a version that *)
(* has its result.                                                         *)
(***************************************************************************)
EXTENDS ExactLane, FiniteSetTheorems, WellFoundedInduction, SequenceTheorems, TLAPS

-----------------------------------------------------------------------------
(* Numbers and rows.                                                       *)

\* A set of natural numbers has a least one.
LEMMA LeastNumber ==
  ASSUME NEW T \in SUBSET Nat, T # {}
  PROVE  \E x \in T : \A y \in T : x <= y
<1>1. PICK x \in T : \A y \in T : ~(<<y, x>> \in OpToRel(<, Nat))
  BY WFMin, NatLessThanWellFounded
<1>2. \A y \in T : ~(y < x)
  BY <1>1 DEF OpToRel
<1> QED BY <1>2

\* MaxOf is the largest member of a bounded set.
LEMMA MaxOfProperties ==
  ASSUME NEW n \in Nat, NEW S \in SUBSET (-1 .. n), NEW least \in -1 .. n
  PROVE  /\ MaxOf(S, least) \in S \cup {least}
         /\ \A x \in S \cup {least} : x <= MaxOf(S, least)
<1> DEFINE T == {n - x : x \in S \cup {least}}
<1>1. T \in SUBSET Nat /\ T # {}
  OBVIOUS
<1>2. PICK t \in T : \A y \in T : t <= y
  BY <1>1, LeastNumber
<1>3. PICK m \in S \cup {least} : t = n - m
  BY <1>2
<1>4. \A x \in S \cup {least} : n - m <= n - x
  BY <1>2, <1>3
<1>5. \A x \in S \cup {least} : x <= m
  BY <1>4
<1> QED BY <1>3, <1>5 DEF MaxOf

\* S can be listed in increasing order.
Listable(S) ==
  \E q \in [1 .. Cardinality(S) -> S] :
     \A i, k \in 1 .. Cardinality(S) : i < k => q[i] < q[k]

\* A larger number can be put at the end of such a list.
LEMMA ListOneMore ==
  ASSUME NEW m \in Nat \ {0}, NEW V \in SUBSET (1 .. m - 1), Listable(V)
  PROVE  Listable(V \cup {m})
<1> DEFINE c == Cardinality(V)
<1>1. IsFiniteSet(V) /\ c \in Nat
  <2>1. IsFiniteSet(1 .. m - 1)
    BY FS_Interval
  <2> QED BY <2>1, FS_Subset, FS_CardinalityType
<1>2. PICK q \in [1 .. c -> V] : \A i, k \in 1 .. c : i < k => q[i] < q[k]
  BY DEF Listable
<1>3. Cardinality(V \cup {m}) = c + 1
  <2>1. m \notin V
    OBVIOUS
  <2> QED BY <1>1, <2>1, FS_AddElement
<1> DEFINE p == [i \in 1 .. c + 1 |-> IF i = c + 1 THEN m ELSE q[i]]
<1> HIDE DEF c
<1>4. p \in [1 .. c + 1 -> V \cup {m}]
  BY <1>1, <1>2
<1>5. ASSUME NEW i \in 1 .. c + 1, NEW k \in 1 .. c + 1, i < k
      PROVE  p[i] < p[k]
  <2>1. i \in 1 .. c /\ q[i] \in V /\ p[i] = q[i]
    BY <1>1, <1>2, <1>5
  <2>2. CASE k = c + 1
    <3>1. q[i] \in 1 .. m - 1 /\ p[k] = m
      BY <2>1, <2>2
    <3> QED BY <2>1, <3>1
  <2>3. CASE k # c + 1
    BY <1>1, <1>2, <1>5, <2>1, <2>3
  <2> QED BY <2>2, <2>3
<1> QED BY <1>3, <1>4, <1>5 DEF Listable

\* A finite set of numbers can be listed in increasing order: there is no
\* least bound up to which some set cannot.
LEMMA RowsAreListable ==
  ASSUME NEW n \in Nat, NEW S \in SUBSET (1 .. n)
  PROVE  Listable(S)
<1> DEFINE Bad == {m \in Nat : \E U \in SUBSET (1 .. m) : ~Listable(U)}
<1> SUFFICES ASSUME Bad # {} PROVE FALSE
  OBVIOUS
<1>1. PICK m \in Bad : \A y \in Bad : m <= y
  BY LeastNumber
<1>2. PICK U \in SUBSET (1 .. m) : m \in Nat /\ ~Listable(U)
  BY <1>1
<1>3. CASE m = 0
  <2>1. U = {}
    BY <1>3
  <2>2. Cardinality({}) = 0
    BY FS_EmptySet
  <2>3. 1 .. 0 = {} /\ <<>> \in [{} -> {}]
    OBVIOUS
  <2>4. Listable({})
    BY <2>2, <2>3 DEF Listable
  <2> QED BY <1>2, <2>1, <2>4
<1>4. CASE m # 0
  <2>1. m - 1 \in Nat /\ ~(m <= m - 1) /\ m \in Nat \ {0}
    BY <1>2, <1>4
  <2>2. m - 1 \notin Bad
    BY <1>1, <2>1
  <2>3. \A V \in SUBSET (1 .. m - 1) : Listable(V)
    BY <2>1, <2>2
  <2>4. U \ {m} \in SUBSET (1 .. m - 1)
    BY <2>1
  <2>5. CASE m \in U
    <3>1. Listable((U \ {m}) \cup {m})
      BY <2>1, <2>3, <2>4, ListOneMore
    <3>2. (U \ {m}) \cup {m} = U
      BY <2>5
    <3> QED BY <1>2, <3>1, <3>2
  <2>6. CASE m \notin U
    <3>1. U \ {m} = U
      BY <2>6
    <3> QED BY <1>2, <2>3, <2>4, <3>1
  <2> QED BY <2>5, <2>6
<1> QED BY <1>3, <1>4

\* nonterminal_jobs lists exactly the rows asked for.
LEMMA InRowOrderProperties ==
  ASSUME NEW S \in SUBSET JobId
  PROVE  /\ InRowOrder(S) \in Seq(JobId)
         /\ \A j \in S : \E i \in DOMAIN InRowOrder(S) : InRowOrder(S)[i] = j
<1> DEFINE c == Cardinality(S)
           q == InRowOrder(S)
<1>1. IsFiniteSet(S) /\ c \in Nat
  <2>1. IsFiniteSet(JobId)
    BY FS_Interval, BoundsAssumption DEF JobId
  <2> QED BY <2>1, FS_Subset, FS_CardinalityType
<1>2. \E f \in [1 .. c -> S] : \A i, k \in 1 .. c : i < k => f[i] < f[k]
  BY RowsAreListable, BoundsAssumption DEF JobId, Listable
<1>3. q \in [1 .. c -> S] /\ \A i, k \in 1 .. c : i < k => q[i] < q[k]
  BY <1>2 DEF InRowOrder
<1> HIDE DEF c, q
<1>4. q \in Injection(1 .. c, S)
  <2>1. \A i, k \in 1 .. c : q[i] = q[k] => i = k
    <3>1. \A i \in 1 .. c : q[i] \in Nat
      <4>1. \A i \in 1 .. c : q[i] \in JobId
        BY <1>3
      <4> QED BY <4>1, BoundsAssumption DEF JobId
    <3> QED BY <1>1, <1>3, <3>1
  <2> QED BY <1>3, <2>1 DEF Injection, IsInjective
<1>5. IsFiniteSet(1 .. c) /\ Cardinality(1 .. c) = c
  BY <1>1, FS_Interval
<1>6. q \in Surjection(1 .. c, S)
  BY <1>1, <1>4, <1>5, FS_Injection DEF c
<1>7. \A j \in S : \E i \in 1 .. c : q[i] = j
  BY <1>6 DEF Surjection
<1>8. q \in Seq(JobId) /\ DOMAIN q = 1 .. c
  BY <1>1, <1>3
<1> QED BY <1>7, <1>8 DEF q

-----------------------------------------------------------------------------
(* The inductive invariant.                                                *)

Busy == {"execute", "solve", "check", "publish", "latest", "republish",
         "consume", "finish", "settle"}
Pcs  == Busy \cup {"idle", "tick", "reconcile", "down", "boot"}
Ats  == {"rest", "heal", "reopen", "funnel", "tick", "put"}

\* Types of what the two threads hold, and what their guards have established:
\* a row for what is submitted, room below the attempt ceiling.
MemoryOK ==
  /\ tick \in [Thread -> [on : BOOLEAN, rev : [Epoch -> Version],
                          consumedRev : Version, consumedSeq : 0 .. NumEpochs,
                          reconcile : BOOLEAN]]
  /\ ~tick["route"].reconcile
  /\ tick["runner"].reconcile => attempts < AttemptsPerDay
  /\ pc \in Pcs /\ (pc \in Busy => cur \in JobId)
  /\ ending \in [status : Ended, settle : {"none", "debt", "day"}]
  /\ route \in [at : Ats, job : JobId \cup {NoJob}, boot : BOOLEAN]
  /\ route.at \in {"reopen", "funnel"} => route.job \in JobId

\* Nothing is ahead of scene_version, and exact_result_version is the newest
\* version that has a result.
VersionsOK ==
  /\ exactVersion <= sceneVersion
  /\ \A v \in Version : results[v] # -1 => v <= exactVersion
  /\ \A e \in Epoch : rev[e] <= sceneVersion
  /\ \A j \in JobId : spec[j].target <= sceneVersion

\* Rows are inserted one after another; only the runner's current row runs, or
\* one whose dispatch raised, and the runner lets go of a row only once it has
\* ended (a boot may have queued it again by then).
JobsOK ==
  /\ \E k \in 0 .. MaxJobs : \A j \in JobId : status[j] # "absent" <=> j <= k
  /\ \A j \in JobId : status[j] = "running" =>
        pc = "down" \/ (pc \in Busy /\ cur = j) \/ j \in dropped
  /\ pc = "execute" => status[cur] # "absent"
  /\ pc \in Busy \ {"execute", "settle"} => status[cur] \in Ended \cup {"running"}
  /\ pc = "settle" => status[cur] \in Ended \cup {"queued"}
  /\ pc \notin Busy => cur = NoJob

\* The runner claims completion only of a version that has its result.
EndingOK ==
  ending.status = "complete" =>
    pc \in {"consume", "settle"} /\ results[spec[cur].target] # -1

\* No tick would mint anything.
Quieted == ~(Gap /\ Audience /\ Armed)

\* The tick of start either has read the epoch rows as they are or has left
\* nothing to mint; until the boot has looked at the newest row, no other row is
\* added, and the runner holds none that could be put back in the queue.
BootOK ==
  /\ pc = "down" => route = AtRest /\ \A t \in Thread : ~tick[t].on
  /\ pc = "boot" => /\ route.boot /\ route.job = NoJob /\ route.at \in {"tick", "put"}
                    /\ ~tick["runner"].on
                    /\ tick["route"].on => tick["route"].consumedRev = ConsumedRev
                    /\ route.at = "put" /\ ~tick["route"].on => Quieted
  /\ route.at \in {"heal", "reopen"} =>
        route.boot /\ SharedWorld /\ Quieted /\ \A t \in Thread : ~tick[t].on
  /\ route.at = "heal" => route.job = NoJob
  /\ route.at = "reopen" => /\ status[route.job] \in {"failed", "cancelled"}
                            /\ \A k \in JobId : k > route.job => status[k] = "absent"
  /\ route.boot /\ pc \in Busy \ {"settle"} => status[cur] \notin {"failed", "cancelled"}

\* Of two exact rows with one target the older has ended, so that only the
\* newest row can be put back in the queue without a rival.
OneFlight ==
  \A i, k \in ExactJobs : i < k /\ spec[i].target = spec[k].target => status[i] \in Ended

IInv ==
  /\ TypeOK /\ MemoryOK /\ VersionsOK /\ JobsOK /\ EndingOK /\ BootOK
  /\ OneFlight /\ CompleteIsSettled /\ NoJobIsLost

-----------------------------------------------------------------------------
(* What the operators return.                                              *)

\* The bounds as the provers need them.
LEMMA Ranges ==
  /\ NumEpochs \in Nat /\ MaxVersion \in Nat /\ MaxJobs \in Nat
  /\ AttemptsPerDay \in Nat \ {0} /\ 0 \in Version
  /\ Epoch \subseteq Nat /\ Version \subseteq Nat /\ JobId \subseteq Nat
  /\ NoJob \notin JobId /\ -1 \notin JobId
BY BoundsAssumption DEF Epoch, Version, JobId, NoJob

\* The revisions and sequences a tick reads off the epoch rows.
LEMMA ReadingType ==
  ASSUME TypeOK, NEW b \in BOOLEAN
  PROVE  Reading(b) \in [on : BOOLEAN, rev : [Epoch -> Version],
                         consumedRev : Version, consumedSeq : 0 .. NumEpochs,
                         reconcile : BOOLEAN]
<1>1. settled \subseteq Epoch /\ rev \in [Epoch -> Version]
  BY DEF TypeOK, Assigned
<1>2. ConsumedRev \in Version
  <2> DEFINE S == {rev[e] : e \in settled}
  <2>1. S \in SUBSET (-1 .. MaxVersion)
    BY <1>1, Ranges DEF Version
  <2>2. ConsumedRev \in S \cup {0}
    <3>1. ConsumedRev = MaxOf(S, 0)
      BY DEF ConsumedRev
    <3> HIDE DEF S
    <3> QED BY <2>1, <3>1, Ranges, MaxOfProperties
  <2> QED BY <1>1, <2>2, Ranges
<1>3. ConsumedSeq \in 0 .. NumEpochs
  <2>1. settled \in SUBSET (-1 .. NumEpochs)
    BY <1>1, Ranges DEF Epoch
  <2>2. ConsumedSeq \in settled \cup {0}
    BY <2>1, Ranges, MaxOfProperties DEF ConsumedSeq
  <2> QED BY <1>1, <2>2, Ranges DEF Epoch
<1> QED BY <1>1, <1>2, <1>3 DEF Reading

\* The row the tick inserts.
LEMMA MintedType ==
  ASSUME TypeOK, MemoryOK, NEW t \in Thread
  PROVE  /\ MintedSpec(tick[t]) \in [exact : BOOLEAN, reconcile : BOOLEAN,
              target : Version, consumedRev : Version, consumedSeq : 0 .. NumEpochs,
              spanHi : 0 .. NumEpochs]
         /\ MintedSpec(tick[t]).target = sceneVersion
         /\ MintedSpec(tick[t]).exact
<1> DEFINE r == tick[t]
<1>1. /\ r.consumedRev \in Version /\ r.consumedSeq \in 0 .. NumEpochs
      /\ r.reconcile \in BOOLEAN
  BY DEF MemoryOK
<1>2. SpanHi(r, sceneVersion) \in 0 .. NumEpochs
  <2> DEFINE S == {e \in Epoch : r.consumedRev < r.rev[e] /\ r.rev[e] <= sceneVersion}
  <2>1. S \in SUBSET (-1 .. NumEpochs)
    BY Ranges DEF Epoch
  <2>2. SpanHi(r, sceneVersion) = MaxOf(S, 0)
    BY DEF SpanHi
  <2> HIDE DEF S
  <2>3. MaxOf(S, 0) \in S \cup {0}
    BY <2>1, Ranges, MaxOfProperties
  <2>4. S \subseteq 0 .. NumEpochs
    BY Ranges DEF S, Epoch
  <2>5. S \cup {0} \subseteq 0 .. NumEpochs
    BY <2>4, Ranges
  <2> HIDE DEF r
  <2> QED BY <2>2, <2>3, <2>5
<1> HIDE DEF r
<1>3. sceneVersion \in Version
  BY DEF TypeOK
<1> QED BY <1>1, <1>2, <1>3 DEF MintedSpec, r

\* The next row id is the first unused one.
LEMMA NextJobCounts ==
  ASSUME TypeOK, JobsOK
  PROVE  /\ NextJob \in Nat \ {0}
         /\ \A j \in JobId : status[j] # "absent" <=> j < NextJob
<1>1. PICK k \in 0 .. MaxJobs : \A j \in JobId : status[j] # "absent" <=> j <= k
  BY DEF JobsOK
<1>2. {j \in JobId : status[j] # "absent"} = 1 .. k
  BY <1>1, Ranges DEF JobId
<1>3. Cardinality(1 .. k) = k
  BY <1>1, FS_Interval
<1>4. NextJob = k + 1
  BY <1>2, <1>3 DEF NextJob
<1>5. k \in Nat /\ \A j \in JobId : j \in Nat
  BY <1>1, Ranges
<1> QED BY <1>1, <1>4, <1>5

LEMMA NextJobIsFresh ==
  ASSUME TypeOK, JobsOK, NextJob <= MaxJobs
  PROVE  /\ NextJob \in JobId /\ status[NextJob] = "absent"
         /\ \A j \in JobId : status[j] # "absent" <=> j < NextJob
<1>1. NextJob \in JobId
  BY NextJobCounts, Ranges DEF JobId
<1> QED BY <1>1, NextJobCounts, Ranges

\* Types of the job the runner holds.
LEMMA CurrentType ==
  ASSUME TypeOK, MemoryOK, pc \in Busy
  PROVE  /\ cur \in JobId /\ Current.target \in Version /\ Current.exact \in BOOLEAN
         /\ \A st \in Ended, how \in {"none", "debt", "day"} :
              End(st, how) \in [status : Ended, settle : {"none", "debt", "day"}]
         /\ \A full \in BOOLEAN :
              Completed(full) \in [status : Ended, settle : {"none", "debt", "day"}]
<1>1. cur \in JobId
  BY DEF MemoryOK
<1>2. Current.target \in Version /\ Current.exact \in BOOLEAN
  BY <1>1 DEF TypeOK, Current
<1>3. \A st \in Ended, how \in {"none", "debt", "day"} :
         End(st, how) \in [status : Ended, settle : {"none", "debt", "day"}]
  BY DEF End
<1>4. \A full \in BOOLEAN :
         Completed(full) \in [status : Ended, settle : {"none", "debt", "day"}]
  BY <1>3 DEF Completed, Ended
<1> QED BY <1>1, <1>2, <1>3, <1>4

-----------------------------------------------------------------------------
(* Types.                                                                  *)

\* What reaches the workspace from outside keeps the types.
LEMMA OutsideType ==
  ASSUME IInv, CloseEpoch \/ (\E e \in Epoch : CommitEpoch(e)) \/ LegacyCommit
                 \/ Reset \/ (\E j \in JobId : Cancel(j)) \/ MoveAudience \/ NewDay
                 \/ Funnel \/ PutLegacy
  PROVE  TypeOK' /\ MemoryOK'
<1> USE Ranges DEF IInv
<1>1. CASE CloseEpoch
  <2>1. logged' \in 0 .. NumEpochs
    <3>1. logged < NumEpochs /\ logged' = logged + 1
      BY <1>1 DEF TypeOK, CloseEpoch
    <3> QED BY <3>1 DEF TypeOK
  <2> QED BY <1>1, <2>1 DEF TypeOK, MemoryOK, CloseEpoch, memoryVars, Assigned
<1>2. ASSUME NEW e \in Epoch, CommitEpoch(e) PROVE TypeOK' /\ MemoryOK'
  <2>1. sceneVersion + 1 \in Version
    BY <1>2 DEF TypeOK, CommitEpoch, Version
  <2>2. rev' \in [Epoch -> Version] /\ Assigned \subseteq Assigned'
    BY <1>2, <2>1 DEF TypeOK, CommitEpoch, Assigned
  <2> QED BY <1>2, <2>1, <2>2 DEF TypeOK, MemoryOK, CommitEpoch, memoryVars
<1>3. CASE LegacyCommit
  <2> DEFINE n == NextJob
  <2>1. n \in JobId
    BY <1>3, NextJobIsFresh DEF LegacyCommit
  <2>2. sceneVersion + 1 \in Version /\ 0 \in 0 .. NumEpochs
    BY <1>3, SMTT(30) DEF TypeOK, LegacyCommit, Version
  <2> HIDE DEF n
  <2>3. spec' \in [JobId -> [exact : BOOLEAN, reconcile : BOOLEAN, target : Version,
                         consumedRev : Version, consumedSeq : 0 .. NumEpochs,
                         spanHi : 0 .. NumEpochs]]
    BY <1>3, <2>1, <2>2 DEF TypeOK, LegacyCommit, NoSpec, n
  <2>4. status' \in [JobId -> Status]
    BY <1>3, <2>1 DEF TypeOK, LegacyCommit, Supersede, Status, n
  <2>5. route' = [at |-> "funnel", job |-> n, boot |-> FALSE]
    BY <1>3 DEF LegacyCommit, n
  <2>6. UNCHANGED <<exactVersion, logged, rev, settled, results, queue, attempted,
                    attempts, tick, pc, cur, ending, dropped>> /\ sceneVersion' \in Version
    BY <1>3, <2>2 DEF LegacyCommit
  <2>7. TypeOK'
    BY <2>3, <2>4, <2>6 DEF TypeOK, Assigned
  <2>8. MemoryOK'
    BY <2>1, <2>5, <2>6 DEF MemoryOK, Ats
  <2> QED BY <2>7, <2>8
<1>4. CASE Reset
  <2>1. sceneVersion + 1 \in Version
    BY <1>4 DEF TypeOK, Reset, Version
  <2>2. status' \in [JobId -> Status]
    BY <1>4 DEF TypeOK, Reset, Supersede, Status
  <2> QED BY <1>4, <2>1, <2>2 DEF TypeOK, MemoryOK, Reset, memoryVars, Assigned
<1>5. ASSUME NEW j \in JobId, Cancel(j) PROVE TypeOK' /\ MemoryOK'
  <2>1. status' \in [JobId -> Status]
    BY <1>5 DEF TypeOK, Cancel, Finish, Status
  <2> QED BY <1>5, <2>1 DEF TypeOK, MemoryOK, Cancel, memoryVars, Assigned
<1>6. CASE MoveAudience
  BY <1>6 DEF TypeOK, MemoryOK, MoveAudience, memoryVars, storeVars, Assigned
<1>7. CASE NewDay
  BY <1>7, SMTT(30) DEF TypeOK, MemoryOK, NewDay, Assigned
<1>8. CASE Funnel
  <2>1. logged' \in 0 .. NumEpochs
    <3>1. logged' = logged \/ (logged < NumEpochs /\ logged' = logged + 1)
      BY <1>8 DEF Funnel
    <3> QED BY <3>1 DEF TypeOK
  <2> QED BY <1>8, <2>1 DEF TypeOK, MemoryOK, Funnel, Assigned, Ats
<1>9. CASE PutLegacy
  <2>1. queue' \in Seq(JobId)
    <3>1. route.job \in JobId
      BY <1>9 DEF MemoryOK, PutLegacy
    <3> QED BY <1>9, <3>1, AppendProperties DEF TypeOK, PutLegacy
  <2> QED BY <1>9, <2>1 DEF TypeOK, MemoryOK, PutLegacy, storeVars, AtRest, Assigned, Ats
<1> QED BY <1>1, <1>2, <1>3, <1>4, <1>5, <1>6, <1>7, <1>8, <1>9

\* The ticks keep the types; the attempt ceiling holds although it is compared
\* in an earlier step than the one that counts.
LEMMA TickType ==
  ASSUME IInv, RouteTick \/ RunnerTick \/ ReconcileMint \/ ReconcileLater
                 \/ (\E t \in Thread : TickMint(t))
  PROVE  TypeOK' /\ MemoryOK'
<1> USE Ranges DEF IInv
<1>0. "route" \in Thread /\ "runner" \in Thread
  BY DEF Thread
<1>1. ASSUME NEW t \in Thread, TickRead(t)
      PROVE  /\ tick' \in [Thread -> [on : BOOLEAN, rev : [Epoch -> Version],
                          consumedRev : Version, consumedSeq : 0 .. NumEpochs,
                          reconcile : BOOLEAN]]
             /\ \A u \in Thread : tick'[u].reconcile => tick[u].reconcile
  <2>1. tick' = tick \/ tick' = [tick EXCEPT ![t] = Reading(FALSE)]
    BY <1>1 DEF TickRead
  <2>2. Reading(FALSE).reconcile = FALSE
    BY DEF Reading
  <2>3. Reading(FALSE) \in [on : BOOLEAN, rev : [Epoch -> Version],
                            consumedRev : Version, consumedSeq : 0 .. NumEpochs,
                            reconcile : BOOLEAN]
    BY ReadingType
  <2>4. CASE tick' = tick
    BY <2>4 DEF MemoryOK
  <2>5. CASE tick' = [tick EXCEPT ![t] = Reading(FALSE)]
    BY <2>2, <2>3, <2>5 DEF MemoryOK
  <2> QED BY <2>1, <2>4, <2>5
<1>2. CASE RouteTick
  BY <1>0, <1>1, <1>2 DEF TypeOK, MemoryOK, RouteTick, Assigned, Ats
<1>3. CASE RunnerTick
  <2>1. pc \in {"tick", "idle"} /\ pc' \in {"idle", "reconcile"}
    BY <1>3 DEF RunnerTick
  <2>2. pc' \in Pcs /\ pc' \notin Busy
    BY <2>1 DEF Pcs, Busy
  <2> QED BY <1>0, <1>1, <1>3, <2>2 DEF TypeOK, MemoryOK, RunnerTick, Assigned
<1>4. CASE ReconcileMint
  <2>1. /\ tick' = [tick EXCEPT !["runner"] = Reading(TRUE)]
        /\ attempts < AttemptsPerDay /\ pc' = "idle"
        /\ UNCHANGED <<storeVars, queue, attempted, attempts, cur, ending, route,
                       dropped>>
    BY <1>4 DEF ReconcileMint, ReconcileDue
  <2> QED BY <1>0, <2>1, ReadingType
          DEF TypeOK, MemoryOK, storeVars, Pcs, Busy, Assigned
<1>5. CASE ReconcileLater
  BY <1>5 DEF TypeOK, MemoryOK, ReconcileLater, storeVars, Pcs, Busy, Assigned
<1>6. ASSUME NEW t \in Thread, TickMint(t) PROVE TypeOK' /\ MemoryOK'
  <2> DEFINE n == NextJob
  <2>1. n \in JobId
    BY <1>6, NextJobIsFresh DEF TickMint
  <2> HIDE DEF n
  <2>2. /\ tick' = [tick EXCEPT ![t] = Quiet]
        /\ UNCHANGED <<sceneVersion, exactVersion, logged, rev, settled, results,
                       pc, cur, ending, route, dropped>>
        /\ attempted' \in {attempted, sceneVersion}
        /\ attempts' = attempts \/ (tick[t].reconcile /\ attempts' = attempts + 1)
        /\ spec' = spec \/ spec' = [spec EXCEPT ![n] = MintedSpec(tick[t])]
        /\ status' = status \/ status' = Supersede([status EXCEPT ![n] = "queued"], n)
        /\ queue' = queue \/ queue' = Append(queue, n)
    BY <1>6 DEF TickMint, n
  <2>3. Quiet \in [on : BOOLEAN, rev : [Epoch -> Version], consumedRev : Version,
                   consumedSeq : 0 .. NumEpochs, reconcile : BOOLEAN]
        /\ ~Quiet.reconcile
    BY DEF Quiet
  <2>4. /\ tick' \in [Thread -> [on : BOOLEAN, rev : [Epoch -> Version],
                          consumedRev : Version, consumedSeq : 0 .. NumEpochs,
                          reconcile : BOOLEAN]]
        /\ ~tick'[t].reconcile /\ \A u \in Thread : tick'[u].reconcile => tick[u].reconcile
    BY <2>2, <2>3 DEF MemoryOK
  <2>5. attempts' \in 0 .. AttemptsPerDay /\ (tick'["runner"].reconcile => attempts' = attempts)
    <3>1. attempts' = attempts \/ (t = "runner" /\ attempts < AttemptsPerDay
                                    /\ attempts' = attempts + 1)
      BY <2>2 DEF MemoryOK, Thread
    <3> QED BY <2>4, <3>1 DEF TypeOK
  <2>6. spec' \in [JobId -> [exact : BOOLEAN, reconcile : BOOLEAN, target : Version,
                         consumedRev : Version, consumedSeq : 0 .. NumEpochs,
                         spanHi : 0 .. NumEpochs]]
    <3>1. MintedSpec(tick[t]) \in [exact : BOOLEAN, reconcile : BOOLEAN,
              target : Version, consumedRev : Version, consumedSeq : 0 .. NumEpochs,
              spanHi : 0 .. NumEpochs]
      BY MintedType
    <3> QED BY <2>1, <2>2, <3>1 DEF TypeOK
  <2>7. status' \in [JobId -> Status]
    BY <2>1, <2>2 DEF TypeOK, Supersede, Status
  <2>8. queue' \in Seq(JobId)
    <3>1. queue \in Seq(JobId)
      BY DEF TypeOK
    <3>2. Append(queue, n) \in Seq(JobId)
      BY <2>1, <3>1, AppendProperties
    <3> QED BY <2>2, <3>1, <3>2
  <2>9. TypeOK'
    BY <2>2, <2>5, <2>6, <2>7, <2>8 DEF TypeOK, Assigned
  <2>10. MemoryOK'
    BY <1>0, <2>2, <2>4, <2>5 DEF MemoryOK
  <2> QED BY <2>9, <2>10
<1> QED BY <1>2, <1>3, <1>4, <1>5, <1>6

\* The runner's own steps keep the types.
LEMMA RunnerType ==
  ASSUME IInv, Take \/ Execute \/ SolverRaises \/ SolverLost \/ SolverSuperseded
                 \/ SolverPublishes \/ SolverNoop \/ SolverRefuses
                 \/ ConsumeEpoch \/ FinishJob \/ SettleDebt
  PROVE  TypeOK' /\ MemoryOK'
<1> USE Ranges DEF IInv
<1>1. CASE Take
  <2>1. Head(queue) \in JobId /\ Tail(queue) \in Seq(JobId)
    BY <1>1, HeadTailProperties DEF TypeOK, Take
  <2>2. /\ queue' = Tail(queue)
        /\ \/ pc' \in {"idle", "tick"} /\ cur' = cur
           \/ pc' = "execute" /\ cur' = Head(queue)
        /\ status' = status \/ Finish(Head(queue), "superseded")
        /\ UNCHANGED <<sceneVersion, exactVersion, logged, rev, settled, spec, results,
                       attempted, attempts, tick, ending, route, dropped>>
    BY <1>1 DEF Take
  <2>3. status' \in [JobId -> Status]
    BY <2>1, <2>2 DEF TypeOK, Finish, Status
  <2>4. cur' \in JobId \cup {NoJob} /\ pc' \in Pcs /\ (pc' \in Busy => cur' \in JobId)
    BY <2>1, <2>2 DEF TypeOK, Pcs, Busy
  <2> QED BY <2>1, <2>2, <2>3, <2>4 DEF TypeOK, MemoryOK, Assigned
<1>2. CASE Execute
  <2>1. cur \in JobId
    BY <1>2 DEF Execute, MemoryOK, Busy
  <2>2. status' \in [JobId -> Status]
    BY <1>2, <2>1 DEF TypeOK, Execute, Status
  <2>3. UNCHANGED <<sceneVersion, exactVersion, logged, rev, settled, spec, results,
                    queue, attempted, attempts, tick, route, cur, ending, dropped>>
        /\ pc' = "solve"
    BY <1>2 DEF Execute, runnerFrame
  <2> QED BY <2>1, <2>2, <2>3 DEF TypeOK, MemoryOK, Pcs, Busy, Assigned
<1>3. ASSUME NEW next \in {"finish", "check", "latest", "consume"},
             NEW how \in [status : Ended, settle : {"none", "debt", "day"}],
             Returns(next, how)
      PROVE  TypeOK' /\ MemoryOK'
  <2>1. cur \in JobId
    BY <1>3 DEF Returns, MemoryOK, Busy
  <2>2. UNCHANGED <<sceneVersion, exactVersion, logged, rev, settled, spec, results,
                    queue, attempted, attempts, tick, route, cur, status, dropped>>
        /\ pc' = next /\ ending' = how
    BY <1>3 DEF Returns, runnerFrame
  <2> QED BY <2>1, <2>2 DEF TypeOK, MemoryOK, Pcs, Busy, Assigned
<1>4. CASE SolverRaises \/ SolverLost \/ SolverSuperseded \/ SolverPublishes
             \/ SolverNoop \/ SolverRefuses
  <2>1. pc = "solve" /\ pc \in Busy
    BY <1>4 DEF SolverRaises, SolverLost, SolverSuperseded, SolverPublishes,
                SolverNoop, SolverRefuses, Returns, Busy
  <2>2. /\ NoEnd \in [status : Ended, settle : {"none", "debt", "day"}]
        /\ \A st \in Ended, how \in {"none", "debt", "day"} :
              End(st, how) \in [status : Ended, settle : {"none", "debt", "day"}]
        /\ "failed" \in Ended /\ "superseded" \in Ended
    BY <2>1, CurrentType DEF NoEnd, Ended
  <2>3. \E next \in {"finish", "check", "latest", "consume"},
            how \in [status : Ended, settle : {"none", "debt", "day"}] :
               Returns(next, how)
    <3>1. CASE SolverRaises
      BY <2>2, <3>1 DEF SolverRaises
    <3>2. CASE SolverLost \/ SolverSuperseded
      BY <2>2, <3>2 DEF SolverLost, SolverSuperseded
    <3>3. CASE SolverPublishes \/ SolverNoop
      BY <2>2, <3>3 DEF SolverPublishes, SolverNoop
    <3>4. CASE SolverRefuses
      <4>1. RefusedNext \in {"consume", "finish"}
        BY DEF RefusedNext
      <4>2. (IF Current.exact THEN End("failed", "debt") ELSE End("superseded", "none"))
               \in [status : Ended, settle : {"none", "debt", "day"}]
        BY <2>2
      <4> QED BY <3>4, <4>1, <4>2 DEF SolverRefuses
    <3> QED BY <1>4, <3>1, <3>2, <3>3, <3>4
  <2> QED BY <1>3, <2>3
<1>5. CASE ConsumeEpoch
  <2>1. (CHOOSE e \in Consumable : \A f \in Consumable : e <= f) \in Assigned
    <3>1. Consumable \in SUBSET Nat /\ Consumable # {} /\ Consumable \subseteq Assigned
      BY <1>5 DEF ConsumeEpoch, Consumable, Assigned
    <3> QED BY <3>1, LeastNumber
  <2>2. settled' \subseteq Assigned /\ UNCHANGED <<sceneVersion, exactVersion, logged,
          rev, status, spec, results, memoryVars>>
    BY <1>5, <2>1 DEF ConsumeEpoch, TypeOK
  <2> QED BY <2>2 DEF TypeOK, MemoryOK, memoryVars, Assigned
<1>6. CASE FinishJob
  <2>1. cur \in JobId /\ ending.status \in Ended
    BY <1>6 DEF FinishJob, MemoryOK, Busy
  <2>2. status' \in [JobId -> Status]
    BY <1>6, <2>1 DEF TypeOK, FinishJob, Finish, Status, Ended
  <2>3. UNCHANGED <<sceneVersion, exactVersion, logged, rev, settled, spec, results,
                    queue, attempted, attempts, tick, route, cur, ending, dropped>>
        /\ pc' = "settle"
    BY <1>6 DEF FinishJob, runnerFrame
  <2> QED BY <2>1, <2>2, <2>3 DEF TypeOK, MemoryOK, Pcs, Busy, Assigned
<1>7. CASE SettleDebt
  <2>1. attempts' \in {0, attempts} /\ pc' = "tick" /\ cur' = NoJob /\ ending' = NoEnd
        /\ UNCHANGED <<sceneVersion, exactVersion, logged, rev, settled, status, spec,
                       results, queue, attempted, tick, route, dropped>>
    BY <1>7 DEF SettleDebt
  <2> QED BY <2>1, SMTT(30) DEF TypeOK, MemoryOK, Pcs, Busy, NoEnd, Ended, Assigned
<1> QED BY <1>1, <1>2, <1>4, <1>5, <1>6, <1>7

\* Finalizing keeps the types.
LEMMA FinalizeType ==
  ASSUME IInv, Check \/ Publish \/ NoopLatest \/ Republish
  PROVE  TypeOK' /\ MemoryOK'
<1> USE Ranges DEF IInv
<1>0. pc \in Busy
  BY DEF Check, Publish, NoopLatest, Republish, Busy
<1>1. /\ cur \in JobId /\ Current.target \in Version
      /\ NoEnd \in [status : Ended, settle : {"none", "debt", "day"}]
      /\ End("superseded", "none") \in [status : Ended, settle : {"none", "debt", "day"}]
      /\ End("failed", "none") \in [status : Ended, settle : {"none", "debt", "day"}]
      /\ \A full \in BOOLEAN :
           Completed(full) \in [status : Ended, settle : {"none", "debt", "day"}]
  <2>1. "superseded" \in Ended /\ "failed" \in Ended
    BY DEF Ended
  <2> QED BY <1>0, <2>1, CurrentType DEF NoEnd
<1> DEFINE Ends == [status : Ended, settle : {"none", "debt", "day"}]
           Moves == \E next \in {"finish", "publish", "consume", "republish"},
                       how \in Ends : EndAt(next, how)
           Rows == \E how \in Ends : PublishRow(how)
<1>2. UNCHANGED publishFrame /\ (Discard \/ Moves \/ Rows)
  <2>1. CASE Check
    BY <1>1, <2>1 DEF Check
  <2>2. CASE Publish
    BY <1>1, <2>2 DEF Publish
  <2>3. CASE NoopLatest
    BY <1>1, <2>3 DEF NoopLatest, NoopNothing
  <2>4. CASE Republish
    BY <1>1, <2>4 DEF Republish
  <2> QED BY <2>1, <2>2, <2>3, <2>4
<1>3. CASE Discard
  BY <1>2, <1>3 DEF TypeOK, MemoryOK, Discard, publishFrame, Pcs, Busy, Assigned
<1>4. CASE Moves
  <2>1. PICK next \in {"finish", "publish", "consume", "republish"}, how \in Ends :
            EndAt(next, how)
    BY <1>4
  <2> QED BY <1>1, <1>2, <2>1
          DEF TypeOK, MemoryOK, EndAt, publishFrame, Pcs, Busy, Assigned
<1>5. CASE Rows
  <2>1. PICK how \in Ends : PublishRow(how)
    BY <1>5
  <2>2. MaxOf({Current.target}, exactVersion) \in Version
    <3>1. {Current.target} \in SUBSET (-1 .. MaxVersion) /\ exactVersion \in -1 .. MaxVersion
      BY <1>1 DEF TypeOK, Version
    <3>2. MaxOf({Current.target}, exactVersion) \in {Current.target} \cup {exactVersion}
      BY <3>1, MaxOfProperties
    <3> QED BY <1>1, <3>2 DEF TypeOK
  <2>3. results' \in [Version -> JobId \cup {NoJob, -1}] /\ exactVersion' \in Version
        /\ pc' = "consume" /\ ending' = how /\ cur' = cur
    BY <1>1, <2>1, <2>2 DEF PublishRow, TypeOK
  <2> QED BY <1>1, <1>2, <2>3 DEF TypeOK, MemoryOK, publishFrame, Pcs, Busy, Assigned
<1> QED BY <1>2, <1>3, <1>4, <1>5

\* A restart, the boot and a dispatch that raises keep the types.
LEMMA ProcessType ==
  ASSUME IInv, Crash \/ Start \/ Started \/ Heal \/ Reopen \/ RunnerRaises
  PROVE  TypeOK' /\ MemoryOK'
<1> USE Ranges DEF IInv
<1>0. NoEnd \in [status : Ended, settle : {"none", "debt", "day"}]
      /\ AtRest \in [at : Ats, job : JobId \cup {NoJob}, boot : BOOLEAN]
  BY DEF NoEnd, AtRest, Ended, Ats
<1>1. CASE Crash
  <2>1. queue' = <<>> /\ attempted' = 0 /\ attempts' = 0 /\ pc' = "down" /\ cur' = NoJob
        /\ tick' = [t \in Thread |-> Quiet] /\ ending' = NoEnd /\ route' = AtRest
        /\ dropped' = {} /\ UNCHANGED storeVars
    BY <1>1 DEF Crash
  <2>2. queue' \in Seq(JobId)
    BY <2>1
  <2>3. tick' \in [Thread -> [on : BOOLEAN, rev : [Epoch -> Version],
                          consumedRev : Version, consumedSeq : 0 .. NumEpochs,
                          reconcile : BOOLEAN]]
        /\ \A t \in Thread : ~tick'[t].reconcile
    BY <2>1 DEF Quiet
  <2>4. TypeOK'
    BY <2>1, <2>2 DEF TypeOK, storeVars, Assigned
  <2>5. route'.at = "rest" /\ pc' \in Pcs /\ pc' \notin Busy
    BY <2>1 DEF AtRest, Pcs, Busy
  <2>6. MemoryOK'
    BY <1>0, <2>1, <2>3, <2>5 DEF MemoryOK, Thread
  <2> QED BY <2>4, <2>6
<1>2. CASE Start
  <2>1. queue' \in Seq(JobId)
    BY <1>2, InRowOrderProperties DEF Start, Recovered
  <2>2. status' \in [JobId -> Status]
    BY <1>2 DEF Start, Requeued, TypeOK, Status
  <2> QED BY <1>2, <2>1, <2>2 DEF TypeOK, MemoryOK, Start, Pcs, Busy, Ats, Assigned
<1>3. CASE Started \/ Heal
  <2>1. /\ UNCHANGED <<storeVars, queue, attempted, attempts, tick, cur, ending, dropped>>
        /\ pc' = pc \/ pc' = "idle"
    BY <1>3 DEF Started, Heal
  <2>2. /\ route' \in [at : Ats, job : JobId \cup {NoJob}, boot : BOOLEAN]
        /\ route'.at \in {"reopen", "funnel"} => route'.job \in JobId
    <3>1. CASE route' = AtRest
      BY <1>0, <3>1 DEF AtRest
    <3>2. CASE route' = [route EXCEPT !.at = "heal"]
      BY <3>2 DEF MemoryOK, Ats
    <3>3. ASSUME NEW j \in JobId, route' = [route EXCEPT !.at = "reopen", !.job = j]
          PROVE  /\ route' \in [at : Ats, job : JobId \cup {NoJob}, boot : BOOLEAN]
                 /\ route'.at \in {"reopen", "funnel"} => route'.job \in JobId
      BY <3>3 DEF MemoryOK, Ats
    <3> QED BY <1>3, <3>1, <3>2, <3>3 DEF Started, Heal
  <2> QED BY <2>1, <2>2 DEF TypeOK, MemoryOK, storeVars, Pcs, Busy, Assigned
<1>4. CASE Reopen
  <2>1. status' \in [JobId -> Status]
    BY <1>4 DEF Reopen, TypeOK, MemoryOK, Status
  <2>2. /\ route' \in [at : Ats, job : JobId \cup {NoJob}, boot : BOOLEAN]
        /\ route'.job \in JobId
    BY <1>4 DEF Reopen, MemoryOK, Ats
  <2> QED BY <1>4, <2>1, <2>2 DEF TypeOK, MemoryOK, Reopen, Assigned
<1>5. CASE RunnerRaises
  <2>1. PICK j \in JobId : Raised(j) /\ queue' \in Seq(JobId)
    <3>1. CASE pc \in Busy /\ Raised(cur) /\ UNCHANGED queue
      BY <3>1 DEF MemoryOK, TypeOK
    <3>2. CASE queue # <<>> /\ Raised(Head(queue)) /\ queue' = Tail(queue)
      BY <3>2, HeadTailProperties DEF TypeOK
    <3> QED BY <1>5, <3>1, <3>2 DEF RunnerRaises, Busy
  <2>2. /\ UNCHANGED <<storeVars, attempted, attempts, tick, route>>
        /\ pc' = "idle" /\ cur' = NoJob /\ ending' = NoEnd /\ dropped' = dropped \cup {j}
    BY <2>1 DEF Raised
  <2> QED BY <1>0, <2>1, <2>2 DEF TypeOK, MemoryOK, storeVars, Pcs, Busy, Assigned
<1> QED BY <1>1, <1>2, <1>3, <1>4, <1>5

\* Every step keeps the types.
LEMMA TypeStep ==
  ASSUME IInv, [Next]_vars
  PROVE  TypeOK' /\ MemoryOK'
<1>1. CASE UNCHANGED vars
  BY <1>1 DEF IInv, TypeOK, MemoryOK, vars, storeVars, memoryVars, Assigned
<1>2. "route" \in Thread /\ "runner" \in Thread
  BY DEF Thread
<1> QED BY <1>1, <1>2, OutsideType, TickType, RunnerType, FinalizeType, ProcessType
        DEF Next, RouteSteps, RunnerSteps

-----------------------------------------------------------------------------
(* Versions and results.                                                   *)

\* Every step keeps VersionsOK: a version is targeted, committed to and
\* published only once scene_version has reached it.
LEMMA VersionsStep ==
  ASSUME IInv, [Next]_vars
  PROVE  VersionsOK'
<1> USE Ranges DEF IInv
<1> DEFINE frame == <<sceneVersion, exactVersion, results, rev, spec>>
<1>0. /\ sceneVersion \in Nat /\ exactVersion \in Nat /\ rev \in [Epoch -> Version]
      /\ \A e \in Epoch : rev[e] \in Nat /\ rev[e] <= sceneVersion
      /\ \A j \in JobId : spec[j].target \in Nat /\ spec[j].target <= sceneVersion
  BY DEF TypeOK, VersionsOK
<1>a. /\ \A e \in Epoch : rev[e] <= sceneVersion + 1
      /\ \A j \in JobId : spec[j].target <= sceneVersion + 1
      /\ exactVersion <= sceneVersion + 1 /\ sceneVersion + 1 <= sceneVersion + 1
  <2>1. ASSUME NEW e \in Epoch PROVE rev[e] <= sceneVersion + 1
    BY <1>0
  <2>2. ASSUME NEW j \in JobId PROVE spec[j].target <= sceneVersion + 1
    BY <1>0
  <2> QED BY <1>0, <2>1, <2>2 DEF VersionsOK
<1>1. CASE UNCHANGED frame
  BY <1>1 DEF VersionsOK
<1>2. ASSUME NEW e \in Epoch, CommitEpoch(e) PROVE VersionsOK'
  <2>1. sceneVersion' = sceneVersion + 1 /\ rev' = [rev EXCEPT ![e] = sceneVersion + 1]
        /\ UNCHANGED <<exactVersion, results, spec>>
    BY <1>2 DEF CommitEpoch
  <2>2. \A f \in Epoch : rev'[f] <= sceneVersion'
    <3>1. \A f \in Epoch : rev'[f] = rev[f] \/ rev'[f] = sceneVersion + 1
      BY <1>0, <2>1
    <3> QED BY <1>a, <2>1, <3>1
  <2> QED BY <1>a, <2>1, <2>2 DEF VersionsOK
<1>3. CASE LegacyCommit
  <2> DEFINE n == NextJob
  <2>1. n \in JobId
    BY <1>3, NextJobIsFresh DEF LegacyCommit
  <2> HIDE DEF n
  <2>2. /\ sceneVersion' = sceneVersion + 1 /\ UNCHANGED <<exactVersion, results, rev>>
        /\ spec' = [spec EXCEPT ![n] = [NoSpec EXCEPT !.target = sceneVersion + 1]]
    BY <1>3 DEF LegacyCommit, n
  <2>3. \A j \in JobId : spec'[j].target <= sceneVersion'
    <3>1. [NoSpec EXCEPT !.target = sceneVersion + 1].target = sceneVersion + 1
      BY DEF NoSpec
    <3>2. \A j \in JobId : \/ spec'[j] = spec[j]
                           \/ spec'[j].target = sceneVersion + 1
      BY <2>1, <2>2, <3>1 DEF TypeOK
    <3> QED BY <1>a, <2>2, <3>2
  <2>4. \A e \in Epoch : rev[e] <= sceneVersion'
    BY <1>a, <2>2
  <2> QED BY <1>a, <2>2, <2>3, <2>4 DEF VersionsOK
<1>4. CASE Reset
  <2>1. /\ sceneVersion' = sceneVersion + 1 /\ exactVersion' = sceneVersion + 1
        /\ results' = [results EXCEPT ![sceneVersion + 1] = NoJob]
        /\ UNCHANGED <<rev, spec>>
    BY <1>4 DEF Reset
  <2>2. \A v \in Version : results'[v] # -1 => v <= exactVersion'
    BY <1>0, <2>1 DEF VersionsOK, TypeOK
  <2> QED BY <1>a, <2>1, <2>2 DEF VersionsOK
<1>5. ASSUME NEW t \in Thread, TickMint(t) PROVE VersionsOK'
  <2> DEFINE n == NextJob
  <2>1. n \in JobId
    BY <1>5, NextJobIsFresh DEF TickMint
  <2> HIDE DEF n
  <2>2. /\ UNCHANGED <<sceneVersion, exactVersion, results, rev>>
        /\ spec' = spec \/ spec' = [spec EXCEPT ![n] = MintedSpec(tick[t])]
    BY <1>5 DEF TickMint, n
  <2>3. \A j \in JobId : spec'[j].target <= sceneVersion
    <3>1. MintedSpec(tick[t]).target <= sceneVersion
      BY <1>0, MintedType
    <3> QED BY <2>1, <2>2, <3>1 DEF VersionsOK, TypeOK
  <2> QED BY <2>2, <2>3 DEF VersionsOK
<1>6. ASSUME NEW how, PublishRow(how), Publishable, pc \in Busy, UNCHANGED publishFrame
      PROVE  VersionsOK'
  <2>1. Current.target = sceneVersion /\ Current.target \in Version
    BY <1>6, CurrentType DEF Publishable
  <2>2. exactVersion' = MaxOf({sceneVersion}, exactVersion)
        /\ results' = [results EXCEPT ![sceneVersion] = cur]
        /\ UNCHANGED <<sceneVersion, rev, spec>>
    BY <1>6, <2>1 DEF PublishRow, publishFrame
  <2>3. exactVersion' = sceneVersion
    <3>1. {sceneVersion} \in SUBSET (-1 .. MaxVersion) /\ exactVersion \in -1 .. MaxVersion
      BY DEF TypeOK, Version
    <3>2. /\ MaxOf({sceneVersion}, exactVersion) \in {sceneVersion} \cup {exactVersion}
          /\ \A x \in {sceneVersion} \cup {exactVersion} :
                x <= MaxOf({sceneVersion}, exactVersion)
      BY <3>1, MaxOfProperties
    <3> QED BY <1>0, <2>2, <3>2 DEF VersionsOK
  <2>4. \A v \in Version : results'[v] # -1 => v <= exactVersion'
    BY <1>0, <2>1, <2>2, <2>3 DEF VersionsOK, TypeOK
  <2>5. exactVersion' <= sceneVersion'
    BY <1>0, <2>2, <2>3
  <2>6. (\A e \in Epoch : rev'[e] <= sceneVersion')
        /\ (\A j \in JobId : spec'[j].target <= sceneVersion')
    BY <1>0, <2>2
  <2> QED BY <2>4, <2>5, <2>6 DEF VersionsOK
<1>7. CASE Publish
  <2>1. CASE Publishable
    BY <1>6, <1>7, <2>1 DEF Publish, Busy
  <2>2. CASE ~Publishable
    <3>1. UNCHANGED frame
      BY <1>7, <2>2 DEF Publish, Discard, EndAt, publishFrame
    <3> QED BY <1>1, <3>1
  <2> QED BY <2>1, <2>2
<1>8. CASE Republish
  <2>1. CASE Publishable
    BY <1>6, <1>8, <2>1 DEF Republish, Busy
  <2>2. CASE ~Publishable
    <3>1. UNCHANGED frame
      BY <1>8, <2>2 DEF Republish, EndAt, publishFrame
    <3> QED BY <1>1, <3>1
  <2> QED BY <2>1, <2>2
<1>9. CASE CloseEpoch \/ (\E j \in JobId : Cancel(j)) \/ MoveAudience \/ NewDay \/ Crash
           \/ Funnel \/ RouteTick \/ PutLegacy \/ ReconcileMint
  BY <1>1, <1>9 DEF CloseEpoch, Cancel, MoveAudience, NewDay, Crash, Funnel, RouteTick,
     PutLegacy, ReconcileMint, storeVars
<1>10. CASE RunnerTick \/ ReconcileLater \/ Take \/ Execute \/ Check \/ NoopLatest
            \/ ConsumeEpoch \/ FinishJob \/ SettleDebt \/ Start \/ Started \/ Heal
            \/ Reopen \/ RunnerRaises
  BY <1>1, <1>10 DEF RunnerTick, ReconcileLater, Take, Execute, Check, NoopLatest,
     NoopNothing, ConsumeEpoch, FinishJob, SettleDebt, Start, Started, Heal, Reopen,
     RunnerRaises, Raised, runnerFrame, publishFrame, storeVars, Discard, EndAt
<1>11. CASE SolverRaises \/ SolverLost \/ SolverSuperseded \/ SolverPublishes
            \/ SolverNoop \/ SolverRefuses
  BY <1>1, <1>11 DEF SolverRaises, SolverLost, SolverSuperseded, SolverPublishes,
     SolverNoop, SolverRefuses, Returns, runnerFrame
<1>12. CASE UNCHANGED vars
  BY <1>1, <1>12 DEF vars, storeVars
<1>13. "route" \in Thread /\ "runner" \in Thread
  BY DEF Thread
<1> QED BY <1>2, <1>3, <1>4, <1>5, <1>7, <1>8, <1>9, <1>10, <1>11, <1>12, <1>13
        DEF Next, RouteSteps, RunnerSteps

-----------------------------------------------------------------------------
(* Job rows.                                                               *)

\* A row is inserted under the first unused id; an exact one only when no
\* live exact job has reached its target.
Inserts(n) ==
  /\ status[n] = "absent" /\ \A j \in JobId : status[j] # "absent" <=> j < n
  /\ status' = Supersede([status EXCEPT ![n] = "queued"], n)
  /\ \A j \in JobId \ {n} : spec'[j] = spec[j]
  /\ spec'[n].exact => spec'[n].target = sceneVersion /\ ~InFlight(sceneVersion)

\* Rows that have not ended move; the only row that becomes complete is the
\* runner's, in finish_job.
MovesLive ==
  /\ UNCHANGED spec
  /\ \A j \in JobId :
       \/ status'[j] = status[j]
       \/ status[j] \in Live /\ status'[j] \in Live \cup (Ended \ {"complete"})
       \/ status[j] \in Live /\ status'[j] = "complete" /\ FinishJob /\ j = cur
            /\ ending.status = "complete"

\* Whatever a step does to the job rows is an insertion, such moves, or the
\* boot's second chance for the newest row.
LEMMA RowsStep ==
  ASSUME IInv, [Next]_vars
  PROVE  MovesLive \/ (\E n \in JobId : Inserts(n)) \/ Reopen
<1> USE Ranges DEF IInv
<1>0. status \in [JobId -> Status]
  BY DEF TypeOK
<1>1. CASE UNCHANGED <<status, spec>>
  BY <1>1 DEF MovesLive
<1>2. CASE LegacyCommit
  <2>1. NextJob \in JobId /\ status[NextJob] = "absent"
        /\ \A j \in JobId : status[j] # "absent" <=> j < NextJob
    BY <1>2, NextJobIsFresh DEF LegacyCommit
  <2>2. PICK n \in JobId : n = NextJob
    BY <2>1
  <2>3. /\ status' = Supersede([status EXCEPT ![n] = "queued"], n)
        /\ spec' = [spec EXCEPT ![n] = [NoSpec EXCEPT !.target = sceneVersion + 1]]
    BY <1>2, <2>2 DEF LegacyCommit
  <2>4. ~[NoSpec EXCEPT !.target = sceneVersion + 1].exact
    BY DEF NoSpec
  <2>5. ~spec'[n].exact /\ \A j \in JobId \ {n} : spec'[j] = spec[j]
    BY <2>3, <2>4 DEF TypeOK
  <2> QED BY <2>1, <2>2, <2>3, <2>5 DEF Inserts
<1>3. ASSUME NEW t \in Thread, TickMint(t)
      PROVE  MovesLive \/ (\E n \in JobId : Inserts(n)) \/ Reopen
  <2>1. NextJob \in JobId /\ status[NextJob] = "absent"
        /\ \A j \in JobId : status[j] # "absent" <=> j < NextJob
    BY <1>3, NextJobIsFresh DEF TickMint
  <2>2. PICK n \in JobId : n = NextJob
    BY <2>1
  <2>3. \/ UNCHANGED <<status, spec>>
        \/ /\ ~InFlight(sceneVersion)
           /\ status' = Supersede([status EXCEPT ![n] = "queued"], n)
           /\ spec' = [spec EXCEPT ![n] = MintedSpec(tick[t])]
    BY <1>3, <2>2 DEF TickMint
  <2>4. MintedSpec(tick[t]).target = sceneVersion
    BY MintedType
  <2>5. CASE /\ ~InFlight(sceneVersion)
             /\ status' = Supersede([status EXCEPT ![n] = "queued"], n)
             /\ spec' = [spec EXCEPT ![n] = MintedSpec(tick[t])]
    <3>1. spec'[n] = MintedSpec(tick[t]) /\ \A j \in JobId \ {n} : spec'[j] = spec[j]
      BY <2>5 DEF TypeOK
    <3> QED BY <2>1, <2>2, <2>4, <2>5, <3>1 DEF Inserts
  <2> QED BY <1>1, <2>3, <2>5
<1>4. CASE Reset
  BY <1>0, <1>4 DEF Reset, Supersede, MovesLive, Live, Ended
<1>5. ASSUME NEW j \in JobId, Cancel(j) PROVE MovesLive
  BY <1>0, <1>5 DEF Cancel, Finish, MovesLive, Live, Ended
<1>6. CASE Take
  <2>1. Head(queue) \in JobId
    BY <1>6, HeadTailProperties DEF TypeOK, Take
  <2>2. UNCHANGED spec /\ (UNCHANGED status \/ Finish(Head(queue), "superseded"))
    BY <1>6 DEF Take
  <2> QED BY <1>0, <2>1, <2>2 DEF Finish, MovesLive, Live, Ended
<1>7. CASE Execute
  <2>1. cur \in JobId /\ UNCHANGED spec
        /\ status' = [status EXCEPT ![cur] = IF @ = "queued" THEN "running" ELSE @]
    BY <1>7 DEF Execute, MemoryOK, Busy, runnerFrame
  <2> QED BY <1>0, <2>1 DEF MovesLive, Live
<1>8. CASE FinishJob
  <2>1. cur \in JobId /\ UNCHANGED spec /\ Finish(cur, ending.status)
        /\ ending.status \in Ended
    BY <1>8 DEF FinishJob, MemoryOK, Busy, runnerFrame
  <2> QED BY <1>0, <1>8, <2>1 DEF Finish, MovesLive, Live
<1>9. CASE Start
  <2>1. UNCHANGED spec /\ status' = Requeued
    BY <1>9 DEF Start
  <2> QED BY <1>0, <2>1 DEF Requeued, MovesLive, Live
<1>10. CASE CloseEpoch \/ (\E e \in Epoch : CommitEpoch(e)) \/ MoveAudience \/ NewDay
            \/ Crash \/ Funnel \/ RouteTick \/ PutLegacy \/ ReconcileMint
            \/ Started \/ Heal
  BY <1>1, <1>10 DEF CloseEpoch, CommitEpoch, MoveAudience, NewDay, Crash, Funnel,
     RouteTick, PutLegacy, ReconcileMint, Started, Heal, storeVars
<1>11. CASE RunnerTick \/ ReconcileLater \/ Check \/ Publish \/ NoopLatest \/ Republish
            \/ ConsumeEpoch \/ SettleDebt \/ RunnerRaises
  BY <1>1, <1>11 DEF RunnerTick, ReconcileLater, Check, Publish, NoopLatest, Republish,
     ConsumeEpoch, SettleDebt, RunnerRaises, Raised, publishFrame, storeVars
<1>12. CASE SolverRaises \/ SolverLost \/ SolverSuperseded \/ SolverPublishes
            \/ SolverNoop \/ SolverRefuses
  BY <1>1, <1>12 DEF SolverRaises, SolverLost, SolverSuperseded, SolverPublishes,
     SolverNoop, SolverRefuses, Returns, runnerFrame
<1>13. CASE UNCHANGED vars
  BY <1>1, <1>13 DEF vars, storeVars
<1>14. "route" \in Thread /\ "runner" \in Thread
  BY DEF Thread
<1> QED BY <1>2, <1>3, <1>4, <1>5, <1>6, <1>7, <1>8, <1>9, <1>10, <1>11, <1>12, <1>13,
        <1>14 DEF Next, RouteSteps, RunnerSteps

\* Results, marks and revisions are never taken back, and a new revision is
\* above every version there was.
LEMMA StoreGrows ==
  ASSUME IInv, [Next]_vars
  PROVE  /\ \A v \in Version : results[v] # -1 => results'[v] # -1
         /\ settled \subseteq settled'
         /\ \A e \in Epoch : \/ rev'[e] = rev[e]
                             \/ rev[e] = 0 /\ rev'[e] = sceneVersion + 1
<1> USE Ranges DEF IInv
<1> DEFINE Grows == /\ \A v \in Version : results[v] # -1 => results'[v] # -1
                    /\ settled \subseteq settled'
                    /\ \A e \in Epoch : \/ rev'[e] = rev[e]
                                        \/ rev[e] = 0 /\ rev'[e] = sceneVersion + 1
<1>1. CASE UNCHANGED <<results, settled, rev>>
  BY <1>1
<1>2. ASSUME NEW e \in Epoch, CommitEpoch(e) PROVE Grows
  BY <1>2 DEF CommitEpoch, TypeOK
<1>3. CASE Reset
  BY <1>3 DEF Reset, TypeOK, NoJob
<1>4. CASE Publish \/ Republish
  <2>1. cur \in JobId /\ UNCHANGED <<rev, settled>>
        /\ (UNCHANGED results \/ results' = [results EXCEPT ![Current.target] = cur])
    BY <1>4 DEF Publish, Republish, PublishRow, Discard, EndAt, publishFrame, MemoryOK, Busy
  <2> QED BY <2>1 DEF TypeOK
<1>5. CASE ConsumeEpoch
  BY <1>5 DEF ConsumeEpoch
<1>6. CASE CloseEpoch \/ (\E j \in JobId : Cancel(j)) \/ MoveAudience \/ NewDay \/ Crash
           \/ LegacyCommit \/ Funnel \/ RouteTick \/ PutLegacy \/ ReconcileMint
  BY <1>1, <1>6 DEF CloseEpoch, Cancel, MoveAudience, NewDay, Crash, LegacyCommit, Funnel,
     RouteTick, PutLegacy, ReconcileMint, storeVars
<1>7. CASE RunnerTick \/ ReconcileLater \/ Take \/ Execute \/ Check \/ NoopLatest
           \/ FinishJob \/ SettleDebt \/ Start \/ TickMint("route") \/ TickMint("runner")
           \/ Started \/ Heal \/ Reopen \/ RunnerRaises
  BY <1>1, <1>7 DEF RunnerTick, ReconcileLater, Take, Execute, Check, NoopLatest,
     NoopNothing, FinishJob, SettleDebt, Start, Started, Heal, Reopen, RunnerRaises,
     Raised, TickMint, runnerFrame, publishFrame, storeVars, Discard, EndAt
<1>8. CASE SolverRaises \/ SolverLost \/ SolverSuperseded \/ SolverPublishes
           \/ SolverNoop \/ SolverRefuses
  BY <1>1, <1>8 DEF SolverRaises, SolverLost, SolverSuperseded, SolverPublishes,
     SolverNoop, SolverRefuses, Returns, runnerFrame
<1>9. CASE UNCHANGED vars
  BY <1>1, <1>9 DEF vars, storeVars
<1> QED BY <1>2, <1>3, <1>4, <1>5, <1>6, <1>7, <1>8, <1>9
        DEF Next, RouteSteps, RunnerSteps

\* The older of two exact rows with one target stays ended: only an insertion
\* adds an exact row, and it found every live one below its target; only the
\* newest row is put back in the queue.
LEMMA OneFlightStep ==
  ASSUME IInv, [Next]_vars
  PROVE  OneFlight'
<1> USE Ranges DEF IInv
<1> SUFFICES ASSUME NEW i \in JobId, NEW k \in JobId, i < k,
                    status'[i] # "absent", status'[k] # "absent",
                    spec'[i].exact, spec'[k].exact, spec'[i].target = spec'[k].target
             PROVE  status'[i] \in Ended
  BY DEF OneFlight, ExactJobs
<1>0. status[i] \in Status /\ Status = {"absent"} \cup Live \cup Ended
  BY DEF TypeOK, Status, Live, Ended
<1>1. CASE MovesLive
  <2>1. status[i] # "absent" /\ status[k] # "absent" /\ spec' = spec
    BY <1>1 DEF MovesLive, Live
  <2>2. status[i] \in Ended
    BY <2>1 DEF OneFlight, ExactJobs
  <2> QED BY <1>1, <2>2 DEF MovesLive, Live, Ended
<1>2. ASSUME NEW n \in JobId, Inserts(n) PROVE status'[i] \in Ended
  <2>1. \A j \in JobId \ {n} : /\ spec'[j] = spec[j]
                               /\ status'[j] # "absent" => status[j] # "absent"
                               /\ status[j] \in Ended => status'[j] = status[j]
    BY <1>2 DEF Inserts, Supersede, TypeOK, Ended
  <2>2. i \in Nat /\ k \in Nat /\ n \in Nat
    OBVIOUS
  <2>3. CASE i = n
    <3>1. status[k] # "absent" /\ ~(k < n)
      BY <2>1, <2>2, <2>3
    <3> QED BY <1>2, <3>1 DEF Inserts
  <2>4. CASE k = n
    <3>1. status[i] # "absent" /\ spec[i].exact /\ spec'[i] = spec[i] /\ i # n
      BY <2>1, <2>2, <2>4
    <3>2. spec[i].target = sceneVersion /\ ~InFlight(sceneVersion)
      BY <1>2, <2>4, <3>1 DEF Inserts
    <3>3. sceneVersion >= sceneVersion
      BY DEF TypeOK
    <3>4. status[i] \notin Live
      BY <3>1, <3>2, <3>3 DEF InFlight, ExactJobs
    <3>5. status[i] \in Ended
      BY <1>0, <3>1, <3>4
    <3> QED BY <2>1, <3>1, <3>5
  <2>5. CASE i # n /\ k # n
    <3>1. status[i] \in Ended
      BY <2>1, <2>5 DEF OneFlight, ExactJobs
    <3> QED BY <2>1, <2>5, <3>1
  <2> QED BY <2>3, <2>4, <2>5
<1>3. CASE Reopen
  <2>1. /\ spec' = spec /\ route.job \in JobId /\ route.at = "reopen"
        /\ status' = [status EXCEPT ![route.job] = "queued"]
    BY <1>3 DEF Reopen, MemoryOK
  <2>2. /\ status[route.job] \in {"failed", "cancelled"}
        /\ \A j \in JobId : j > route.job => status[j] = "absent"
    BY <2>1 DEF BootOK
  <2>3. i # route.job
    <3>1. SUFFICES ASSUME i = route.job PROVE FALSE
      OBVIOUS
    <3>2. status'[k] = status[k] /\ k > route.job
      BY <2>1, <3>1 DEF TypeOK
    <3> QED BY <2>2, <3>2
  <2>4. status'[i] = status[i]
    BY <2>1, <2>3 DEF TypeOK
  <2>5. status[k] # "absent"
    BY <2>1, <2>2 DEF TypeOK
  <2> QED BY <2>1, <2>4, <2>5 DEF OneFlight, ExactJobs
<1> QED BY <1>1, <1>2, <1>3, RowsStep

\* Two live rows with one target would be an older live one.
LEMMA OneFlightIsSingle ==
  ASSUME OneFlight
  PROVE  SingleFlight
<1> SUFFICES ASSUME NEW j \in ExactJobs, NEW k \in ExactJobs, status[j] \in Live,
                    status[k] \in Live, j # k, spec[j].target = spec[k].target
             PROVE  FALSE
  BY DEF SingleFlight
<1>1. j \in Nat /\ k \in Nat
  BY Ranges DEF ExactJobs
<1>2. j < k \/ k < j
  BY <1>1
<1>3. status[j] \in Ended \/ status[k] \in Ended
  BY <1>2 DEF OneFlight
<1> QED BY <1>3 DEF Live, Ended

\* "complete" stays settled, and finish_job claims it only when it is.
LEMMA CompleteStep ==
  ASSUME IInv, [Next]_vars
  PROVE  CompleteIsSettled'
<1> USE Ranges DEF IInv
<1> SUFFICES ASSUME NEW j \in JobId, status'[j] = "complete"
             PROVE  /\ results'[spec'[j].target] # -1
                    /\ exactVersion' >= spec'[j].target
                    /\ spec'[j].exact =>
                         \A e \in Assigned' : rev'[e] <= spec'[j].target => e \in settled'
  BY DEF CompleteIsSettled
<1>0. spec[j].target \in Version /\ spec[j].target <= sceneVersion
      /\ sceneVersion \in Nat /\ exactVersion' \in Nat
  BY TypeStep DEF TypeOK, VersionsOK
<1>1. /\ spec'[j] = spec[j]
      /\ \/ status[j] = "complete"
         \/ FinishJob /\ j = cur /\ ending.status = "complete"
  <2>1. CASE MovesLive
    BY <2>1 DEF MovesLive, Live, Ended
  <2>2. ASSUME NEW n \in JobId, Inserts(n) PROVE spec'[j] = spec[j] /\ status[j] = "complete"
    BY <2>2 DEF Inserts, Supersede, TypeOK
  <2>3. CASE Reopen
    BY <2>3 DEF Reopen, TypeOK, MemoryOK
  <2> QED BY <2>1, <2>2, <2>3, RowsStep
<1>2. /\ results[spec[j].target] # -1
      /\ spec[j].exact => \A e \in Assigned : rev[e] <= spec[j].target => e \in settled
  <2>1. CASE status[j] = "complete"
    BY <2>1 DEF CompleteIsSettled
  <2>2. CASE FinishJob /\ j = cur /\ ending.status = "complete"
    <3>1. pc \in {"consume", "settle"} /\ results[spec[cur].target] # -1
      BY <2>2 DEF EndingOK
    <3>2. Consumable = {}
      BY <2>2, <3>1 DEF FinishJob
    <3> QED BY <2>2, <3>1, <3>2 DEF Consumable, Current
  <2> QED BY <1>1, <2>1, <2>2
<1>3. results'[spec[j].target] # -1
  BY <1>0, <1>2, StoreGrows
<1>4. exactVersion' >= spec[j].target
  <2>1. VersionsOK'
    BY VersionsStep
  <2>2. spec[j].target <= exactVersion'
    BY <1>0, <1>3, <2>1 DEF VersionsOK
  <2> QED BY <1>0, <2>2
<1>5. ASSUME spec[j].exact, NEW e \in Assigned', rev'[e] <= spec[j].target
      PROVE  e \in settled'
  <2>1. e \in Epoch /\ rev'[e] # 0
    BY <1>5 DEF Assigned
  <2>2. rev'[e] = rev[e]
    <3>1. rev'[e] = rev[e] \/ rev'[e] = sceneVersion + 1
      BY <2>1, StoreGrows
    <3>2. spec[j].target \in Nat
      BY <1>0
    <3>3. ~(sceneVersion + 1 <= spec[j].target)
      BY <1>0, <3>2
    <3> QED BY <1>5, <3>1, <3>3
  <2>3. e \in Assigned /\ rev[e] <= spec[j].target
    BY <1>5, <2>1, <2>2 DEF Assigned
  <2> QED BY <1>2, <1>5, <2>3, StoreGrows
<1> QED BY <1>1, <1>3, <1>4, <1>5

\* The row the runner holds exists, so an insertion never overwrites it.
LEMMA HeldRowIsOld ==
  ASSUME IInv, pc \in Busy, NEW n \in JobId, status[n] = "absent"
  PROVE  cur \in JobId /\ cur # n
<1>1. cur \in JobId
  BY DEF IInv, MemoryOK
<1>2. status[cur] # "absent"
  BY DEF IInv, JobsOK, Busy, Ended
<1> QED BY <1>1, <1>2

\* Completion is claimed only where a result is seen.
LEMMA EndingStep ==
  ASSUME IInv, [Next]_vars
  PROVE  EndingOK'
<1> USE Ranges DEF IInv
<1>1. ASSUME UNCHANGED <<ending, cur>>,
             pc' = pc \/ (pc \in {"consume", "settle"} => pc' \in {"consume", "settle"})
      PROVE  EndingOK'
  <2> SUFFICES ASSUME ending.status = "complete"
               PROVE  pc' \in {"consume", "settle"} /\ results'[spec'[cur].target] # -1
    BY <1>1 DEF EndingOK
  <2>1. pc \in {"consume", "settle"} /\ results[spec[cur].target] # -1 /\ pc \in Busy
    BY DEF EndingOK, Busy
  <2>2. cur \in JobId /\ spec'[cur] = spec[cur]
    <3>1. CASE MovesLive
      BY <2>1, <3>1 DEF MovesLive, MemoryOK
    <3>2. ASSUME NEW n \in JobId, Inserts(n) PROVE cur \in JobId /\ spec'[cur] = spec[cur]
      BY <2>1, <3>2, HeldRowIsOld DEF Inserts
    <3>3. Reopen => cur \in JobId /\ spec'[cur] = spec[cur]
      BY <2>1 DEF Reopen, MemoryOK
    <3> QED BY <3>1, <3>2, <3>3, RowsStep
  <2>3. spec[cur].target \in Version
    BY <2>2 DEF TypeOK
  <2> QED BY <1>1, <2>1, <2>2, <2>3, StoreGrows
<1>2. CASE ending'.status # "complete"
  BY <1>2 DEF EndingOK
<1>3. CASE CloseEpoch \/ (\E e \in Epoch : CommitEpoch(e)) \/ LegacyCommit \/ Reset
           \/ (\E j \in JobId : Cancel(j)) \/ MoveAudience \/ NewDay
           \/ Funnel \/ RouteTick \/ PutLegacy \/ ReconcileMint
           \/ TickMint("route") \/ TickMint("runner") \/ RunnerTick \/ ReconcileLater
           \/ Heal \/ Reopen
  <2>1. CASE CloseEpoch \/ (\E e \in Epoch : CommitEpoch(e)) \/ LegacyCommit \/ Reset
             \/ (\E j \in JobId : Cancel(j)) \/ MoveAudience \/ NewDay
             \/ Funnel \/ RouteTick \/ PutLegacy \/ TickMint("route") \/ TickMint("runner")
             \/ Heal \/ Reopen
    <3>1. UNCHANGED <<ending, cur, pc>>
      BY <2>1 DEF CloseEpoch, CommitEpoch, LegacyCommit, Reset, Cancel, MoveAudience,
         NewDay, Funnel, RouteTick, PutLegacy, TickMint, Heal, Reopen, memoryVars
    <3> QED BY <1>1, <3>1
  <2>2. CASE ReconcileMint \/ RunnerTick \/ ReconcileLater
    <3>1. UNCHANGED <<ending, cur>> /\ pc \in {"tick", "idle", "reconcile"}
      BY <2>2 DEF ReconcileMint, RunnerTick, ReconcileLater
    <3> QED BY <1>1, <3>1
  <2> QED BY <1>3, <2>1, <2>2
<1>4. CASE Take
  <2>1. UNCHANGED ending /\ pc = "idle"
    BY <1>4 DEF Take
  <2> QED BY <2>1 DEF EndingOK
<1>5. CASE Execute \/ ConsumeEpoch \/ FinishJob
  <2>1. UNCHANGED <<ending, cur>> /\ (pc = "execute" \/ pc' = pc \/ pc' = "settle")
    BY <1>5 DEF Execute, ConsumeEpoch, FinishJob, memoryVars
  <2> QED BY <1>1, <2>1
<1>6. CASE SolverRaises \/ SolverLost \/ SolverSuperseded \/ SolverPublishes
           \/ SolverNoop \/ SolverRefuses
  <2>1. ending' \in {NoEnd, End("failed", "none"), End("superseded", "none"),
                     End("failed", "debt")}
    BY <1>6 DEF SolverRaises, SolverLost, SolverSuperseded, SolverPublishes,
                SolverNoop, SolverRefuses, Returns
  <2> QED BY <1>2, <2>1 DEF NoEnd, End
<1>7. CASE SettleDebt \/ Crash \/ RunnerRaises
  <2>1. ending' = NoEnd
    BY <1>7 DEF SettleDebt, Crash, RunnerRaises, Raised
  <2> QED BY <1>2, <2>1 DEF NoEnd
<1>8. CASE Start \/ Started
  <2>1. UNCHANGED ending /\ pc \in {"down", "boot"}
    BY <1>8 DEF Start, Started
  <2> QED BY <2>1 DEF EndingOK
<1>9. CASE Check \/ Publish \/ NoopLatest \/ Republish
  <2>0. pc \in Busy /\ pc \notin {"consume", "settle"}
    BY <1>9 DEF Check, Publish, NoopLatest, Republish, Busy
  <2>1. cur \in JobId /\ Current.target \in Version /\ UNCHANGED spec
    BY <1>9, <2>0, CurrentType DEF Check, Publish, NoopLatest, Republish, publishFrame
  <2>2. CASE ending' = ending
    BY <2>0, <2>2 DEF EndingOK
  <2>3. CASE ending' \in {NoEnd, End("superseded", "none"), End("failed", "none")}
    BY <1>2, <2>3 DEF NoEnd, End
  <2>4. ASSUME pc' = "consume", cur' = cur, results'[Current.target] # -1 PROVE EndingOK'
    BY <2>1, <2>4 DEF EndingOK, Current
  <2>5. ASSUME NEW how, PublishRow(how) PROVE EndingOK'
    <3>1. results'[Current.target] = cur /\ pc' = "consume" /\ cur' = cur
      BY <2>1, <2>5 DEF PublishRow, TypeOK
    <3> QED BY <2>1, <2>4, <3>1
  <2>6. CASE Check
    BY <2>2, <2>3, <2>6 DEF Check, Discard, EndAt
  <2>7. CASE Publish
    <3>1. CASE Publishable
      BY <2>5, <2>7, <3>1 DEF Publish
    <3>2. CASE ~Publishable /\ status[cur] = "running" /\ sceneVersion = Current.target
      <4>1. results[Current.target] # -1
        BY <3>2 DEF Publishable
      <4>2. \/ pc' = "consume" /\ UNCHANGED <<cur, results>>
            \/ ending' = End("failed", "none")
        BY <2>7, <3>2 DEF Publish, EndAt
      <4> QED BY <2>3, <2>4, <4>1, <4>2
    <3>3. CASE ~Publishable /\ ~(status[cur] = "running" /\ sceneVersion = Current.target)
      BY <2>2, <2>3, <2>7, <3>3 DEF Publish, Discard, EndAt
    <3> QED BY <3>1, <3>2, <3>3
  <2>8. CASE NoopLatest
    <3>1. CASE LatestResult = Current.target
      <4> DEFINE S == {v \in Version : results[v] # -1}
      <4>1. S \in SUBSET (-1 .. MaxVersion) /\ -1 \in -1 .. MaxVersion
        BY DEF Version
      <4>2. LatestResult \in S \cup {-1}
        <5>1. LatestResult = MaxOf(S, -1)
          BY DEF LatestResult
        <5> HIDE DEF S
        <5> QED BY <4>1, <5>1, MaxOfProperties
      <4>3. results[Current.target] # -1
        BY <2>1, <3>1, <4>2
      <4>4. pc' = "consume" /\ UNCHANGED <<cur, results>>
        <5>1. LatestResult # -1
          BY <2>1, <3>1
        <5> QED BY <2>8, <3>1, <5>1 DEF NoopLatest, EndAt
      <4> QED BY <2>4, <4>3, <4>4
    <3>2. CASE LatestResult # Current.target
      BY <2>3, <2>8, <3>2 DEF NoopLatest, NoopNothing, EndAt
    <3> QED BY <3>1, <3>2
  <2>9. CASE Republish
    <3>1. CASE Publishable
      BY <2>5, <2>9, <3>1 DEF Republish
    <3>2. CASE ~Publishable /\ status[cur] = "running" /\ sceneVersion = Current.target
      <4>1. results[Current.target] # -1
        BY <3>2 DEF Publishable
      <4>2. pc' = "consume" /\ UNCHANGED <<cur, results>>
        BY <2>9, <3>2 DEF Republish, EndAt
      <4> QED BY <2>4, <4>1, <4>2
    <3>3. CASE ~Publishable /\ ~(status[cur] = "running" /\ sceneVersion = Current.target)
      BY <2>3, <2>9, <3>3 DEF Republish, EndAt
    <3> QED BY <3>1, <3>2, <3>3
  <2> QED BY <1>9, <2>6, <2>7, <2>8, <2>9
<1>10. CASE UNCHANGED vars
  BY <1>1, <1>10 DEF vars, memoryVars
<1> QED BY <1>3, <1>4, <1>5, <1>6, <1>7, <1>8, <1>9, <1>10
        DEF Next, RouteSteps, RunnerSteps

\* Only the runner's row runs, or a dropped one, and the runner lets go of
\* ended rows only.
LEMMA JobsStep ==
  ASSUME IInv, [Next]_vars
  PROVE  JobsOK'
<1> USE Ranges DEF IInv
<1> DEFINE Held == /\ \A j \in JobId : status'[j] = "running" =>
                         pc' = "down" \/ (pc' \in Busy /\ cur' = j) \/ j \in dropped'
                   /\ pc' = "execute" => status'[cur'] # "absent"
                   /\ pc' \in Busy \ {"execute", "settle"} =>
                         status'[cur'] \in Ended \cup {"running"}
                   /\ pc' = "settle" => status'[cur'] \in Ended \cup {"queued"}
                   /\ pc' \notin Busy => cur' = NoJob
<1>0. status \in [JobId -> Status] /\ cur \in JobId \cup {NoJob} /\ pc \in Pcs
      /\ (pc \in Busy => cur \in JobId)
  BY DEF TypeOK, MemoryOK
<1>1. \E k \in 0 .. MaxJobs : \A j \in JobId : status'[j] # "absent" <=> j <= k
  <2>1. CASE MovesLive
    <3>1. \A j \in JobId : status'[j] # "absent" <=> status[j] # "absent"
      BY <2>1 DEF MovesLive, Live, Ended
    <3> QED BY <3>1 DEF JobsOK
  <2>2. ASSUME NEW n \in JobId, Inserts(n)
        PROVE  \E k \in 0 .. MaxJobs : \A j \in JobId : status'[j] # "absent" <=> j <= k
    <3>1. \A j \in JobId : status'[j] # "absent" <=> status[j] # "absent" \/ j = n
      BY <1>0, <2>2 DEF Inserts, Supersede
    <3>2. \A j \in JobId : status[j] # "absent" <=> j < n
      BY <2>2 DEF Inserts
    <3>3. n \in 0 .. MaxJobs /\ \A j \in JobId : j <= n <=> j < n \/ j = n
      BY DEF JobId
    <3> QED BY <3>1, <3>2, <3>3
  <2>3. CASE Reopen
    <3>1. \A j \in JobId : status'[j] # "absent" <=> status[j] # "absent"
      BY <1>0, <2>3 DEF Reopen, MemoryOK
    <3> QED BY <3>1 DEF JobsOK
  <2> QED BY <2>1, <2>2, <2>3, RowsStep
<1> SUFFICES Held
  BY <1>1 DEF JobsOK
<1>2. ASSUME UNCHANGED <<pc, cur, dropped>>,
             \A j \in JobId : status'[j] = "running" => status[j] = "running",
             \A j \in JobId : status[j] # "absent" => status'[j] # "absent",
             \A j \in JobId : status[j] \in Ended => status'[j] = status[j],
             \A j \in JobId : status[j] \in {"queued", "running"} =>
                status'[j] \in Ended \cup {status[j]}
      PROVE  Held
  <2>1. CASE pc \notin Busy
    BY <1>2, <2>1 DEF JobsOK, Busy
  <2>2. CASE pc \in Busy
    <3>1. cur \in JobId
      BY <1>0, <2>2
    <3>2. pc \in Busy \ {"execute", "settle"} => status'[cur] \in Ended \cup {"running"}
      BY <1>2, <3>1 DEF JobsOK
    <3>3. pc = "settle" => status'[cur] \in Ended \cup {"queued"}
      BY <1>2, <3>1 DEF JobsOK
    <3>4. pc = "execute" => status'[cur] # "absent"
      BY <1>2, <3>1 DEF JobsOK
    <3>5. \A j \in JobId : status'[j] = "running" => cur = j \/ j \in dropped
      BY <1>2, <2>2 DEF JobsOK, Busy
    <3> QED BY <1>2, <2>2, <3>2, <3>3, <3>4, <3>5
  <2> QED BY <2>1, <2>2
<1>3. CASE UNCHANGED <<pc, cur, status, dropped>>
  BY <1>3 DEF JobsOK
<1>4. CASE Reset \/ (\E j \in JobId : Cancel(j)) \/ LegacyCommit
           \/ TickMint("route") \/ TickMint("runner")
  <2>1. UNCHANGED <<pc, cur, dropped>>
    BY <1>4 DEF Reset, Cancel, LegacyCommit, TickMint, memoryVars
  <2>2. CASE \E n \in JobId : Inserts(n)
    <3>1. PICK n \in JobId : Inserts(n)
      BY <2>2
    <3> QED BY <1>0, <1>2, <2>1, <3>1 DEF Inserts, Supersede, Ended
  <2>3. CASE Reset \/ \E j \in JobId : Cancel(j)
    <3>1. \A j \in JobId : status'[j] = status[j] \/
             (status[j] \in Live /\ status'[j] \in {"superseded", "cancelled"})
      BY <1>0, <2>3 DEF Reset, Cancel, Supersede, Finish, Live
    <3> QED BY <1>2, <2>1, <3>1 DEF Live, Ended
  <2>4. CASE UNCHANGED status
    BY <1>3, <2>1, <2>4
  <2>5. LegacyCommit => ~MovesLive
    <3> SUFFICES ASSUME LegacyCommit PROVE ~MovesLive
      OBVIOUS
    <3>1. NextJob \in JobId /\ status[NextJob] = "absent"
      BY NextJobIsFresh DEF LegacyCommit
    <3>2. status'[NextJob] = "queued"
      BY <1>0, <3>1 DEF LegacyCommit, Supersede
    <3> QED BY <3>1, <3>2 DEF MovesLive, Live
  <2>6. ASSUME NEW t \in Thread, TickMint(t), MovesLive PROVE UNCHANGED status
    <3>1. NextJob \in JobId /\ status[NextJob] = "absent"
      BY <2>6, NextJobIsFresh DEF TickMint
    <3>2. status'[NextJob] # "queued"
      BY <2>6, <3>1 DEF MovesLive, Live
    <3>3. UNCHANGED status \/ status' = Supersede([status EXCEPT ![NextJob] = "queued"], NextJob)
      BY <2>6 DEF TickMint
    <3> QED BY <1>0, <3>1, <3>2, <3>3 DEF Supersede
  <2>7. "route" \in Thread /\ "runner" \in Thread
    BY DEF Thread
  <2>8. ~Reopen
    <3>1. LegacyCommit => ~Reopen
      BY DEF LegacyCommit, Reopen, AtRest
    <3>2. TickMint("route") \/ TickMint("runner") => ~Reopen
      BY DEF TickMint, Reopen, BootOK, Thread
    <3>3. Reset \/ (\E j \in JobId : Cancel(j)) => ~Reopen
      BY DEF Reset, Cancel, Reopen, Serving, BootOK
    <3> QED BY <1>4, <3>1, <3>2, <3>3
  <2> QED BY <1>4, <2>2, <2>3, <2>4, <2>5, <2>6, <2>7, <2>8, RowsStep
<1>5. CASE CloseEpoch \/ (\E e \in Epoch : CommitEpoch(e)) \/ MoveAudience \/ NewDay
           \/ Funnel \/ RouteTick \/ PutLegacy \/ ConsumeEpoch \/ Heal \/ UNCHANGED vars
  <2>1. UNCHANGED <<pc, cur, status, dropped>>
    BY <1>5 DEF CloseEpoch, CommitEpoch, MoveAudience, NewDay, Funnel, RouteTick, PutLegacy,
       ConsumeEpoch, Heal, memoryVars, storeVars, vars
  <2> QED BY <1>3, <2>1
<1>6. CASE RunnerTick \/ ReconcileMint \/ ReconcileLater \/ Started
  <2>1. UNCHANGED <<cur, status, dropped>> /\ pc \in {"idle", "tick", "reconcile", "boot"}
        /\ pc' \in {"idle", "tick", "reconcile"}
    BY <1>6 DEF RunnerTick, ReconcileMint, ReconcileLater, Started, storeVars
  <2> QED BY <2>1 DEF JobsOK, Busy
<1>7. CASE Take
  <2> DEFINE h == Head(queue)
  <2>1. h \in JobId
    BY <1>7, HeadTailProperties DEF TypeOK, Take
  <2> HIDE DEF h
  <2>2. /\ pc = "idle" /\ dropped' = dropped
        /\ \/ pc' \in {"idle", "tick"} /\ cur' = cur
              /\ (status' = status \/ Finish(h, "superseded"))
           \/ pc' = "execute" /\ cur' = h /\ status[h] = "queued" /\ status' = status
    BY <1>7 DEF Take, h
  <2>3. \A j \in JobId : status[j] = "running" => j \in dropped
    BY <2>2 DEF JobsOK, Busy
  <2>4. CASE pc' = "execute"
    BY <2>2, <2>3, <2>4 DEF Busy
  <2>5. CASE pc' \in {"idle", "tick"}
    <3>1. \A j \in JobId : status'[j] = "running" => j \in dropped'
      BY <1>0, <2>1, <2>2, <2>3, <2>5 DEF Finish, Live
    <3>2. cur' = NoJob
      BY <2>2, <2>5 DEF JobsOK, Busy
    <3> QED BY <2>5, <3>1, <3>2 DEF Busy
  <2> QED BY <2>2, <2>4, <2>5
<1>8. CASE Execute
  <2>1. /\ pc = "execute" /\ pc' = "solve" /\ cur' = cur /\ dropped' = dropped
        /\ status' = [status EXCEPT ![cur] = IF @ = "queued" THEN "running" ELSE @]
    BY <1>8 DEF Execute, runnerFrame
  <2>2. cur \in JobId /\ status[cur] \in Status \ {"absent"}
    BY <1>0, <2>1 DEF JobsOK, Busy
  <2> QED BY <1>0, <2>1, <2>2 DEF JobsOK, Busy, Status, Ended
<1>9. CASE SolverRaises \/ SolverLost \/ SolverSuperseded \/ SolverPublishes
           \/ SolverNoop \/ SolverRefuses
  <2>1. /\ UNCHANGED <<cur, status, dropped>> /\ pc = "solve"
        /\ pc' \in {"finish", "check", "latest", "consume"}
    BY <1>9 DEF SolverRaises, SolverLost, SolverSuperseded, SolverPublishes,
       SolverNoop, SolverRefuses, Returns, RefusedNext, runnerFrame
  <2> QED BY <2>1 DEF JobsOK, Busy
<1>10. CASE Check \/ Publish \/ NoopLatest \/ Republish
  <2>1. /\ UNCHANGED <<status, dropped>> /\ pc \in {"check", "publish", "latest", "republish"}
        /\ \/ pc' \in {"finish", "publish", "consume", "republish"} /\ cur' = cur
           \/ pc' = "tick" /\ cur' = NoJob /\ status[cur] # "running"
    BY <1>10 DEF Check, Publish, NoopLatest, NoopNothing, Republish, PublishRow, Discard,
       EndAt, publishFrame
  <2>2. /\ status[cur] \in Ended \cup {"running"}
        /\ \A j \in JobId : status[j] = "running" => j = cur \/ j \in dropped
    BY <2>1 DEF JobsOK, Busy
  <2> QED BY <2>1, <2>2 DEF Busy
<1>11. CASE FinishJob
  <2>1. /\ pc \in {"finish", "consume"} /\ pc' = "settle" /\ cur' = cur /\ dropped' = dropped
        /\ status' = [status EXCEPT ![cur] = IF @ \in Live THEN ending.status ELSE @]
    BY <1>11 DEF FinishJob, Finish, runnerFrame
  <2>2. cur \in JobId /\ status[cur] \in Ended \cup {"running"} /\ ending.status \in Ended
    BY <1>0, <2>1 DEF JobsOK, MemoryOK, Busy
  <2>3. status'[cur] \in Ended
    BY <1>0, <2>1, <2>2 DEF Live
  <2>4. \A j \in JobId : status'[j] = "running" => j \in dropped
    BY <1>0, <2>1, <2>2, <2>3 DEF JobsOK, Busy, Ended
  <2> QED BY <2>1, <2>2, <2>3, <2>4 DEF Busy
<1>12. CASE SettleDebt
  <2>1. pc = "settle" /\ pc' = "tick" /\ cur' = NoJob /\ status' = status
        /\ dropped' = dropped
    BY <1>12 DEF SettleDebt
  <2>2. \A j \in JobId : status[j] = "running" => j \in dropped
    BY <2>1 DEF JobsOK, Ended
  <2> QED BY <2>1, <2>2 DEF Busy
<1>13. CASE Crash
  BY <1>13 DEF Crash, storeVars, Busy
<1>14. CASE Start
  <2>1. pc = "down" /\ pc' = "boot" /\ cur' = cur /\ status' = Requeued
    BY <1>14 DEF Start
  <2>2. cur' = NoJob /\ \A j \in JobId : status'[j] # "running"
    BY <1>0, <2>1 DEF JobsOK, Requeued, Busy
  <2> QED BY <2>1, <2>2 DEF Busy
<1>15. CASE Reopen
  <2>1. /\ UNCHANGED <<pc, cur, dropped>> /\ route.job \in JobId
        /\ status' = [status EXCEPT ![route.job] = "queued"]
        /\ status[route.job] \in {"failed", "cancelled"} /\ route.boot
    BY <1>15 DEF Reopen, MemoryOK, BootOK
  <2>2. pc \in Busy \ {"settle"} => status'[cur] = status[cur]
    BY <1>0, <2>1 DEF BootOK
  <2>3. pc = "settle" => status'[cur] \in Ended \cup {"queued"}
    BY <1>0, <2>1 DEF JobsOK, Busy
  <2>4. \A j \in JobId : status'[j] = "running" => status[j] = "running"
    BY <1>0, <2>1
  <2> QED BY <2>1, <2>2, <2>3, <2>4 DEF JobsOK, Busy
<1>16. CASE RunnerRaises
  <2>1. /\ pc' = "idle" /\ cur' = NoJob /\ status' = status
        /\ \A j \in JobId : j \in dropped \/ (pc \in Busy /\ j = cur) => j \in dropped'
        /\ pc # "down"
    BY <1>16 DEF RunnerRaises, Raised, Busy, storeVars
  <2> QED BY <2>1 DEF JobsOK, Busy
<1> HIDE DEF Held
<1> QED BY <1>4, <1>5, <1>6, <1>7, <1>8, <1>9, <1>10, <1>11, <1>12, <1>13, <1>14, <1>15,
        <1>16 DEF Next, RouteSteps, RunnerSteps

\* Only the head leaves a queue with its tail.
LEMMA TailKeeps ==
  ASSUME NEW q \in Seq(JobId), q # <<>>
  PROVE  /\ Head(q) \in JobId /\ Tail(q) \in Seq(JobId)
         /\ \A i \in DOMAIN q : q[i] # Head(q) =>
              \E m \in DOMAIN Tail(q) : Tail(q)[m] = q[i]
<1>1. /\ Head(q) \in JobId /\ Tail(q) \in Seq(JobId)
      /\ Len(Tail(q)) = Len(q) - 1
      /\ \A i \in 1 .. Len(Tail(q)) : Tail(q)[i] = q[i + 1]
      /\ Head(q) = q[1]
  BY HeadTailProperties
<1>2. Len(q) \in Nat /\ DOMAIN q = 1 .. Len(q) /\ DOMAIN Tail(q) = 1 .. Len(q) - 1
  BY <1>1, LenProperties
<1>3. ASSUME NEW i \in DOMAIN q, q[i] # Head(q)
      PROVE  \E m \in DOMAIN Tail(q) : Tail(q)[m] = q[i]
  <2>1. i # 1 /\ i - 1 \in DOMAIN Tail(q) /\ (i - 1) + 1 = i
    BY <1>1, <1>2, <1>3
  <2> QED BY <1>1, <1>2, <2>1
<1> QED BY <1>1, <1>3

\* No step loses sight of a live row.
LEMMA LostStep ==
  ASSUME IInv, [Next]_vars
  PROVE  NoJobIsLost'
<1> USE Ranges DEF IInv
<1> DEFINE Seen(j) == \/ pc = "down" \/ (cur = j /\ pc # "settle")
                      \/ \E i \in DOMAIN queue : queue[i] = j
                      \/ route # AtRest /\ route.job = j
                      \/ j \in dropped
<1>0. /\ status \in [JobId -> Status] /\ cur \in JobId \cup {NoJob}
      /\ queue \in Seq(JobId)
      /\ \A j \in JobId : status[j] \in Live => Seen(j)
  BY DEF TypeOK, NoJobIsLost
<1> SUFFICES ASSUME NEW j \in JobId, status'[j] \in Live PROVE Seen(j)'
  BY DEF NoJobIsLost
<1>1. CASE status[j] \in Live /\ UNCHANGED <<pc, cur, queue, route, dropped>>
  BY <1>0, <1>1
<1>2. status[j] \in Live \/ Inserts(j) \/ Reopen
  <2>1. CASE MovesLive
    BY <2>1 DEF MovesLive, Live, Ended
  <2>2. ASSUME NEW n \in JobId, Inserts(n), n # j PROVE status[j] \in Live
    BY <1>0, <2>2 DEF Inserts, Supersede, Live
  <2> QED BY <2>1, <2>2, RowsStep
<1>23. CASE Reopen
  <2>1. /\ UNCHANGED <<pc, cur, queue, dropped>> /\ route.at = "reopen"
        /\ route' = [route EXCEPT !.at = "funnel"] /\ route.job \in JobId
        /\ status' = [status EXCEPT ![route.job] = "queued"]
    BY <1>23 DEF Reopen, MemoryOK
  <2>2. /\ route'.job = route.job /\ route'.at = "funnel" /\ route' # AtRest
    BY <2>1 DEF MemoryOK, AtRest
  <2>3. CASE j = route.job
    BY <2>2, <2>3
  <2>4. CASE j # route.job
    <3>1. status[j] \in Live /\ route # AtRest
      BY <1>0, <2>1, <2>4 DEF AtRest
    <3> QED BY <1>0, <2>1, <2>2, <2>4, <3>1
  <2> QED BY <2>3, <2>4
<1>3. ASSUME NEW n \in JobId PROVE
        /\ Append(queue, n) \in Seq(JobId)
        /\ \E i \in DOMAIN Append(queue, n) : Append(queue, n)[i] = n
        /\ \A i \in DOMAIN queue : i \in DOMAIN Append(queue, n)
                                   /\ Append(queue, n)[i] = queue[i]
  <2>1. /\ Append(queue, n) \in Seq(JobId) /\ Len(Append(queue, n)) = Len(queue) + 1
        /\ \A i \in 1 .. Len(queue) : Append(queue, n)[i] = queue[i]
        /\ Append(queue, n)[Len(queue) + 1] = n
    BY <1>0, AppendProperties
  <2>2. Len(queue) \in Nat /\ DOMAIN queue = 1 .. Len(queue)
        /\ DOMAIN Append(queue, n) = 1 .. Len(queue) + 1
    BY <1>0, <2>1, LenProperties
  <2> QED BY <2>1, <2>2
<1>4. CASE LegacyCommit
  <2>1. UNCHANGED <<pc, cur, queue, dropped>> /\ route = AtRest
        /\ route' = [at |-> "funnel", job |-> NextJob, boot |-> FALSE]
    BY <1>4 DEF LegacyCommit
  <2>2. CASE status[j] \in Live
    BY <1>0, <2>1, <2>2
  <2>3. CASE Inserts(j)
    <3>1. NextJob \in JobId /\ status[NextJob] = "absent"
          /\ \A k \in JobId : status[k] # "absent" <=> k < NextJob
      BY <1>4, NextJobIsFresh DEF LegacyCommit
    <3>2. NextJob = j
      <4>1. NextJob \in Nat /\ j \in Nat
        BY <3>1
      <4>2. ~(NextJob < j) /\ ~(j < NextJob)
        BY <2>3, <3>1 DEF Inserts
      <4> QED BY <4>1, <4>2
    <3>3. route' # AtRest /\ route'.job = j
      BY <2>1, <3>2 DEF AtRest
    <3> QED BY <3>3
  <2>4. ~Reopen
    BY <2>1 DEF Reopen, AtRest
  <2> QED BY <1>2, <2>2, <2>3, <2>4
<1>5. ASSUME NEW t \in Thread, TickMint(t) PROVE Seen(j)'
  <2>1. NextJob \in JobId /\ status[NextJob] = "absent"
        /\ \A k \in JobId : status[k] # "absent" <=> k < NextJob
    BY <1>5, NextJobIsFresh DEF TickMint
  <2>2. /\ UNCHANGED <<pc, cur, route, dropped>>
        /\ \/ UNCHANGED <<status, queue>>
           \/ queue' = Append(queue, NextJob)
    BY <1>5 DEF TickMint
  <2>3. CASE status[j] \in Live
    BY <1>0, <1>3, <2>1, <2>2, <2>3
  <2>4. CASE Inserts(j)
    <3>1. NextJob = j
      <4>1. NextJob \in Nat /\ j \in Nat
        BY <2>1
      <4>2. ~(NextJob < j) /\ ~(j < NextJob)
        BY <2>1, <2>4 DEF Inserts
      <4> QED BY <4>1, <4>2
    <3>2. status[j] = "absent" /\ status'[j] # "absent"
      BY <2>4 DEF Inserts, Live
    <3>3. queue' = Append(queue, j)
      BY <2>2, <3>1, <3>2
    <3> QED BY <1>3, <3>3
  <2>5. ~Reopen
    BY <1>5 DEF TickMint, Reopen, BootOK
  <2> QED BY <1>2, <2>3, <2>4, <2>5
<1>6. ASSUME status' = status PROVE status[j] \in Live
  BY <1>6
<1>7. CASE Reset \/ (\E k \in JobId : Cancel(k))
  <2>1. UNCHANGED <<pc, cur, queue, route, dropped>> /\ status[j] \in Live
    BY <1>0, <1>7 DEF Reset, Cancel, Supersede, Finish, memoryVars, Live
  <2> QED BY <1>1, <2>1
<1>8. CASE CloseEpoch \/ (\E e \in Epoch : CommitEpoch(e)) \/ MoveAudience \/ NewDay
           \/ ConsumeEpoch \/ UNCHANGED vars
  <2>1. UNCHANGED <<pc, cur, status, queue, route, dropped>>
    BY <1>8 DEF CloseEpoch, CommitEpoch, MoveAudience, NewDay,
       ConsumeEpoch, memoryVars, storeVars, vars
  <2> QED BY <1>1, <1>6, <2>1
<1>9. CASE Funnel \/ RouteTick
  <2>1. UNCHANGED <<pc, cur, status, queue, dropped>> /\ \E at \in {"tick", "put"} :
           route' = [route EXCEPT !.at = at]
    BY <1>9 DEF Funnel, RouteTick
  <2>2. route'.job = route.job /\ route' # AtRest
    <3>1. route \in [at : Ats, job : JobId \cup {NoJob}, boot : BOOLEAN]
      BY DEF MemoryOK
    <3> QED BY <2>1, <3>1 DEF AtRest
  <2> QED BY <1>0, <1>6, <2>1, <2>2
<1>10. CASE PutLegacy
  <2>1. UNCHANGED <<pc, cur, status, dropped>> /\ route.job # NoJob
        /\ queue' = Append(queue, route.job)
    BY <1>10 DEF PutLegacy, storeVars
  <2>2. route.job \in JobId
    BY <2>1 DEF MemoryOK
  <2> QED BY <1>0, <1>3, <1>6, <2>1, <2>2
<1>11. ASSUME UNCHANGED <<cur, status, queue, route, dropped>>, pc # "down",
              pc' # "settle" \/ pc = "settle"
       PROVE  Seen(j)'
  BY <1>0, <1>6, <1>11
<1>12. CASE RunnerTick \/ ReconcileMint \/ ReconcileLater
  BY <1>11, <1>12 DEF RunnerTick, ReconcileMint, ReconcileLater, storeVars
<1>13. CASE SolverRaises \/ SolverLost \/ SolverSuperseded \/ SolverPublishes
            \/ SolverNoop \/ SolverRefuses
  <2>1. UNCHANGED <<cur, status, queue, route, dropped>> /\ pc = "solve" /\ pc' # "settle"
    BY <1>13 DEF SolverRaises, SolverLost, SolverSuperseded, SolverPublishes,
       SolverNoop, SolverRefuses, Returns, RefusedNext, runnerFrame
  <2> QED BY <1>11, <2>1
<1>14. CASE Check \/ Publish \/ NoopLatest \/ Republish
  <2>1. /\ UNCHANGED <<status, queue, route, dropped>> /\ pc' # "settle"
        /\ pc \in {"check", "publish", "latest", "republish"}
        /\ cur' = cur \/ (cur' = NoJob /\ status[cur] # "running")
    BY <1>14 DEF Check, Publish, NoopLatest, NoopNothing, Republish, PublishRow, Discard,
       EndAt, publishFrame
  <2>2. status[cur] \in Ended \cup {"running"}
    BY <2>1 DEF JobsOK, Busy
  <2>3. CASE cur' = cur
    BY <1>11, <2>1, <2>3
  <2>4. CASE status[cur] # "running"
    <3>1. j # cur /\ pc # "down"
      BY <1>6, <2>1, <2>2, <2>4 DEF Live, Ended
    <3> QED BY <1>0, <1>6, <2>1, <3>1
  <2> QED BY <2>1, <2>3, <2>4
<1>15. CASE Execute \/ FinishJob
  <2>1. UNCHANGED <<cur, queue, route, dropped>> /\ pc \in Busy
    BY <1>15 DEF Execute, FinishJob, runnerFrame, Busy
  <2>2. CASE j = cur /\ Execute
    BY <2>1, <2>2 DEF Execute
  <2>3. CASE j # cur
    <3>1. status[j] \in Live /\ pc # "down"
      BY <1>0, <1>15, <2>1, <2>3 DEF Execute, FinishJob, Finish, Busy
    <3> QED BY <1>0, <2>1, <2>3, <3>1
  <2>4. CASE j = cur /\ FinishJob
    <3>1. status'[j] = IF status[j] \in Live THEN ending.status ELSE status[j]
      BY <1>0, <2>4 DEF FinishJob, Finish
    <3>2. ending.status \in Ended
      BY DEF MemoryOK
    <3> QED BY <3>1, <3>2 DEF Live, Ended
  <2> QED BY <1>15, <2>2, <2>3, <2>4
<1>16. CASE Take
  <2> DEFINE h == Head(queue)
  <2>1. /\ h \in JobId /\ Tail(queue) \in Seq(JobId) /\ queue # <<>>
        /\ \A i \in DOMAIN queue : queue[i] # h =>
              \E m \in DOMAIN Tail(queue) : Tail(queue)[m] = queue[i]
    <3>1. queue # <<>>
      BY <1>16 DEF Take
    <3> QED BY <1>0, <3>1, TailKeeps
  <2> HIDE DEF h
  <2>2. /\ pc = "idle" /\ pc' # "settle" /\ queue' = Tail(queue)
        /\ UNCHANGED <<route, dropped>>
        /\ \/ cur' = cur /\ status[h] # "queued" /\ status' = status
           \/ cur' = cur /\ status[h] = "queued" /\ Finish(h, "superseded")
           \/ cur' = h /\ status' = status
    BY <1>16 DEF Take, h
  <2>3. status[j] \in Live /\ j # cur
    <3>1. status[j] \in Live
      BY <1>0, <2>1, <2>2 DEF Finish, Live
    <3>2. cur = NoJob
      BY <2>2 DEF JobsOK, Busy
    <3> QED BY <3>1, <3>2
  <2>4. CASE j = h
    <3>1. status[h] = "queued" \/ h \in dropped
      BY <2>2, <2>3, <2>4 DEF JobsOK, Live, Busy
    <3>2. cur' = h \/ h \in dropped
      BY <1>0, <2>1, <2>2, <2>4, <3>1 DEF Finish, Live
    <3> QED BY <2>2, <2>4, <3>2
  <2>5. CASE j # h
    <3>1. \/ \E i \in DOMAIN queue : queue[i] = j
          \/ route # AtRest /\ route.job = j
          \/ j \in dropped
      BY <1>0, <2>2, <2>3
    <3> QED BY <2>1, <2>2, <2>5, <3>1
  <2> QED BY <2>4, <2>5
<1>17. CASE SettleDebt
  <2>1. pc = "settle" /\ UNCHANGED <<status, queue, route, dropped>>
    BY <1>17 DEF SettleDebt
  <2> QED BY <1>0, <1>6, <2>1
<1>18. CASE Crash
  BY <1>18 DEF Crash
<1>19. CASE Start
  <2>1. status' = Requeued /\ queue' = InRowOrder({k \in JobId : status[k] \in Live})
    BY <1>19 DEF Start, Recovered
  <2>2. status[j] \in Live
    BY <2>1 DEF Requeued, Live
  <2> QED BY <2>1, <2>2, InRowOrderProperties
<1>20. CASE Started \/ Heal
  <2>1. UNCHANGED <<cur, status, queue, dropped>> /\ route.job = NoJob
        /\ pc # "down" /\ (pc' # "settle" \/ pc' = pc)
    <3>1. CASE Started
      <4>1. UNCHANGED <<cur, status, queue, dropped>> /\ pc # "down" /\ pc' # "settle"
        BY <3>1 DEF Started, storeVars
      <4>2. route.job = NoJob
        BY <3>1 DEF Started, BootOK
      <4> QED BY <4>1, <4>2
    <3>2. CASE Heal
      <4>1. UNCHANGED <<cur, status, queue, dropped>> /\ pc' = pc
            /\ route.at = "heal"
        BY <3>2 DEF Heal, storeVars
      <4>2. route.job = NoJob
        BY <4>1, <1>6 DEF BootOK
      <4>3. pc # "down"
        BY <4>1, <1>6 DEF BootOK, AtRest
      <4> QED BY <4>1, <4>2, <4>3
    <3> QED BY <1>20, <3>1, <3>2
  <2> QED BY <1>0, <1>6, <2>1
<1>21. CASE RunnerRaises
  <2>1. status' = status /\ route' = route /\ pc # "down"
    BY <1>21 DEF RunnerRaises, Raised, storeVars
  <2>2. CASE dropped' = dropped \cup {cur} /\ queue' = queue
    BY <1>0, <1>6, <2>1, <2>2
  <2>3. CASE /\ queue # <<>> /\ pc = "idle" /\ dropped' = dropped \cup {Head(queue)}
             /\ queue' = Tail(queue)
    <3>1. cur = NoJob
      BY <2>3 DEF JobsOK, Busy
    <3>2. CASE j = Head(queue)
      BY <2>3, <3>2
    <3>3. CASE j # Head(queue)
      <4>1. \A i \in DOMAIN queue : queue[i] # Head(queue) =>
              \E m \in DOMAIN Tail(queue) : Tail(queue)[m] = queue[i]
        BY <1>0, <2>3, TailKeeps
      <4> QED BY <1>0, <1>6, <2>1, <2>3, <3>1, <3>3, <4>1
    <3> QED BY <3>2, <3>3
  <2> QED BY <1>21, <2>2, <2>3 DEF RunnerRaises, Raised
<1>22.  "route" \in Thread /\ "runner" \in Thread
  BY DEF Thread
<1> HIDE DEF Seen
<1> QED BY <1>4, <1>5, <1>7, <1>8, <1>9, <1>10, <1>12, <1>13, <1>14, <1>15, <1>16,
        <1>17, <1>18, <1>19, <1>20, <1>21, <1>22, <1>23 DEF Next, RouteSteps, RunnerSteps

\* Settling epochs can only take work away from the tick.
LEMMA NewestShrinks ==
  ASSUME TypeOK, TypeOK', rev' = rev, settled \subseteq settled'
  PROVE  /\ Newest' <= Newest /\ ConsumedRev <= ConsumedRev'
         /\ Newest \in Nat /\ Newest' \in Nat
         /\ ConsumedRev \in Nat /\ ConsumedRev' \in Nat
<1> USE Ranges
<1> DEFINE N  == {rev[e] : e \in Assigned \ settled}
           N1 == {rev[e] : e \in Assigned \ settled'}
           C  == {rev[e] : e \in settled}
           C1 == {rev[e] : e \in settled'}
<1>1. settled \subseteq Epoch /\ settled' \subseteq Epoch /\ Assigned \subseteq Epoch
  BY DEF TypeOK, Assigned
<1>2. /\ N \in SUBSET (-1 .. MaxVersion) /\ N1 \in SUBSET N
      /\ C1 \in SUBSET (-1 .. MaxVersion) /\ C \in SUBSET C1 /\ 0 \in -1 .. MaxVersion
  <2>1. \A e \in Epoch : rev[e] \in -1 .. MaxVersion
    BY DEF TypeOK, Version
  <2>2. N \in SUBSET (-1 .. MaxVersion)
    BY <1>1, <2>1
  <2>3. C1 \in SUBSET (-1 .. MaxVersion)
    BY <1>1, <2>1
  <2>4. 0 \in -1 .. MaxVersion
    OBVIOUS
  <2> QED BY <2>2, <2>3, <2>4
<1>3. Newest = MaxOf(N, 0) /\ ConsumedRev = MaxOf(C, 0)
  BY DEF Newest, ConsumedRev
<1>4. Newest' = MaxOf(N1, 0) /\ ConsumedRev' = MaxOf(C1, 0)
  BY DEF Newest, ConsumedRev, Assigned, MaxOf
<1>5. N \cup {0} \subseteq Nat /\ C1 \cup {0} \subseteq Nat
  <2>1. \A e \in Epoch : rev[e] \in Nat
    BY DEF TypeOK
  <2> QED BY <1>1, <2>1
<1> HIDE DEF N, N1, C, C1
<1>6. /\ MaxOf(N, 0) \in N \cup {0} /\ \A x \in N \cup {0} : x <= MaxOf(N, 0)
      /\ MaxOf(N1, 0) \in N1 \cup {0}
      /\ MaxOf(C1, 0) \in C1 \cup {0} /\ \A x \in C1 \cup {0} : x <= MaxOf(C1, 0)
      /\ MaxOf(C, 0) \in C \cup {0}
  BY <1>2, MaxOfProperties
<1> QED BY <1>2, <1>3, <1>4, <1>5, <1>6

\* While the application boots nobody can give the tick work it had not.
LEMMA QuietStays ==
  ASSUME TypeOK, TypeOK', Quieted, ~Serving, ~Serving', MovesLive,
         rev' = rev, settled \subseteq settled', attempted' = attempted
  PROVE  Quieted'
<1> USE Ranges
<1>1. /\ Newest' <= Newest /\ ConsumedRev <= ConsumedRev'
      /\ Newest \in Nat /\ Newest' \in Nat
      /\ ConsumedRev \in Nat /\ ConsumedRev' \in Nat /\ attempted \in Nat
  BY NewestShrinks DEF TypeOK
<1>2. (Gap' => Gap) /\ (Armed' => Armed)
  BY <1>1 DEF Gap, Armed
<1>3. ASSUME Audience' PROVE Audience
  <2>1. PICK j \in ExactJobs' : status'[j] \in Live
    BY <1>3 DEF Audience, Live
  <2>2. j \in JobId /\ spec[j].exact /\ status[j] \in Live
    BY <2>1 DEF MovesLive, ExactJobs, Live, Ended
  <2> QED BY <2>2 DEF Audience, ExactJobs, Live
<1> QED BY <1>2, <1>3 DEF Quieted

\* The boot looks at the newest row before any other can be added.
LEMMA BootStep ==
  ASSUME IInv, [Next]_vars
  PROVE  BootOK'
<1> USE Ranges DEF IInv
<1>0. /\ status \in [JobId -> Status] /\ route.boot \in BOOLEAN
      /\ pc = "boot" => pc \notin Busy /\ route.boot
      /\ route.at \in {"heal", "reopen"} => pc # "boot" /\ pc # "down" /\ route.boot
      /\ "route" \in Thread /\ "runner" \in Thread
  BY DEF TypeOK, MemoryOK, BootOK, Busy, Thread, AtRest
<1>t. TypeOK'
  BY TypeStep
<1>1. ASSUME UNCHANGED <<route, pc>>, ~route.boot, pc # "down" PROVE BootOK'
  BY <1>0, <1>1 DEF BootOK
<1>2. ASSUME UNCHANGED <<rev, settled, attempted, status, spec, tick, pc, cur, route>>
      PROVE  BootOK'
  <2>1. CASE route.boot
    <3>1. ~Serving /\ ~Serving'
      BY <1>2, <2>1 DEF Serving
    <3>2. Quieted => Quieted'
      BY <1>2, <1>t, <3>1, QuietStays DEF MovesLive
    <3>3. ConsumedRev' = ConsumedRev
      BY <1>2 DEF ConsumedRev, MaxOf
    <3> QED BY <1>2, <2>1, <3>2, <3>3 DEF BootOK
  <2>2. CASE ~route.boot
    BY <1>0, <1>2, <2>2 DEF BootOK
  <2> QED BY <1>0, <2>1, <2>2
<1>3. ASSUME MovesLive, UNCHANGED <<route, tick, attempted, rev>>, settled \subseteq settled',
             pc \notin {"boot", "down"}, pc' \notin {"boot", "down"},
             route.boot /\ pc' \in Busy \ {"settle"} =>
                status'[cur'] \notin {"failed", "cancelled"}
      PROVE  BootOK'
  <2>1. ASSUME route.at \in {"heal", "reopen"} PROVE Quieted'
    <3>1. ~Serving /\ ~Serving' /\ Quieted
      BY <1>0, <1>3, <2>1 DEF Serving, BootOK
    <3> QED BY <1>3, <1>t, <3>1, QuietStays
  <2>2. ASSUME route.at = "reopen"
        PROVE  /\ status'[route.job] \in {"failed", "cancelled"}
               /\ \A k \in JobId : k > route.job => status'[k] = "absent"
    <3>1. route.job \in JobId /\ status[route.job] \in {"failed", "cancelled"}
          /\ \A k \in JobId : k > route.job => status[k] = "absent"
      BY <2>2 DEF BootOK, MemoryOK
    <3> QED BY <1>3, <3>1 DEF MovesLive, Live
  <2> QED BY <1>3, <2>1, <2>2 DEF BootOK
<1>4. CASE CloseEpoch \/ (\E e \in Epoch : CommitEpoch(e)) \/ Reset
           \/ (\E j \in JobId : Cancel(j))
  <2>1. UNCHANGED <<route, pc>> /\ Serving
    BY <1>4 DEF CloseEpoch, CommitEpoch, Reset, Cancel, memoryVars
  <2> QED BY <1>1, <2>1 DEF Serving
<1>5. CASE LegacyCommit
  <2>1. pc' = pc /\ pc # "down" /\ ~route.boot
        /\ route' = [at |-> "funnel", job |-> NextJob, boot |-> FALSE]
    BY <1>5 DEF LegacyCommit, Serving
  <2>2. pc' \notin {"boot", "down"} /\ route'.at = "funnel" /\ ~route'.boot
    BY <1>0, <2>1
  <2> QED BY <2>2 DEF BootOK
<1>6. CASE MoveAudience \/ NewDay \/ UNCHANGED vars
  <2>1. UNCHANGED <<rev, settled, attempted, status, spec, tick, pc, cur, route>>
    BY <1>6 DEF MoveAudience, NewDay, vars, storeVars, memoryVars
  <2> QED BY <1>2, <2>1
<1>7. CASE Crash
  <2>1. pc' = "down" /\ route' = AtRest /\ tick' = [t \in Thread |-> Quiet]
    BY <1>7 DEF Crash
  <2>2. \A t \in Thread : ~tick'[t].on
    BY <2>1 DEF Quiet
  <2> QED BY <2>1, <2>2 DEF BootOK, AtRest
<1>8. CASE Funnel
  <2>1. /\ UNCHANGED <<status, pc, cur>> /\ route' = [route EXCEPT !.at = "tick"]
        /\ route.at = "funnel"
    BY <1>8 DEF Funnel
  <2>2. pc' \notin {"boot", "down"} /\ route'.at = "tick" /\ route'.boot = route.boot
    BY <2>1 DEF BootOK, MemoryOK, AtRest
  <2> QED BY <2>1, <2>2 DEF BootOK
<1>9. CASE PutLegacy
  <2>1. /\ pc' = pc /\ route' = AtRest /\ route.job # NoJob /\ route.at = "put"
    BY <1>9 DEF PutLegacy
  <2>2. pc' \notin {"boot", "down"}
    BY <2>1 DEF BootOK, AtRest
  <2> QED BY <2>1, <2>2 DEF BootOK, AtRest
<1>10. CASE RouteTick
  <2>1. /\ UNCHANGED <<rev, settled, attempted, status, spec, pc, cur, watchers>>
        /\ route' = [route EXCEPT !.at = "put"] /\ route.at = "tick"
        /\ TickRead("route")
    BY <1>10 DEF RouteTick
  <2>2. /\ route'.at = "put" /\ route'.boot = route.boot /\ route'.job = route.job
        /\ pc # "down"
    BY <2>1 DEF MemoryOK, BootOK, AtRest
  <2>3. ASSUME pc = "boot"
        PROVE  /\ ~tick'["runner"].on
               /\ tick'["route"].on => tick'["route"].consumedRev = ConsumedRev'
               /\ ~tick'["route"].on => Quieted'
    <3>1. ConsumedRev' = ConsumedRev
      BY <2>1 DEF ConsumedRev, MaxOf
    <3>2. ~tick["runner"].on /\ (tick["route"].on => tick["route"].consumedRev = ConsumedRev)
      BY <2>3 DEF BootOK
    <3>3. CASE tick' = [tick EXCEPT !["route"] = Reading(FALSE)]
      <4>1. tick'["route"] = Reading(FALSE) /\ tick'["runner"] = tick["runner"]
        BY <1>0, <3>3 DEF MemoryOK
      <4> QED BY <3>1, <3>2, <4>1 DEF Reading
    <3>4. CASE tick' = tick /\ Quieted
      <4>1. ~Serving /\ ~Serving'
        BY <1>0, <2>1, <2>2, <2>3 DEF Serving
      <4>2. Quieted'
        BY <1>t, <2>1, <3>4, <4>1, QuietStays DEF MovesLive
      <4> QED BY <3>1, <3>2, <3>4, <4>2
    <3> QED BY <2>1, <3>3, <3>4 DEF TickRead, Quieted
  <2> QED BY <1>0, <2>1, <2>2, <2>3 DEF BootOK
<1>11. CASE Start
  <2>1. /\ pc = "down" /\ pc' = "boot" /\ tick' = tick
        /\ route' = [at |-> "tick", job |-> NoJob, boot |-> TRUE]
    BY <1>11 DEF Start
  <2>2. \A t \in Thread : ~tick'[t].on
    BY <2>1 DEF BootOK
  <2> QED BY <1>0, <2>1, <2>2 DEF BootOK, Busy
<1>12. CASE Started
  <2>1. /\ pc = "boot" /\ route.at = "put" /\ ~tick["route"].on /\ pc' = "idle"
        /\ UNCHANGED <<rev, settled, attempted, status, spec, tick>>
        /\ \/ SharedWorld /\ route' = [route EXCEPT !.at = "heal"]
           \/ route' = AtRest
    BY <1>12 DEF Started, storeVars
  <2>2. CASE route' = AtRest
    BY <2>1, <2>2 DEF BootOK, AtRest
  <2>3. CASE SharedWorld /\ route' = [route EXCEPT !.at = "heal"]
    <3>1. route'.at = "heal" /\ route'.boot = route.boot /\ route'.job = route.job
      BY <2>3 DEF MemoryOK
    <3>2. /\ route.boot /\ route.job = NoJob /\ Quieted
          /\ ~tick["runner"].on
      BY <2>1 DEF BootOK
    <3>3. ~Serving /\ ~Serving'
      BY <3>1, <3>2 DEF Serving
    <3>4. Quieted'
      BY <1>t, <2>1, <3>2, <3>3, QuietStays DEF MovesLive
    <3>5. \A t \in Thread : ~tick'[t].on
      BY <2>1, <3>2 DEF Thread
    <3> QED BY <2>1, <2>3, <3>1, <3>2, <3>4, <3>5 DEF BootOK, Busy
  <2> QED BY <2>1, <2>2, <2>3
<1>13. CASE Heal
  <2>1. /\ route.at = "heal"
        /\ UNCHANGED <<rev, settled, attempted, status, spec, tick, pc, cur>>
        /\ \/ route' = AtRest
           \/ \E j \in JobId : /\ j = NextJob - 1 /\ status[j] \in {"failed", "cancelled"}
                               /\ route' = [route EXCEPT !.at = "reopen", !.job = j]
    BY <1>13 DEF Heal, storeVars
  <2>2. CASE route' = AtRest
    BY <1>0, <2>1, <2>2 DEF BootOK, AtRest
  <2>3. ASSUME NEW j \in JobId, j = NextJob - 1, status[j] \in {"failed", "cancelled"},
               route' = [route EXCEPT !.at = "reopen", !.job = j]
        PROVE  BootOK'
    <3>1. route'.at = "reopen" /\ route'.boot = route.boot /\ route'.job = j
      BY <2>3 DEF MemoryOK
    <3>2. /\ route.boot /\ SharedWorld /\ Quieted /\ \A t \in Thread : ~tick[t].on
      BY <2>1 DEF BootOK
    <3>3. ~Serving /\ ~Serving'
      BY <3>1, <3>2 DEF Serving
    <3>4. Quieted'
      BY <1>t, <2>1, <3>2, <3>3, QuietStays DEF MovesLive
    <3>5. \A k \in JobId : k > j => status[k] = "absent"
      <4>1. NextJob \in Nat \ {0} /\ \A k \in JobId : status[k] # "absent" <=> k < NextJob
        BY NextJobCounts
      <4>2. \A k \in JobId : k > j => ~(k < NextJob)
        BY <2>3, <4>1
      <4> QED BY <4>1, <4>2
    <3>6. pc' \notin {"boot", "down"}
      BY <1>0, <2>1
    <3> QED BY <2>1, <2>3, <3>1, <3>2, <3>4, <3>5, <3>6 DEF BootOK
  <2> QED BY <2>1, <2>2, <2>3
<1>14. CASE Reopen
  <2>1. /\ route.at = "reopen" /\ UNCHANGED <<pc, cur>>
        /\ route' = [route EXCEPT !.at = "funnel"]
        /\ status' = [status EXCEPT ![route.job] = "queued"]
    BY <1>14 DEF Reopen
  <2>2. route'.at = "funnel" /\ route'.boot = route.boot /\ pc' \notin {"boot", "down"}
    BY <1>0, <2>1 DEF MemoryOK
  <2>3. ASSUME pc \in Busy \ {"settle"} PROVE status'[cur] \notin {"failed", "cancelled"}
    <3>1. cur \in JobId /\ status[cur] \notin {"failed", "cancelled"}
      BY <1>0, <2>1, <2>3 DEF BootOK, MemoryOK
    <3> QED BY <1>0, <2>1, <3>1
  <2> QED BY <2>1, <2>2, <2>3 DEF BootOK
<1>15. ASSUME NEW t \in Thread, TickMint(t) PROVE BootOK'
  <2>1. /\ tick[t].on /\ UNCHANGED <<route, pc, cur, rev, settled, sceneVersion>>
        /\ tick' = [tick EXCEPT ![t] = Quiet]
    BY <1>15 DEF TickMint
  <2>2. pc # "down" /\ route.at \notin {"heal", "reopen"}
    BY <2>1 DEF BootOK
  <2>3. ASSUME pc = "boot"
        PROVE  ~tick'["runner"].on /\ ~tick'["route"].on /\ Quieted'
    <3>1. t = "route" /\ tick["route"].consumedRev = ConsumedRev /\ ~tick["runner"].on
      BY <2>1, <2>3 DEF BootOK, Thread
    <3>2. ~tick'["runner"].on /\ ~tick'["route"].on
      BY <1>0, <2>1, <3>1 DEF MemoryOK, Quiet
    <3>3. /\ Newest' = Newest /\ ConsumedRev' = ConsumedRev
          /\ Newest \in Nat /\ ConsumedRev \in Nat
      <4>1. Newest \in Nat /\ ConsumedRev \in Nat
        BY <1>t, <2>1, NewestShrinks
      <4> QED BY <2>1, <4>1 DEF Newest, ConsumedRev, Assigned, MaxOf
    <3>4. Newest <= sceneVersion /\ sceneVersion \in Nat
      <4> DEFINE N == {rev[e] : e \in Assigned \ settled}
      <4>1. N \in SUBSET (-1 .. MaxVersion) /\ 0 \in -1 .. MaxVersion
        BY DEF TypeOK, Assigned, Version
      <4>2. \A x \in N \cup {0} : x <= sceneVersion /\ sceneVersion \in Nat
        BY DEF VersionsOK, Assigned, TypeOK
      <4>3. Newest = MaxOf(N, 0)
        BY DEF Newest
      <4> HIDE DEF N
      <4>4. Newest \in N \cup {0}
        BY <4>1, <4>3, MaxOfProperties
      <4> QED BY <4>2, <4>4
    <3>5. CASE sceneVersion <= tick[t].consumedRev
      <4>1. ~(Newest > ConsumedRev)
        BY <3>1, <3>3, <3>4, <3>5
      <4> QED BY <3>2, <3>3, <4>1 DEF Quieted, Gap
    <3>6. CASE ~(sceneVersion <= tick[t].consumedRev)
      <4>1. attempted' = sceneVersion
        BY <1>15, <3>6 DEF TickMint
      <4>2. ~(Newest > attempted')
        BY <3>3, <3>4, <4>1
      <4> QED BY <3>2, <3>3, <4>2 DEF Quieted, Armed
    <3> QED BY <3>5, <3>6
  <2>4. ASSUME route.boot, pc \in Busy \ {"settle"}
        PROVE  status'[cur] \notin {"failed", "cancelled"}
    <3>1. cur \in JobId /\ status[cur] \notin {"failed", "cancelled"}
      BY <2>4 DEF BootOK, MemoryOK
    <3>2. NextJob \in JobId /\ status[NextJob] = "absent"
      BY <1>15, NextJobIsFresh DEF TickMint
    <3>3. cur # NextJob
      BY <2>4, <3>2, HeldRowIsOld
    <3>4. \/ status' = status
          \/ status' = Supersede([status EXCEPT ![NextJob] = "queued"], NextJob)
      BY <1>15 DEF TickMint
    <3>5. status'[cur] \in {status[cur], "superseded"}
      BY <1>0, <3>1, <3>3, <3>4 DEF Supersede
    <3> QED BY <3>1, <3>5
  <2> QED BY <1>0, <2>1, <2>2, <2>3, <2>4 DEF BootOK
<1>16. CASE RunnerTick \/ ReconcileLater \/ ReconcileMint
  <2>1. /\ UNCHANGED <<route, status, spec, rev, settled, attempted, cur>>
        /\ pc \notin {"boot", "down"} /\ pc' \in {"idle", "reconcile"}
    BY <1>16 DEF RunnerTick, ReconcileLater, ReconcileMint, storeVars
  <2>2. CASE tick' = tick
    BY <1>3, <2>1, <2>2 DEF MovesLive, Busy
  <2>3. CASE route.at \notin {"heal", "reopen"}
    BY <2>1, <2>3 DEF BootOK, Busy
  <2>4. ASSUME route.at \in {"heal", "reopen"} PROVE tick' = tick
    <3>1. Quieted /\ ~Serving
      BY <1>0, <2>4 DEF BootOK, Serving
    <3> QED BY <1>16, <3>1 DEF RunnerTick, TickRead, Quieted, ReconcileLater, ReconcileMint
  <2> QED BY <2>2, <2>3, <2>4
<1>17. ASSUME pc \in Busy, UNCHANGED <<route, tick, attempted, rev, spec>>,
              settled \subseteq settled', status' = status,
              \/ pc' \in {"idle", "tick", "settle"}
              \/ cur' = cur /\ pc # "settle" /\ pc' \in Busy
       PROVE  BootOK'
  BY <1>3, <1>17 DEF MovesLive, BootOK, Busy
<1>18. CASE Check \/ Publish \/ NoopLatest \/ Republish
  <2>1. /\ UNCHANGED <<route, tick, attempted, rev, spec, settled, status>>
        /\ pc \in Busy \ {"settle"}
        /\ pc' = "tick" \/ (cur' = cur /\ pc' \in Busy)
    BY <1>18 DEF Check, Publish, NoopLatest, NoopNothing, Republish, PublishRow, Discard,
       EndAt, publishFrame, Busy
  <2> QED BY <1>17, <2>1
<1>19. CASE SolverRaises \/ SolverLost \/ SolverSuperseded \/ SolverPublishes
            \/ SolverNoop \/ SolverRefuses
  <2>1. /\ UNCHANGED <<route, tick, attempted, rev, spec, settled, status, cur>>
        /\ pc \in Busy \ {"settle"} /\ pc' \in Busy
    BY <1>19 DEF SolverRaises, SolverLost, SolverSuperseded, SolverPublishes,
       SolverNoop, SolverRefuses, Returns, RefusedNext, runnerFrame, Busy
  <2> QED BY <1>17, <2>1
<1>20. CASE ConsumeEpoch \/ SettleDebt
  <2>1. /\ UNCHANGED <<route, tick, attempted, rev, spec, status>>
        /\ pc \in Busy /\ settled \subseteq settled'
        /\ pc' = "tick" \/ (cur' = cur /\ pc # "settle" /\ pc' \in Busy)
    BY <1>20 DEF ConsumeEpoch, SettleDebt, memoryVars, Busy
  <2> QED BY <1>17, <2>1
<1>21. CASE Take
  <2>1. /\ UNCHANGED <<route, tick, attempted, rev, settled, spec>>
        /\ pc = "idle"
        /\ \/ pc' \in {"idle", "tick"}
           \/ pc' = "execute" /\ status' = status /\ status[cur'] = "queued"
    BY <1>21 DEF Take
  <2>2. MovesLive
    <3>1. Head(queue) \in JobId
      BY <1>21, HeadTailProperties DEF TypeOK, Take
    <3>2. UNCHANGED status \/ Finish(Head(queue), "superseded")
      BY <1>21 DEF Take
    <3> QED BY <1>0, <2>1, <3>1, <3>2 DEF Finish, MovesLive, Live, Ended
  <2> QED BY <1>3, <2>1, <2>2 DEF Busy
<1>22. CASE Execute
  <2>1. /\ UNCHANGED <<route, tick, attempted, rev, settled, spec, cur>>
        /\ pc = "execute" /\ pc' = "solve" /\ cur \in JobId
        /\ status' = [status EXCEPT ![cur] = IF @ = "queued" THEN "running" ELSE @]
    BY <1>22 DEF Execute, runnerFrame, MemoryOK, Busy
  <2>2. MovesLive
    BY <1>0, <2>1 DEF MovesLive, Live
  <2>3. route.boot => status'[cur] \notin {"failed", "cancelled"}
    BY <1>0, <2>1 DEF BootOK, Busy
  <2> QED BY <1>3, <2>1, <2>2, <2>3
<1>23. CASE FinishJob
  <2>1. /\ UNCHANGED <<route, tick, attempted, rev, settled, spec>>
        /\ pc \in {"finish", "consume"} /\ pc' = "settle" /\ cur \in JobId
        /\ Finish(cur, ending.status) /\ ending.status \in Ended
    BY <1>23 DEF FinishJob, runnerFrame, MemoryOK, Busy
  <2>2. MovesLive
    BY <1>0, <1>23, <2>1 DEF Finish, MovesLive, Live
  <2> QED BY <1>3, <2>1, <2>2
<1>24. CASE RunnerRaises
  <2>1. /\ UNCHANGED <<route, tick, attempted, rev, spec, settled, status>>
        /\ pc \notin {"boot", "down"} /\ pc' = "idle"
    BY <1>24 DEF RunnerRaises, Raised, storeVars
  <2> QED BY <1>3, <2>1 DEF MovesLive, Busy
<1> QED BY <1>0, <1>4, <1>5, <1>6, <1>7, <1>8, <1>9, <1>10, <1>11, <1>12, <1>13, <1>14,
        <1>15, <1>16, <1>18, <1>19, <1>20, <1>21, <1>22, <1>23, <1>24
        DEF Next, RouteSteps, RunnerSteps

-----------------------------------------------------------------------------
(* The theorems.                                                           *)

\* The initial state satisfies the invariant.
LEMMA InitInv == ASSUME Init PROVE IInv
<1> USE Ranges DEF Init
<1>1. TypeOK
  <2>1. results \in [Version -> JobId \cup {NoJob, -1}]
    OBVIOUS
  <2>2. spec \in [JobId -> [exact : BOOLEAN, reconcile : BOOLEAN, target : Version,
                         consumedRev : Version, consumedSeq : 0 .. NumEpochs,
                         spanHi : 0 .. NumEpochs]]
    BY DEF NoSpec
  <2>3. queue \in Seq(JobId)
    <3>1. CASE BaselineServed
      BY <3>1
    <3>2. CASE ~BaselineServed
      <4>1. 1 \in JobId
        BY <3>2, BoundsAssumption DEF JobId
      <4> QED BY <3>2, <4>1
    <3> QED BY <3>1, <3>2
  <2> QED BY <2>1, <2>2, <2>3 DEF TypeOK, Status
<1>2. MemoryOK
  <2>1. tick \in [Thread -> [on : BOOLEAN, rev : [Epoch -> Version],
                          consumedRev : Version, consumedSeq : 0 .. NumEpochs,
                          reconcile : BOOLEAN]]
        /\ ~tick["route"].reconcile /\ ~tick["runner"].reconcile
    BY DEF Quiet, Thread
  <2> QED BY <2>1 DEF MemoryOK, Pcs, Busy, NoEnd, AtRest, Ended, Ats
<1>3. VersionsOK
  BY DEF VersionsOK, NoSpec
<1>4. JobsOK
  <2> DEFINE k == IF BaselineServed THEN 0 ELSE 1
  <2>1. k \in 0 .. MaxJobs /\ \A j \in JobId : status[j] # "absent" <=> j <= k
    BY BoundsAssumption DEF JobId
  <2>2. \A j \in JobId : status[j] # "running"
    OBVIOUS
  <2> HIDE DEF k
  <2> QED BY <2>1, <2>2 DEF JobsOK, Busy
<1>5. EndingOK /\ OneFlight
  BY DEF EndingOK, NoEnd, OneFlight, ExactJobs, NoSpec
<1>6. CompleteIsSettled /\ NoJobIsLost
  BY DEF CompleteIsSettled, NoJobIsLost, Live
<1>7. BootOK
  BY DEF BootOK, AtRest
<1> QED BY <1>1, <1>2, <1>3, <1>4, <1>5, <1>6, <1>7 DEF IInv

\* IInv is an invariant of the exact lane.
THEOREM Invariance == Spec => []IInv
<1>1. Init => IInv
  BY InitInv
<1>2. IInv /\ [Next]_vars => IInv'
  BY TypeStep, VersionsStep, JobsStep, EndingStep, OneFlightStep, CompleteStep,
     BootStep,
     LostStep DEF IInv
<1> QED BY <1>1, <1>2, PTL DEF Spec

\* Type correctness; the daily attempt ceiling of the idle reconcile holds
\* although it is compared one transaction before it is counted.
THEOREM TypeCorrect == Spec => []TypeOK
<1>1. IInv => TypeOK
  BY DEF IInv
<1> QED BY <1>1, Invariance, PTL

\* However the route's tick, the runner's tick and restarts interleave, two
\* live exact jobs never chase the same revision.
THEOREM ExactIsSingleFlight == Spec => []SingleFlight
<1>1. IInv => SingleFlight
  BY OneFlightIsSingle DEF IInv
<1> QED BY <1>1, Invariance, PTL

\* A job that is complete has its result, and nothing at or below its target
\* is left to settle, wherever a crash or a cancel fell.
THEOREM CompleteMeansSettled == Spec => []CompleteIsSettled
<1>1. IInv => CompleteIsSettled
  BY DEF IInv
<1> QED BY <1>1, Invariance, PTL

\* A live row is always where the runner will find it, unless its dispatch
\* raised in this process: such a row waits for the next restart.
THEOREM LiveJobsAreKept == Spec => []NoJobIsLost
<1>1. IInv => NoJobIsLost
  BY DEF IInv
<1> QED BY <1>1, Invariance, PTL

\* No cancel, late finish, supersession or restart overwrites an outcome; only
\* the boot of a shared world puts its newest row, failed or cancelled, back in
\* the queue, before it serves anybody.
THEOREM OutcomesStand == Spec => OutcomeStands
<1> DEFINE Kept == \A j \in JobId : status[j] \in Ended =>
                      \/ status'[j] = status[j]
                      \/ /\ status[j] \in {"failed", "cancelled"} /\ status'[j] = "queued"
                         /\ SharedWorld /\ ~Serving /\ ~Serving'
                         /\ \A k \in JobId : k > j => status[k] = "absent"
<1>1. ASSUME IInv, [Next]_vars PROVE Kept
  <2>1. CASE MovesLive
    BY <2>1 DEF MovesLive, Live, Ended
  <2>2. ASSUME NEW n \in JobId, Inserts(n) PROVE Kept
    BY <1>1, <2>2 DEF Inserts, Supersede, IInv, TypeOK, Ended
  <2>3. CASE Reopen
    <3>1. /\ route.at = "reopen" /\ route' = [route EXCEPT !.at = "funnel"]
          /\ status' = [status EXCEPT ![route.job] = "queued"]
      BY <2>3 DEF Reopen
    <3>2. /\ status[route.job] \in {"failed", "cancelled"} /\ route.boot /\ SharedWorld
          /\ \A k \in JobId : k > route.job => status[k] = "absent"
      BY <1>1, <3>1 DEF IInv, BootOK
    <3>3. ~Serving /\ ~Serving'
      BY <1>1, <3>1, <3>2 DEF Serving, IInv, MemoryOK
    <3> QED BY <1>1, <3>1, <3>2, <3>3 DEF IInv, TypeOK
  <2> QED BY <1>1, <2>1, <2>2, <2>3, RowsStep
<1>2. IInv /\ [Next]_vars => [Kept]_vars
  BY <1>1
<1> HIDE DEF Kept
<1>3. Spec => [][Kept]_vars
  BY <1>2, Invariance, PTL DEF Spec
<1> QED BY <1>3 DEF OutcomeStands, Kept

\* Only a reset and the two fenced publications write a result row.
LEMMA OnlyPublishersWriteResults ==
  ASSUME [Next]_vars
  PROVE  \/ UNCHANGED results
         \/ Reset
         \/ /\ Publish \/ Republish
            /\ Publishable /\ \E how : PublishRow(how)
<1>1. CASE Publish
  BY <1>1 DEF Publish, Discard, EndAt
<1>2. CASE Republish
  BY <1>2 DEF Republish, EndAt
<1>3. CASE CloseEpoch \/ (\E j \in JobId : Cancel(j)) \/ MoveAudience \/ NewDay \/ Crash
           \/ (\E e \in Epoch : CommitEpoch(e))
           \/ LegacyCommit \/ Funnel \/ RouteTick \/ PutLegacy \/ ReconcileMint
  BY <1>3 DEF CloseEpoch, Cancel, MoveAudience, NewDay, Crash, CommitEpoch, LegacyCommit,
     Funnel, RouteTick, PutLegacy, ReconcileMint, storeVars
<1>4. CASE RunnerTick \/ ReconcileLater \/ Take \/ Execute \/ Check \/ NoopLatest
           \/ ConsumeEpoch \/ FinishJob \/ SettleDebt \/ Start
           \/ TickMint("route") \/ TickMint("runner")
           \/ Started \/ Heal \/ Reopen \/ RunnerRaises
  BY <1>4 DEF RunnerTick, ReconcileLater, Take, Execute, Check, NoopLatest, NoopNothing,
     ConsumeEpoch, FinishJob, SettleDebt, Start, Started, Heal, Reopen, RunnerRaises,
     Raised, TickMint, runnerFrame, publishFrame, storeVars, Discard, EndAt
<1>5. CASE SolverRaises \/ SolverLost \/ SolverSuperseded \/ SolverPublishes
           \/ SolverNoop \/ SolverRefuses
  BY <1>5 DEF SolverRaises, SolverLost, SolverSuperseded, SolverPublishes,
     SolverNoop, SolverRefuses, Returns, runnerFrame
<1>6. CASE UNCHANGED vars
  BY <1>6 DEF vars, storeVars
<1> QED BY <1>1, <1>2, <1>3, <1>4, <1>5, <1>6 DEF Next, RouteSteps, RunnerSteps

\* A result is published for a job that runs at that step, at the version that
\* is current, and never over another result: the lease's earlier reads need
\* not be trusted.
THEOREM PublicationIsFenced == Spec => PublishIsFenced
<1> DEFINE Fenced(v) == results'[v] # results[v] =>
                           /\ results[v] = -1 /\ v = sceneVersion'
                           /\ results'[v] # NoJob => status[results'[v]] = "running"
           Fence == \A v \in Version : Fenced(v)
<1>1. ASSUME IInv, [Next]_vars PROVE Fence
  <2> USE Ranges
  <2>0. results \in [Version -> JobId \cup {NoJob, -1}] /\ sceneVersion \in Nat
        /\ exactVersion \in Nat
    BY <1>1 DEF IInv, TypeOK
  <2> SUFFICES ASSUME NEW v \in Version, results'[v] # results[v] PROVE Fenced(v)
    OBVIOUS
  <2>1. CASE UNCHANGED results
    BY <2>1
  <2>2. CASE Reset
    <3>1. /\ sceneVersion' = sceneVersion + 1
          /\ results' = [results EXCEPT ![sceneVersion + 1] = NoJob]
      BY <2>2 DEF Reset
    <3>2. v = sceneVersion + 1 /\ results'[v] = NoJob
      BY <2>0, <3>1
    <3>3. ~(v <= exactVersion)
      BY <1>1, <2>0, <3>2 DEF IInv, VersionsOK
    <3>4. results[v] = -1
      BY <1>1, <3>3 DEF IInv, VersionsOK
    <3> QED BY <3>1, <3>2, <3>4
  <2>3. CASE /\ Publish \/ Republish
             /\ Publishable /\ \E how : PublishRow(how)
    <3>1. /\ sceneVersion' = sceneVersion
          /\ results' = [results EXCEPT ![Current.target] = cur]
      BY <2>3 DEF Publish, Republish, publishFrame, PublishRow
    <3>2. v = Current.target /\ results'[v] = cur
      BY <2>0, <3>1
    <3> QED BY <2>3, <3>1, <3>2 DEF Publishable
  <2> QED BY <1>1, <2>1, <2>2, <2>3, OnlyPublishersWriteResults
<1>2. IInv /\ [Next]_vars => [Fence]_vars
  BY <1>1
<1> HIDE DEF Fence
<1>3. Spec => [][Fence]_vars
  BY <1>2, Invariance, PTL DEF Spec
<1> QED BY <1>3 DEF PublishIsFenced, Fence

==============================================================================
