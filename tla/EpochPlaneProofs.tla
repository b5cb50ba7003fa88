-------------------------- MODULE EpochPlaneProofs --------------------------
(***************************************************************************)
(* Proofs about EpochPlane for every set of operations, drivers and every  *)
(* bound.  The inductive invariant IInv ties what a driver carries between *)
(* two store calls (the operations it read, the baseline it folded) to the *)
(* durable rows those values were read from.                               *)
(***************************************************************************)
EXTENDS EpochPlane, SequenceTheorems, TLAPS

\* Only the newest epoch is open, and only open epochs have no closed life:
\* an assigned or closed epoch accepts no operation.
EpochRowsOK ==
  /\ \A e \in EpochId : status[e] # "absent" => e < epochs
  /\ \A e \in EpochId : status[e] = "open" => e = epochs - 1
  /\ \A e \in EpochId : revision[e] # NULL => e < epochs /\ status[e] # "open"
  /\ \A i \in DOMAIN log : log[i].epoch < epochs

\* Canonical rows and assigned revisions agree; the rows have a largest one; the
\* pin of revision 0 is no epoch's, and folds no logged operation.
RowsOK ==
  /\ \A e \in EpochId : revision[e] # NULL => revision[e] \in rows /\ 0 < revision[e]
  /\ \A r \in rows : 0 <= r /\ r <= sceneVersion
  /\ folded[0] = {}
  /\ \E r \in rows \cup {0} : \A s \in rows : s <= r

\* Events were published for epochs that no longer change.
BroadcastsOK ==
  \A b \in broadcasts : b.epoch < epochs /\ revision[b.epoch] # NULL

\* The fast lane plans existing epochs only, and the exact lane pins a baseline
\* only for a workspace that has operations.
FastOK ==
  /\ fastRead # NULL => fastRead < epochs
  /\ pinning => DOMAIN log # {}

StoreOK == EpochRowsOK /\ RowsOK /\ NoLostFold /\ BroadcastsOK /\ BroadcastComplete

\* What a driver holds is still true of the rows it was read from.
DriverOK ==
  \A d \in Driver :
    /\ \A e \in todo[d] : e < epochs
    /\ pc[d] \in Pipeline => cur[d] < epochs
    /\ pc[d] \in Pipeline \ {"mark"} => status[cur[d]] # "open"
    /\ pc[d] \in {"baseline", "commit"} => attempt[d] <= 2
    /\ pc[d] \in {"baseline", "commit", "publish"} =>
         readOps[d] = EpochOps(cur[d]) /\ readOps[d] # {}
    /\ pc[d] = "commit" =>
         \/ baseRev[d] \in rows /\ baseOps[d] = folded[baseRev[d]]
         \/ baseRev[d] = 0 /\ baseOps[d] = {}
    /\ pc[d] \in {"publish", "republish"} => revision[cur[d]] # NULL

IInv == TypeOK /\ StoreOK /\ DriverOK /\ FastOK

-----------------------------------------------------------------------------

\* The log is a function on 1 .. Len(log).
LEMMA LogDomain ==
  ASSUME TypeOK
  PROVE  /\ Len(log) \in Nat /\ DOMAIN log = 1 .. Len(log)
         /\ \A i \in DOMAIN log : log[i] \in Record
BY LenProperties, ElementOfSeq DEF TypeOK

\* The row latest_canonical_state returns bounds every row.
LEMMA LatestRowProperties ==
  ASSUME RowsOK
  PROVE  LatestRow \in rows \cup {0} /\ \A s \in rows : s <= LatestRow
BY DEF RowsOK, LatestRow

\* The initial state satisfies the invariant.
LEMMA InitInv == ASSUME Init PROVE IInv
<1> USE ConstantsAssumption DEF Init, EpochId, Revision, NULL
<1>1. TypeOK
  <2>1. log \in Seq(Record)
    BY EmptySeq
  <2>2. legacy \in BOOLEAN /\ pinning \in BOOLEAN
    OBVIOUS
  <2>3. /\ pc \in [Driver -> Pipeline \cup {"down", "idle", "next"}]
        /\ phase \in [Driver -> {"recover", "stranded", "open"}]
        /\ todo \in [Driver -> SUBSET EpochId] /\ cur \in [Driver -> EpochId]
        /\ readOps \in [Driver -> SUBSET Nat] /\ baseOps \in [Driver -> SUBSET Nat]
        /\ baseRev \in [Driver -> Revision] /\ attempt \in [Driver -> 0 .. 3]
    BY SMTT(30) DEF Pipeline
  <2>4. /\ status \in [EpochId -> Status]
        /\ revision \in [EpochId -> Revision \cup {NULL}]
        /\ first \in [EpochId -> Nat] /\ last \in [EpochId -> Nat]
        /\ folded \in [Revision -> SUBSET Nat]
    BY SMTT(30) DEF Status
  <2>5. /\ acked \subseteq [op : Op, content : Content, sequence : Nat, epoch : EpochId]
        /\ epochs \in 0 .. MaxEpoch + 1
        /\ elapsed \subseteq EpochId /\ fastRead \in EpochId \cup {NULL}
        /\ sceneVersion \in Revision /\ rows \subseteq Revision
        /\ broadcasts \subseteq [epoch : EpochId, revision : Revision, ops : SUBSET Nat]
        /\ failures \in 0 .. MaxFailures /\ crashes \in 0 .. MaxCrashes
    BY SMTT(30)
  <2> QED BY ONLY <2>1, <2>2, <2>3, <2>4, <2>5, Zenon DEF TypeOK
<1>2. EpochRowsOK
  BY DEF EpochRowsOK
<1>3. RowsOK
  BY DEF RowsOK
<1>4. NoLostFold /\ BroadcastsOK /\ BroadcastComplete
  BY DEF NoLostFold, BroadcastsOK, BroadcastComplete
<1>5. DriverOK /\ FastOK
  BY DEF DriverOK, FastOK, Pipeline
<1> QED BY <1>1, <1>2, <1>3, <1>4, <1>5 DEF IInv, StoreOK

\* A step that leaves the durable rows and the events alone keeps StoreOK.
LEMMA StoreFrame ==
  ASSUME StoreOK, UNCHANGED <<storeVars, broadcasts>>
  PROVE  StoreOK'
BY DEF StoreOK, storeVars, EpochRowsOK, RowsOK, NoLostFold, BroadcastsOK,
       BroadcastComplete, EpochOps

\* Epochs are never removed.
LEMMA FastFrame ==
  ASSUME IInv, epochs' = epochs, log' = log, fastRead' \in {fastRead, NULL},
         pinning' => pinning
  PROVE  FastOK'
<1>1. fastRead' # NULL => fastRead' < epochs'
  BY DEF IInv, FastOK
<1>2. pinning' => DOMAIN log' # {}
  BY DEF IInv, FastOK
<1> QED BY <1>1, <1>2 DEF FastOK

-----------------------------------------------------------------------------
(* Steps that only move a driver.                                          *)

\* Starting a pass: the list holds existing epochs only.
LEMMA StartPassInv ==
  ASSUME IInv, NEW d \in Driver, NEW from \in {"down", "idle", "next"},
         NEW name \in {"recover", "stranded", "open"},
         NEW list \in SUBSET EpochId, \A e \in list : status[e] # "absent",
         StartPass(d, from, name, list)
  PROVE  IInv'
<1> USE DEF StartPass
<1>1. TypeOK'
  BY DEF IInv, TypeOK, storeVars, faultVars, Pipeline
<1>2. StoreOK'
  BY StoreFrame DEF IInv
<1>3. DriverOK'
  BY DEF IInv, StoreOK, EpochRowsOK, TypeOK, DriverOK, storeVars, Pipeline, EpochOps
<1>f. FastOK'
  BY FastFrame DEF storeVars
<1> QED BY <1>1, <1>2, <1>3, <1>f DEF IInv

\* Beginning and ending a pass of recover() or run_once() keeps the invariant.
LEMMA PassInv ==
  ASSUME IInv, NEW d \in Driver,
         Recover(d) \/ ListStranded(d) \/ ListOpen(d) \/ EndPass(d)
  PROVE  IInv'
<1>1. CASE Recover(d)
  BY <1>1, StartPassInv DEF Recover, Recoverable, OpenEpochs
<1>2. CASE ListStranded(d)
  BY <1>2, StartPassInv DEF ListStranded, Stranded, Recoverable, OpenEpochs
<1>3. CASE ListOpen(d)
  BY <1>3, StartPassInv DEF ListOpen, OpenEpochs
<1>4. CASE EndPass(d)
  <2> USE <1>4 DEF EndPass
  <2>1. TypeOK'
    BY DEF IInv, TypeOK, storeVars, faultVars, Pipeline
  <2>2. StoreOK'
    BY StoreFrame DEF IInv
  <2>3. DriverOK'
    BY DEF IInv, TypeOK, DriverOK, storeVars, Pipeline, EpochOps
  <2>f. FastOK'
    BY FastFrame DEF storeVars
  <2> QED BY <2>1, <2>2, <2>3, <2>f DEF IInv
<1> QED BY <1>1, <1>2, <1>3, <1>4

\* get_epoch and its early returns: a re-broadcast is chosen only for an epoch
\* that has a revision, the pipeline proper only for one that is not open.
LEMMA GetEpochInv ==
  ASSUME IInv, NEW d \in Driver, GetEpoch(d)
  PROVE  IInv'
<1>1. PICK e \in todo[d] :
        /\ pc[d] = "next"
        /\ todo' = [todo EXCEPT ![d] = @ \ {e}]
        /\ cur' = [cur EXCEPT ![d] = e]
        /\ \/ Go(d, "next")
           \/ status[e] = "open" /\ Go(d, "mark")
           \/ status[e] # "open" /\ e \in Assigned /\ Go(d, "republish")
           \/ status[e] # "open" /\ Go(d, "ops")
        /\ UNCHANGED <<storeVars, elapsed, fastRead, pinning, broadcasts, phase,
                       readOps, baseRev, baseOps, attempt, faultVars>>
  BY DEF GetEpoch, Terminal
<1>2. TypeOK'
  BY <1>1 DEF IInv, TypeOK, storeVars, faultVars, Pipeline, Go
<1>3. StoreOK'
  BY <1>1, StoreFrame DEF IInv
<1>4. DriverOK'
  BY <1>1, SMTT(30) DEF IInv, TypeOK, DriverOK, storeVars, Pipeline, EpochOps, Go, Assigned
<1>f. FastOK'
  BY <1>1, FastFrame DEF storeVars
<1> QED BY <1>2, <1>3, <1>4, <1>f DEF IInv

\* Every read of close_epoch, and the commits that change no row.
LEMMA ReadInv ==
  ASSUME IInv, NEW d \in Driver,
         RereadEpoch(d) \/ ReadOperations(d) \/ ReadBaseline(d)
         \/ CommitAgain(d) \/ CommitStale(d)
  PROVE  IInv'
<1>1. CASE RereadEpoch(d)
  <2> USE <1>1 DEF RereadEpoch, Go
  <2>1. TypeOK'
    BY DEF IInv, TypeOK, storeVars, faultVars, Pipeline
  <2>2. StoreOK'
    BY StoreFrame DEF IInv
  <2>3. DriverOK'
    BY DEF IInv, TypeOK, DriverOK, storeVars, Pipeline, EpochOps, Assigned
  <2>f. FastOK'
    BY FastFrame DEF storeVars
  <2> QED BY <2>1, <2>2, <2>3, <2>f DEF IInv
<1>2. CASE ReadOperations(d)
  <2> USE <1>2 DEF ReadOperations, Go
  <2>0. EpochOps(cur[d]) \subseteq Nat
    BY LogDomain DEF IInv, EpochOps
  <2>1. TypeOK'
    BY <2>0, SMTT(30) DEF IInv, TypeOK, storeVars, faultVars, Pipeline
  <2>2. StoreOK'
    BY StoreFrame DEF IInv
  <2>3. DriverOK'
    BY SMTT(30) DEF IInv, TypeOK, DriverOK, storeVars, Pipeline, EpochOps
  <2>f. FastOK'
    BY FastFrame DEF storeVars
  <2> QED BY <2>1, <2>2, <2>3, <2>f DEF IInv
<1>3. CASE ReadBaseline(d)
  <2> USE <1>3 DEF ReadBaseline, Go
  <2>0. LatestRow \in rows \cup {0}
    BY LatestRowProperties DEF IInv, StoreOK
  <2>1. TypeOK'
    BY <2>0, ConstantsAssumption
       DEF IInv, TypeOK, storeVars, faultVars, Pipeline, Revision
  <2>2. StoreOK'
    BY StoreFrame DEF IInv
  <2>3. DriverOK'
    BY <2>0, SMTT(30) DEF IInv, TypeOK, DriverOK, storeVars, Pipeline, EpochOps
  <2>f. FastOK'
    BY FastFrame DEF storeVars
  <2> QED BY <2>1, <2>2, <2>3, <2>f DEF IInv
<1>4. CASE CommitAgain(d)
  <2> USE <1>4 DEF CommitAgain, Go, AlreadyAssigned
  <2>1. TypeOK'
    BY DEF IInv, TypeOK, storeVars, faultVars, Pipeline
  <2>2. StoreOK'
    BY StoreFrame DEF IInv
  <2>3. DriverOK'
    BY DEF IInv, TypeOK, DriverOK, storeVars, Pipeline, EpochOps, Assigned
  <2>f. FastOK'
    BY FastFrame DEF storeVars
  <2> QED BY <2>1, <2>2, <2>3, <2>f DEF IInv
<1>5. CASE CommitStale(d)
  <2> USE <1>5 DEF CommitStale, Go
  <2>0. attempt[d] \in 0 .. 2 /\ attempt' \in [Driver -> 0 .. 3]
    <3>1. attempt \in [Driver -> 0 .. 3] /\ attempt[d] <= 2
      BY DEF IInv, TypeOK, DriverOK
    <3> QED BY <3>1
  <2>1. TypeOK'
    BY <2>0 DEF IInv, TypeOK, storeVars, faultVars, Pipeline
  <2>2. StoreOK'
    BY StoreFrame DEF IInv
  <2>3. attempt[d] # 2 => attempt'[d] <= 2
    BY <2>0 DEF IInv, TypeOK
  <2>4. pc[d] = "commit" /\ pc'[d] \in {"next", "baseline"}
        /\ (pc'[d] = "baseline" => attempt'[d] <= 2)
    BY <2>3 DEF IInv, TypeOK
  <2>5. \A f \in Driver \ {d} : pc'[f] = pc[f] /\ attempt'[f] = attempt[f]
    BY DEF IInv, TypeOK
  <2>6. DriverOK'
    BY <2>4, <2>5 DEF IInv, DriverOK, storeVars, Pipeline, EpochOps
  <2>f. FastOK'
    BY FastFrame DEF storeVars
  <2> QED BY <2>1, <2>2, <2>6, <2>f DEF IInv
<1> QED BY <1>1, <1>2, <1>3, <1>4, <1>5

\* A failing call, a process crash and the passing of time keep the invariant.
LEMMA FaultInv ==
  ASSUME IInv, Crash \/ (\E d \in Driver : Fail(d))
         \/ (\E e \in EpochId : WindowElapses(e))
  PROVE  IInv'
<1>1. CASE Crash
  <2> USE <1>1 DEF Crash
  <2>0. crashes' \in 0 .. MaxCrashes /\ 0 \in EpochId /\ 0 \in Revision
    BY ConstantsAssumption DEF IInv, TypeOK, EpochId, Revision
  <2>1. TypeOK'
    <3>1. /\ pc' \in [Driver -> Pipeline \cup {"down", "idle", "next"}]
          /\ phase' \in [Driver -> {"recover", "stranded", "open"}]
          /\ todo' \in [Driver -> SUBSET EpochId] /\ cur' \in [Driver -> EpochId]
          /\ readOps' \in [Driver -> SUBSET Nat] /\ baseOps' \in [Driver -> SUBSET Nat]
          /\ baseRev' \in [Driver -> Revision] /\ attempt' \in [Driver -> 0 .. 3]
      BY <2>0, SMTT(30) DEF Pipeline
    <3>2. /\ UNCHANGED <<storeVars, elapsed, broadcasts, failures>>
          /\ fastRead' = NULL /\ pinning' = FALSE
      BY DEF IInv
    <3> QED BY ONLY IInv, <2>0, <3>1, <3>2 DEF IInv, TypeOK, storeVars
  <2>2. StoreOK'
    BY StoreFrame DEF IInv
  <2>3. DriverOK'
    BY DEF DriverOK, Pipeline
  <2>f. FastOK'
    BY FastFrame DEF storeVars
  <2> QED BY <2>1, <2>2, <2>3, <2>f DEF IInv
<1>2. ASSUME NEW d \in Driver, Fail(d) PROVE IInv'
  <2> USE <1>2 DEF Fail, Go
  <2>0. failures' \in 0 .. MaxFailures
    BY ConstantsAssumption DEF IInv, TypeOK
  <2>1. TypeOK'
    BY <2>0, ZenonT(60) DEF IInv, TypeOK, storeVars, Pipeline
  <2>2. StoreOK'
    BY StoreFrame DEF IInv
  <2>3. DriverOK'
    <3> SUFFICES ASSUME NEW c \in Driver PROVE DriverOK!(c)'
      BY DEF DriverOK
    <3>1. /\ pc'[c] = pc[c] \/ pc'[c] \in {"next", "idle"}
          /\ todo'[c] \subseteq todo[c]
      BY DEF IInv, TypeOK
    <3>2. UNCHANGED <<storeVars, cur, readOps, baseRev, baseOps, attempt>>
      OBVIOUS
    <3>3. DriverOK!(c)
      BY DEF IInv, DriverOK
    <3> QED BY ONLY <3>1, <3>2, <3>3 DEF storeVars, Pipeline, EpochOps
  <2>f. FastOK'
    BY FastFrame DEF storeVars
  <2> QED BY <2>1, <2>2, <2>3, <2>f DEF IInv
<1>3. ASSUME NEW e \in EpochId, WindowElapses(e) PROVE IInv'
  <2> USE <1>3 DEF WindowElapses
  <2>1. TypeOK'
    BY DEF IInv, TypeOK, storeVars, driverVars, faultVars
  <2>2. StoreOK'
    BY StoreFrame DEF IInv
  <2>3. DriverOK'
    BY DEF IInv, DriverOK, storeVars, driverVars, EpochOps
  <2>f. FastOK'
    BY FastFrame DEF storeVars
  <2> QED BY <2>1, <2>2, <2>3, <2>f DEF IInv
<1> QED BY <1>1, <1>2, <1>3

-----------------------------------------------------------------------------
(* Steps that change the durable rows.                                     *)

\* A lane or the scheduler moves an existing epoch to a status other than open.
LEMMA StatusInv ==
  ASSUME IInv, NEW e \in EpochId, e < epochs,
         NEW s \in {"closed", "fast_planned", "exact_targeted"},
         status' = [status EXCEPT ![e] = s],
         UNCHANGED <<log, acked, epochs, revision, first, last, sceneVersion,
                     rows, folded, broadcasts>>
  PROVE  StoreOK' /\ status' \in [EpochId -> Status]
         /\ \A f \in EpochId : status[f] # "open" => status'[f] # "open"
<1>1. status \in [EpochId -> Status]
  BY DEF IInv, TypeOK
<1>2. status' \in [EpochId -> Status]
  BY <1>1 DEF Status
<1>3. \A f \in EpochId : status[f] # "open" => status'[f] # "open"
  BY <1>1
<1>4. EpochRowsOK'
  BY <1>1, <1>3 DEF IInv, StoreOK, EpochRowsOK
<1>5. RowsOK' /\ NoLostFold' /\ BroadcastsOK' /\ BroadcastComplete'
  BY DEF IInv, StoreOK, RowsOK, NoLostFold, BroadcastsOK, BroadcastComplete, EpochOps
<1> QED BY <1>2, <1>3, <1>4, <1>5 DEF StoreOK

\* The exact and the fast lane never reopen an epoch.
LEMMA LaneInv ==
  ASSUME IInv, PlanFastEpoch \/ \E e \in EpochId : ConsumeExactEpoch(e)
  PROVE  IInv'
<1>1. PICK e \in EpochId, s \in {"fast_planned", "exact_targeted"} :
        e < epochs /\ status' = [status EXCEPT ![e] = s]
  <2>1. CASE PlanFastEpoch
    BY <2>1 DEF PlanFastEpoch, IInv, TypeOK, FastOK
  <2>2. CASE \E e \in EpochId : ConsumeExactEpoch(e)
    BY <2>2 DEF ConsumeExactEpoch, IInv, StoreOK, EpochRowsOK
  <2> QED BY <2>1, <2>2
<1>2. UNCHANGED <<log, acked, epochs, revision, first, last, elapsed,
                  sceneVersion, legacy, pinning, rows, folded, broadcasts,
                  driverVars, faultVars>>
      /\ fastRead' \in {fastRead, NULL}
  BY DEF ConsumeExactEpoch, PlanFastEpoch
<1>3. /\ StoreOK' /\ status' \in [EpochId -> Status]
      /\ \A f \in EpochId : status[f] # "open" => status'[f] # "open"
  BY <1>1, <1>2, StatusInv
<1>4. TypeOK'
  BY <1>2, <1>3 DEF IInv, TypeOK, driverVars, faultVars
<1>5. DriverOK'
  BY <1>2, <1>3 DEF IInv, TypeOK, DriverOK, driverVars, EpochOps
<1>6. FastOK'
  BY <1>2, FastFrame
<1> QED BY <1>3, <1>4, <1>5, <1>6 DEF IInv

\* The fast lane's read: what it has read as reducing exists.
LEMMA FastReadInv ==
  ASSUME IInv, NEW e \in EpochId, ReadFastEpoch(e)
  PROVE  IInv'
<1> USE DEF ReadFastEpoch
<1>1. TypeOK'
  BY DEF IInv, TypeOK, storeVars, driverVars, faultVars
<1>2. StoreOK'
  BY StoreFrame DEF IInv
<1>3. DriverOK'
  BY DEF IInv, DriverOK, storeVars, driverVars, EpochOps
<1>4. FastOK'
  BY DEF IInv, StoreOK, EpochRowsOK, FastOK, storeVars
<1> QED BY <1>1, <1>2, <1>3, <1>4 DEF IInv

\* mark_epoch_status("closed") keeps the invariant, even when it overwrites a
\* later status that a rival driver or a lane wrote meanwhile.
LEMMA MarkClosedInv ==
  ASSUME IInv, NEW d \in Driver, MarkClosed(d)
  PROVE  IInv'
<1> USE DEF MarkClosed, Go
<1>1. cur[d] \in EpochId /\ cur[d] < epochs
  BY DEF IInv, TypeOK, DriverOK, Pipeline
<1>2. /\ StoreOK' /\ status' \in [EpochId -> Status]
      /\ \A f \in EpochId : status[f] # "open" => status'[f] # "open"
  BY <1>1, StatusInv
<1>3. status'[cur[d]] = "closed"
  BY <1>1 DEF IInv, TypeOK
<1>4. TypeOK'
  BY <1>2 DEF IInv, TypeOK, faultVars, Pipeline
<1>5. DriverOK'
  BY <1>1, <1>2, <1>3 DEF IInv, TypeOK, DriverOK, EpochOps, Pipeline
<1>6. FastOK'
  BY FastFrame
<1> QED BY <1>2, <1>4, <1>5, <1>6 DEF IInv

\* A legacy commit or a reset raises scene_version above every canonical row,
\* and touches no row but the pin.
LEMMA BumpInv ==
  ASSUME IInv, LegacyCommit \/ Reset
  PROVE  IInv'
<1> USE DEF Bump
<1>0. /\ sceneVersion \in Nat /\ sceneVersion' \in Revision
      /\ sceneVersion < sceneVersion' /\ rows \subseteq Nat
  BY ConstantsAssumption DEF LegacyCommit, Reset, IInv, TypeOK, Revision
<1>1. /\ rows' \in {rows, rows \ {0}} /\ legacy' \in BOOLEAN
      /\ UNCHANGED <<log, acked, epochs, status, revision, first, last, elapsed,
                     fastRead, pinning, folded, broadcasts, driverVars,
                     faultVars>>
  BY DEF LegacyCommit, Reset, VoidedRows
<1>2. TypeOK'
  BY <1>0, <1>1 DEF IInv, TypeOK, driverVars, faultVars
<1>3. RowsOK'
  <2>1. \A r \in rows' : 0 <= r /\ r <= sceneVersion'
    <3>1. \A r \in rows : r \in Nat /\ 0 <= r /\ r <= sceneVersion
      BY <1>0 DEF IInv, StoreOK, RowsOK
    <3>2. \A r \in rows' : r \in rows
      BY <1>1
    <3>3. sceneVersion' \in Nat
      BY <1>0, ConstantsAssumption DEF Revision
    <3>4. \A r \in rows : 0 <= r /\ r <= sceneVersion'
      BY <1>0, <3>1, <3>3
    <3> QED BY <3>2, <3>4
  <2>2. \E r \in rows' \cup {0} : \A s \in rows' : s <= r
    BY <1>0, <1>1 DEF IInv, StoreOK, RowsOK
  <2>3. \A e \in EpochId : revision[e] # NULL => revision[e] \in rows' /\ 0 < revision[e]
    BY <1>1 DEF IInv, StoreOK, RowsOK
  <2> QED BY <1>1, <2>1, <2>2, <2>3 DEF IInv, StoreOK, RowsOK
<1>4. EpochRowsOK' /\ NoLostFold' /\ BroadcastsOK' /\ BroadcastComplete'
  BY <1>1 DEF IInv, StoreOK, EpochRowsOK, NoLostFold, BroadcastsOK,
              BroadcastComplete, EpochOps
<1>5. DriverOK'
  <2>1. \A d \in Driver : pc[d] = "commit" =>
          \/ baseRev[d] \in rows' /\ baseOps[d] = folded[baseRev[d]]
          \/ baseRev[d] = 0 /\ baseOps[d] = {}
    BY <1>1 DEF IInv, StoreOK, RowsOK, DriverOK
  <2> QED BY <1>1, <2>1 DEF IInv, DriverOK, driverVars, EpochOps
<1>6. FastOK'
  BY <1>1, FastFrame
<1> QED BY <1>2, <1>3, <1>4, <1>5, <1>6 DEF IInv, StoreOK

\* The exact lane's bootstrap adds a row that folds no logged operation.
LEMMA PinInv ==
  ASSUME IInv, DerivePin \/ InsertPin
  PROVE  IInv'
<1>0. sceneVersion \in Nat /\ 0 \in Revision /\ rows \subseteq Nat
  BY ConstantsAssumption DEF IInv, TypeOK, Revision
<1>1. /\ rows' \in {rows, rows \cup {0}} /\ pinning' \in BOOLEAN
      /\ UNCHANGED <<log, acked, epochs, status, revision, first, last, elapsed,
                     fastRead, sceneVersion, legacy, folded, broadcasts,
                     driverVars, faultVars>>
  BY DEF DerivePin, InsertPin, storeVars
<1>2. TypeOK'
  BY <1>0, <1>1 DEF IInv, TypeOK, driverVars, faultVars
<1>3. RowsOK'
  <2>1. \E r \in rows' \cup {0} : \A s \in rows' : s <= r
    BY <1>0, <1>1 DEF IInv, StoreOK, RowsOK
  <2> QED BY <1>0, <1>1, <2>1 DEF IInv, StoreOK, RowsOK
<1>4. NoLostFold'
  <2>1. \A i \in DOMAIN log : log[i].epoch \in EpochId
    BY LogDomain DEF IInv, Record
  <2>2. \A i \in DOMAIN log : revision[log[i].epoch] # NULL =>
          revision[log[i].epoch] \in Nat /\ 0 < revision[log[i].epoch]
    BY <1>0, <2>1 DEF IInv, StoreOK, RowsOK
  <2>3. folded[0] = {i \in DOMAIN log : /\ revision[log[i].epoch] # NULL
                                       /\ revision[log[i].epoch] <= 0}
    BY <2>2 DEF IInv, StoreOK, RowsOK
  <2> QED BY <1>1, <2>3 DEF IInv, StoreOK, NoLostFold
<1>5. EpochRowsOK' /\ BroadcastsOK' /\ BroadcastComplete'
  BY <1>1 DEF IInv, StoreOK, EpochRowsOK, BroadcastsOK, BroadcastComplete, EpochOps
<1>6. DriverOK'
  BY <1>1 DEF IInv, DriverOK, driverVars, EpochOps
<1>7. FastOK'
  <2>1. DerivePin => DOMAIN log # {}
    <3>1. log \in Seq(Record)
      BY DEF IInv, TypeOK
    <3>2. log # <<>> => Len(log) \in Nat \ {0}
      BY <3>1, EmptySeq
    <3> QED BY <3>2, LogDomain DEF DerivePin, IInv
  <2> QED BY <1>1, <2>1 DEF IInv, FastOK, InsertPin
<1> QED BY <1>2, <1>3, <1>4, <1>5, <1>6, <1>7 DEF IInv, StoreOK

\* The event a driver publishes is complete: what it read is what the epoch has.
LEMMA PublishInv ==
  ASSUME IInv, NEW d \in Driver, Publish(d)
  PROVE  IInv'
<1> DEFINE ops == IF pc[d] = "republish" THEN EpochOps(cur[d]) ELSE readOps[d]
           b == [epoch |-> cur[d], revision |-> revision[cur[d]], ops |-> ops]
<1>1. /\ pc[d] \in {"publish", "republish"}
      /\ broadcasts' = broadcasts \cup {b}
      /\ pc' = [pc EXCEPT ![d] = "next"]
      /\ UNCHANGED <<storeVars, elapsed, fastRead, pinning, phase, todo, cur,
                     readOps, baseRev, baseOps, attempt, faultVars>>
  BY DEF Publish, Go
<1>2. /\ cur[d] \in EpochId /\ cur[d] < epochs
      /\ revision[cur[d]] # NULL /\ revision[cur[d]] \in Revision
      /\ ops = EpochOps(cur[d])
  BY <1>1 DEF IInv, TypeOK, DriverOK, Pipeline
<1>3. EpochOps(cur[d]) \subseteq Nat
  BY LogDomain DEF IInv, EpochOps
<1>4. TypeOK'
  <2>1. broadcasts' \subseteq [epoch : EpochId, revision : Revision, ops : SUBSET Nat]
    BY <1>1, <1>2, <1>3 DEF IInv, TypeOK
  <2> HIDE DEF b, ops
  <2> QED BY <1>1, <2>1 DEF IInv, TypeOK, storeVars, faultVars, Pipeline
<1>5. StoreOK'
  <2>1. EpochRowsOK' /\ RowsOK' /\ NoLostFold'
    BY <1>1 DEF IInv, StoreOK, EpochRowsOK, RowsOK, NoLostFold, storeVars
  <2>2. BroadcastsOK' /\ BroadcastComplete'
    BY <1>1, <1>2 DEF IInv, StoreOK, BroadcastsOK, BroadcastComplete, storeVars, EpochOps
  <2> QED BY <2>1, <2>2 DEF StoreOK
<1>6. DriverOK'
  <2> HIDE DEF b, ops
  <2> QED BY <1>1 DEF IInv, TypeOK, DriverOK, storeVars, Pipeline, EpochOps
<1>7. FastOK'
  BY <1>1, FastFrame DEF storeVars
<1> QED BY <1>4, <1>5, <1>6, <1>7 DEF IInv

\* What commit_epoch_reduction finds when its baseline is current: the fold
\* extends everything committed so far by operations no revision has.
LEMMA CommitFacts ==
  ASSUME IInv, NEW d \in Driver, CommitReduction(d)
  PROVE  /\ sceneVersion + 1 \in Revision
         /\ \A r \in rows : r < sceneVersion + 1
         /\ cur[d] \in EpochId /\ cur[d] < epochs
         /\ status[cur[d]] # "open" /\ revision[cur[d]] = NULL
         /\ readOps[d] = EpochOps(cur[d]) /\ readOps[d] # {}
         /\ baseOps[d] = {i \in DOMAIN log : revision[log[i].epoch] # NULL}
<1> USE DEF CommitReduction, AlreadyAssigned, StaleBaseline, Assigned
<1>1. sceneVersion \in Nat /\ sceneVersion + 1 \in Revision /\ rows \subseteq Nat
  BY ConstantsAssumption DEF IInv, TypeOK, Revision
<1>2. \A r \in rows : 0 <= r /\ r < sceneVersion + 1
  BY <1>1 DEF IInv, StoreOK, RowsOK
<1>3. /\ cur[d] \in EpochId /\ cur[d] < epochs
      /\ status[cur[d]] # "open" /\ revision[cur[d]] = NULL
      /\ readOps[d] = EpochOps(cur[d]) /\ readOps[d] # {}
  BY DEF IInv, TypeOK, DriverOK, Pipeline
<1>4. baseRev[d] \in rows \cup {0} /\ \A s \in rows : s <= baseRev[d]
  BY LatestRowProperties DEF IInv, StoreOK
<1>5. \A i \in DOMAIN log : log[i].epoch \in EpochId
  BY LogDomain DEF IInv, Record
<1>6. \A i \in DOMAIN log : revision[log[i].epoch] # NULL =>
         revision[log[i].epoch] \in rows /\ revision[log[i].epoch] <= baseRev[d]
  BY <1>4, <1>5 DEF IInv, StoreOK, RowsOK
<1>7. CASE baseRev[d] \in rows
  <2>1. baseOps[d] = folded[baseRev[d]]
    BY <1>7 DEF IInv, StoreOK, RowsOK, DriverOK
  <2>2. folded[baseRev[d]] = {i \in DOMAIN log : revision[log[i].epoch] # NULL
                                /\ revision[log[i].epoch] <= baseRev[d]}
    BY <1>7 DEF IInv, StoreOK, NoLostFold
  <2> QED BY <1>1, <1>2, <1>3, <1>6, <2>1, <2>2
<1>8. CASE baseRev[d] \notin rows
  <2>1. baseRev[d] = 0 /\ baseOps[d] = {}
    BY <1>8 DEF IInv, DriverOK
  <2>2. rows = {}
    <3>1. \A r \in rows : r \in Nat /\ r <= 0 /\ r # 0
      BY <1>1, <1>4, <1>8, <2>1
    <3> QED BY <3>1
  <2> QED BY <1>1, <1>2, <1>3, <1>6, <2>1, <2>2
<1> QED BY <1>7, <1>8

\* commit_epoch_reduction keeps the invariant: the new row folds exactly the
\* operations of the epochs that now have a revision.
LEMMA CommitReductionInv ==
  ASSUME IInv, NEW d \in Driver, CommitReduction(d)
  PROVE  IInv'
<1> DEFINE r == sceneVersion + 1
           e == cur[d]
<1>1. /\ r \in Revision /\ (\A s \in rows : s < r) /\ e \in EpochId /\ e < epochs
      /\ status[e] # "open" /\ revision[e] = NULL
      /\ readOps[d] = EpochOps(e) /\ readOps[d] # {}
      /\ baseOps[d] = {i \in DOMAIN log : revision[log[i].epoch] # NULL}
  BY CommitFacts
<1>2. /\ pc[d] = "commit" /\ pc' = [pc EXCEPT ![d] = "publish"]
      /\ rows' = rows \cup {r}
      /\ folded' = [folded EXCEPT ![r] = baseOps[d] \cup readOps[d]]
      /\ sceneVersion' = r
      /\ revision' = [revision EXCEPT ![e] = r]
      /\ \E s \in {"reducing", status[e]} : status' = [status EXCEPT ![e] = s]
      /\ UNCHANGED <<log, acked, epochs, first, last, legacy, elapsed, fastRead,
                     pinning, broadcasts, phase, todo, cur, readOps, baseRev,
                     baseOps, attempt, faultVars>>
  BY DEF CommitReduction, Go
<1>3. /\ sceneVersion \in Nat /\ r \in Nat /\ 0 < r /\ r # NULL
      /\ rows \subseteq Nat
  BY ConstantsAssumption DEF IInv, TypeOK, Revision, NULL
<1>4. status \in [EpochId -> Status] /\ revision \in [EpochId -> Revision \cup {NULL}]
      /\ folded \in [Revision -> SUBSET Nat]
  BY DEF IInv, TypeOK
<1> HIDE DEF r, e
<1>a. r \notin rows /\ \A s \in rows : s \in Nat /\ 0 <= s /\ s <= r
  <2>1. \A s \in rows : s \in Nat /\ s < r
    BY <1>1, <1>3
  <2>2. \A s \in rows : 0 <= s
    BY DEF IInv, StoreOK, RowsOK
  <2> QED BY <1>3, <2>1, <2>2
<1>5. /\ status' \in [EpochId -> Status]
      /\ \A f \in EpochId : /\ status[f] # "open" => status'[f] # "open"
                            /\ status'[f] = "open" => status[f] = "open"
                            /\ status'[f] # "absent" => f = e \/ status[f] # "absent"
      /\ status'[e] # "open"
  BY <1>1, <1>2, <1>4 DEF Status
<1>6. /\ revision'[e] = r
      /\ \A f \in EpochId : f # e => revision'[f] = revision[f]
  BY <1>1, <1>2, <1>4
<1>7. \A i \in DOMAIN log : log[i].epoch \in EpochId
  BY LogDomain DEF IInv, Record
<1>8. TypeOK'
  <2>1. revision' \in [EpochId -> Revision \cup {NULL}] /\ rows' \subseteq Revision
    BY <1>1, <1>2, <1>4 DEF IInv, TypeOK
  <2>2. folded' \in [Revision -> SUBSET Nat]
    BY <1>1, <1>2, <1>4 DEF IInv, TypeOK
  <2> QED BY <1>1, <1>2, <1>5, <2>1, <2>2 DEF IInv, TypeOK, faultVars, Pipeline
<1>9. EpochRowsOK'
  BY <1>1, <1>2, <1>5, <1>6 DEF IInv, StoreOK, EpochRowsOK
<1>10. RowsOK'
  <2>1. \A f \in EpochId : revision'[f] # NULL => revision'[f] \in rows' /\ 0 < revision'[f]
    BY <1>2, <1>3, <1>6 DEF IInv, StoreOK, RowsOK
  <2>2. \A s \in rows' : 0 <= s /\ s <= r
    <3>1. rows' = rows \cup {r} /\ r \in Nat /\ 0 < r
      BY <1>2, <1>3
    <3>2. r <= r
      BY <3>1
    <3> QED BY <1>a, <3>1, <3>2
  <2>3. r \in rows' \cup {0} /\ \A s \in rows' : s <= r
    BY <1>2, <2>2
  <2>4. folded'[0] = {}
    BY <1>2, <1>3, <1>4 DEF IInv, StoreOK, RowsOK
  <2> QED BY <1>2, <2>1, <2>2, <2>3, <2>4 DEF RowsOK
<1>11. NoLostFold'
  <2> SUFFICES ASSUME NEW s \in rows'
               PROVE  folded'[s] = {i \in DOMAIN log : revision'[log[i].epoch] # NULL
                                       /\ revision'[log[i].epoch] <= s}
    BY <1>2 DEF NoLostFold
  <2>1. CASE s = r
    <3>1. folded'[r] = baseOps[d] \cup readOps[d]
      BY <1>1, <1>2, <1>4
    <3>2. \A i \in DOMAIN log : revision'[log[i].epoch] # NULL =>
             revision'[log[i].epoch] <= r
      <4>1. \A f \in EpochId : revision[f] # NULL => revision[f] \in rows
        BY DEF IInv, StoreOK, RowsOK
      <4>2. r <= r
        BY <1>3
      <4>3. \A f \in EpochId : revision'[f] # NULL => revision'[f] <= r
        BY <1>6, <1>a, <4>1, <4>2
      <4> QED BY <1>7, <4>3
    <3>3. \A i \in DOMAIN log : revision'[log[i].epoch] # NULL <=>
             log[i].epoch = e \/ revision[log[i].epoch] # NULL
      BY <1>3, <1>6, <1>7
    <3> QED BY <1>1, <2>1, <3>1, <3>2, <3>3 DEF EpochOps
  <2>2. CASE s # r
    <3>1. s \in rows /\ s < r /\ s \in Nat
      BY <1>1, <1>2, <1>3, <2>2
    <3>2. folded'[s] = folded[s]
      BY <1>1, <1>2, <1>4, <2>2 DEF IInv, TypeOK
    <3>3. \A i \in DOMAIN log :
            (revision'[log[i].epoch] # NULL /\ revision'[log[i].epoch] <= s) <=>
            (revision[log[i].epoch] # NULL /\ revision[log[i].epoch] <= s)
      BY <1>1, <1>3, <1>6, <1>7, <3>1
    <3> QED BY <3>1, <3>2, <3>3 DEF IInv, StoreOK, NoLostFold
  <2> QED BY <2>1, <2>2
<1>12. BroadcastsOK' /\ BroadcastComplete'
  <2>1. \A b \in broadcasts : b.epoch \in EpochId /\ b.epoch # e
    BY <1>1 DEF IInv, TypeOK, StoreOK, BroadcastsOK
  <2> QED BY <1>2, <1>6, <2>1
          DEF IInv, StoreOK, BroadcastsOK, BroadcastComplete, EpochOps
<1>13. DriverOK'
  <2> SUFFICES ASSUME NEW c \in Driver PROVE DriverOK!(c)'
    BY DEF DriverOK
  <2>1. cur[c] \in EpochId /\ \A s \in rows : folded'[s] = folded[s]
    <3>1. cur[c] \in EpochId /\ rows \subseteq Revision
      BY DEF IInv, TypeOK
    <3> QED BY <1>2, <1>4, <1>a, <3>1
  <2>2. revision[cur[c]] # NULL => revision'[cur[c]] # NULL
    BY <1>3, <1>6, <2>1
  <2>3. CASE c = d
    <3>1. pc'[d] = "publish"
      BY <1>2 DEF IInv, TypeOK
    <3> QED BY <1>1, <1>2, <1>3, <1>5, <1>6, <2>3, <3>1
            DEF IInv, DriverOK, Pipeline, EpochOps, e
  <2>4. CASE c # d
    <3>1. pc'[c] = pc[c]
      BY <1>2, <2>4 DEF IInv, TypeOK
    <3>2. UNCHANGED <<log, epochs, todo, cur, readOps, baseRev, baseOps,
                      attempt>>
          /\ rows \subseteq rows'
      BY <1>2
    <3>3. EpochOps(cur[c])' = EpochOps(cur[c])
      BY <3>2 DEF EpochOps
    <3>4. status[cur[c]] # "open" => status'[cur[c]] # "open"
      BY <1>5, <2>1
    <3> QED BY <2>1, <2>2, <3>1, <3>2, <3>3, <3>4 DEF IInv, DriverOK
  <2> QED BY <2>3, <2>4
<1>14. FastOK'
  BY <1>2, FastFrame
<1> QED BY <1>8, <1>9, <1>10, <1>11, <1>12, <1>13, <1>14 DEF IInv, StoreOK

-----------------------------------------------------------------------------
(* Accepting a batch.                                                      *)

\* The log only grows, and what it grows by belongs to the one epoch that is
\* open, or to a new one: never to an epoch a driver may already have read.
LEMMA AppendFacts ==
  ASSUME IInv, NEW n \in 0 .. MaxBatch, NEW fresh \in [1 .. n -> Item],
         NEW retried \in SUBSET Item, AppendOperations(fresh, retried)
  PROVE  /\ log' \in Seq(Record)
         /\ Len(log') = Len(log) + n
         /\ \A i \in DOMAIN log : i \in DOMAIN log' /\ log'[i] = log[i]
         /\ \A i \in DOMAIN log' \ DOMAIN log :
               /\ n > 0 /\ OpenOrCreateEpoch \in EpochId
               /\ log'[i].epoch = OpenOrCreateEpoch
               /\ i - Len(log) \in 1 .. n
               /\ log'[i].op = fresh[i - Len(log)].op
               /\ log'[i].content = fresh[i - Len(log)].content
<1> DEFINE e == OpenOrCreateEpoch
           new == [i \in 1 .. Len(fresh) |->
                     [op |-> fresh[i].op, content |-> fresh[i].content, epoch |-> e]]
<1>1. n \in Nat /\ epochs \in Nat
  BY ConstantsAssumption DEF IInv, TypeOK
<1>2. fresh \in Seq(Item) /\ Len(fresh) = n /\ DOMAIN fresh = 1 .. n
  <2>1. fresh = [i \in 1 .. n |-> fresh[i]]
    OBVIOUS
  <2>2. fresh \in Seq(Item)
    BY <1>1, <2>1, IsASeq
  <2>3. Len(fresh) \in Nat /\ DOMAIN fresh = 1 .. Len(fresh)
    BY <2>2, LenProperties
  <2>4. DOMAIN fresh = 1 .. n
    OBVIOUS
  <2>5. Len(fresh) = n
    BY <1>1, <2>3, <2>4
  <2> QED BY <2>2, <2>4, <2>5
<1>3. n > 0 => fresh # <<>>
  BY <1>1, <1>2, EmptySeq
<1>4. n > 0 => e \in EpochId
  BY <1>1, <1>3, ConstantsAssumption DEF AppendOperations, OpenOrCreateEpoch, EpochId
<1>5. \A i \in 1 .. n : fresh[i] \in Item
  OBVIOUS
<1> HIDE DEF e
<1>6. \A i \in 1 .. n :
        [op |-> fresh[i].op, content |-> fresh[i].content, epoch |-> e] \in Record
  BY <1>1, <1>4, <1>5 DEF Item, Record
<1>7. new \in Seq(Record) /\ Len(new) = n
  <2>1. new = [i \in 1 .. n |->
                 [op |-> fresh[i].op, content |-> fresh[i].content, epoch |-> e]]
    BY <1>2
  <2>2. new \in Seq(Record)
    BY <1>1, <1>6, <2>1, IsASeq
  <2>3. Len(new) \in Nat /\ DOMAIN new = 1 .. Len(new)
    BY <2>2, LenProperties
  <2>4. DOMAIN new = 1 .. n
    BY <2>1
  <2> QED BY <1>1, <2>2, <2>3, <2>4
<1>8. \A i \in 1 .. n : /\ new[i].epoch = e /\ new[i].op = fresh[i].op
                          /\ new[i].content = fresh[i].content
  BY <1>2
<1>9. log' = log \o new
  BY DEF AppendOperations, e
<1> HIDE DEF new
<1>10. /\ log \in Seq(Record) /\ Len(log) \in Nat /\ DOMAIN log = 1 .. Len(log)
  BY LogDomain DEF IInv, TypeOK
<1>11. /\ log' \in Seq(Record) /\ Len(log') = Len(log) + n
       /\ \A i \in 1 .. Len(log) + n :
             log'[i] = IF i <= Len(log) THEN log[i] ELSE new[i - Len(log)]
  BY <1>7, <1>9, <1>10, ConcatProperties
<1>12. DOMAIN log' = 1 .. Len(log) + n
  BY <1>11, LenProperties
<1>13. \A i \in DOMAIN log : i \in DOMAIN log' /\ log'[i] = log[i]
  BY <1>1, <1>10, <1>11, <1>12
<1>14. \A i \in DOMAIN log' \ DOMAIN log :
         n > 0 /\ i - Len(log) \in 1 .. n /\ log'[i] = new[i - Len(log)]
  BY <1>1, <1>10, <1>11, <1>12
<1> QED BY <1>4, <1>8, <1>11, <1>13, <1>14 DEF e

\* append_operations keeps the invariant: nothing a driver has read changes.
LEMMA AppendInv ==
  ASSUME IInv, NEW n \in 0 .. MaxBatch, NEW fresh \in [1 .. n -> Item],
         NEW retried \in SUBSET Item, AppendOperations(fresh, retried)
  PROVE  IInv'
<1> DEFINE e == OpenOrCreateEpoch
<1>1. /\ log' \in Seq(Record)
      /\ Len(log') = Len(log) + n
      /\ \A i \in DOMAIN log : i \in DOMAIN log' /\ log'[i] = log[i]
      /\ \A i \in DOMAIN log' \ DOMAIN log : n > 0 /\ e \in EpochId /\ log'[i].epoch = e
  BY AppendFacts
<1>2. UNCHANGED <<revision, elapsed, fastRead, pinning, sceneVersion, legacy,
                  rows, folded, broadcasts, driverVars, faultVars>>
  BY DEF AppendOperations
<1>3. /\ Len(log) \in Nat /\ DOMAIN log = 1 .. Len(log)
      /\ \A i \in DOMAIN log : log[i] \in Record
  BY LogDomain DEF IInv
<1>4. epochs \in Nat /\ n \in Nat /\ status \in [EpochId -> Status]
  BY ConstantsAssumption DEF IInv, TypeOK
<1>5. /\ e = epochs \/ (e = epochs - 1 /\ status[e] = "open")
      /\ e \in Nat
  BY <1>4 DEF OpenOrCreateEpoch
<1>6. e \in EpochId => revision[e] = NULL
  BY <1>4, <1>5 DEF IInv, StoreOK, EpochRowsOK
<1>7. \/ UNCHANGED <<epochs, status, first, last>> /\ fresh = <<>>
      \/ /\ e <= MaxEpoch
         /\ epochs' = IF e = epochs THEN epochs + 1 ELSE epochs
         /\ status' = IF e = epochs THEN [status EXCEPT ![e] = "open"] ELSE status
         /\ first' = [first EXCEPT ![e] = FirstSequence(e)]
         /\ last' = [last EXCEPT ![e] = Len(log) + Len(fresh)]
  BY DEF AppendOperations
<1>8. n > 0 => fresh # <<>>
  <2>1. n > 0 => 1 \in DOMAIN fresh
    BY <1>4
  <2> QED BY <2>1
<1>9. Len(fresh) = n
  <2>1. fresh = [i \in 1 .. n |-> fresh[i]] /\ \A i \in 1 .. n : fresh[i] \in Item
    OBVIOUS
  <2>2. fresh \in Seq(Item)
    BY <1>4, <2>1, IsASeq
  <2>3. Len(fresh) \in Nat /\ DOMAIN fresh = 1 .. Len(fresh) /\ DOMAIN fresh = 1 .. n
    BY <2>2, LenProperties
  <2> QED BY <1>4, <2>3
<1> HIDE DEF e
<1>10. /\ epochs' \in 0 .. MaxEpoch + 1 /\ epochs <= epochs'
       /\ status' \in [EpochId -> Status]
       /\ \A f \in EpochId : f < epochs => status'[f] = status[f]
       /\ first' \in [EpochId -> Nat] /\ last' \in [EpochId -> Nat]
  <2>1. first \in [EpochId -> Nat] /\ last \in [EpochId -> Nat]
        /\ epochs \in 0 .. MaxEpoch + 1 /\ MaxEpoch \in Nat
    BY ConstantsAssumption DEF IInv, TypeOK
  <2>2. e <= MaxEpoch => e \in EpochId /\ FirstSequence(e) \in Nat
    BY <1>3, <1>5, <2>1 DEF FirstSequence, EpochId
  <2>a. first' \in [EpochId -> Nat] /\ last' \in [EpochId -> Nat]
    <3>1. CASE UNCHANGED <<first, last>>
      BY <2>1, <3>1
    <3>2. CASE /\ e <= MaxEpoch
               /\ first' = [first EXCEPT ![e] = FirstSequence(e)]
               /\ last' = [last EXCEPT ![e] = Len(log) + Len(fresh)]
      <4>1. FirstSequence(e) \in Nat /\ Len(log) + Len(fresh) \in Nat
        BY <1>3, <1>4, <1>9, <2>2, <3>2
      <4> HIDE DEF FirstSequence
      <4> QED BY <2>1, <3>2, <4>1
    <3> QED BY <1>7, <3>1, <3>2
  <2>3. CASE UNCHANGED <<epochs, status>>
    <3>1. epochs <= epochs
      BY <1>4
    <3> QED BY <1>4, <2>1, <2>a, <2>3, <3>1
  <2>4. CASE /\ e = epochs /\ e <= MaxEpoch /\ epochs' = epochs + 1
             /\ status' = [status EXCEPT ![e] = "open"]
    <3>2. status' \in [EpochId -> Status]
      BY <1>4, <2>4 DEF Status
    <3>3. epochs' \in 0 .. MaxEpoch + 1 /\ epochs <= epochs'
      BY <1>4, <2>1, <2>4
    <3>4. \A f \in EpochId : f < epochs => status'[f] = status[f]
      BY <1>4, <2>4 DEF EpochId
    <3> QED BY <2>a, <3>2, <3>3, <3>4
  <2> QED BY <1>7, <1>5, <2>3, <2>4
<1>11. TypeOK'
  <2>1. acked' \subseteq [op : Op, content : Content, sequence : Nat, epoch : EpochId]
    <3>1. acked \subseteq [op : Op, content : Content, sequence : Nat, epoch : EpochId]
      BY DEF IInv, TypeOK
    <3>2. \A item \in retried, i \in DOMAIN log : AckOf(item, i, log[i].epoch) \in
             [op : Op, content : Content, sequence : Nat, epoch : EpochId]
      BY <1>3 DEF AckOf, Item, Record
    <3>3. \A i \in DOMAIN fresh : AckOf(fresh[i], Len(log) + i, e) \in
             [op : Op, content : Content, sequence : Nat, epoch : EpochId]
      <4> SUFFICES ASSUME NEW i \in DOMAIN fresh
                   PROVE  AckOf(fresh[i], Len(log) + i, e) \in
                            [op : Op, content : Content, sequence : Nat, epoch : EpochId]
        OBVIOUS
      <4>1. i \in 1 .. n /\ fresh[i] \in Item /\ n > 0 /\ i \in Nat
        BY <1>4
      <4>2. e \in EpochId
        BY <1>4, <1>5, <1>7, <1>8, <4>1, ConstantsAssumption DEF EpochId
      <4> QED BY <1>3, <4>1, <4>2 DEF AckOf, Item
    <3>4. acked' = acked \cup RetryAcks(retried) \cup FreshAcks(fresh, e)
      BY DEF AppendOperations, e
    <3>5. ASSUME NEW a \in acked'
          PROVE  a \in [op : Op, content : Content, sequence : Nat, epoch : EpochId]
      <4>1. CASE a \in acked
        BY <3>1, <4>1
      <4>2. CASE a \in RetryAcks(retried)
        <5>1. PICK p \in {q \in retried \X DOMAIN log : log[q[2]].op = q[1].op} :
                a = AckOf(p[1], p[2], log[p[2]].epoch)
          BY <4>2 DEF RetryAcks
        <5>2. p[1] \in retried /\ p[2] \in DOMAIN log
          BY <5>1
        <5> QED BY <3>2, <5>1, <5>2
      <4>3. CASE a \in FreshAcks(fresh, e)
        <5>1. PICK i \in DOMAIN fresh : a = AckOf(fresh[i], Len(log) + i, e)
          BY <4>3 DEF FreshAcks
        <5> QED BY <3>3, <5>1
      <4> QED BY <3>4, <4>1, <4>2, <4>3
    <3> QED BY <3>5
  <2> QED BY <1>1, <1>2, <1>10, <2>1 DEF IInv, TypeOK, driverVars, faultVars
<1>12. \A f \in EpochId : f # e \/ revision[f] # NULL => EpochOps(f)' = EpochOps(f)
  BY <1>1, <1>6 DEF EpochOps
<1>13. EpochRowsOK'
  <2>0. /\ \A f \in EpochId : status[f] # "absent" => f < epochs
        /\ \A f \in EpochId : status[f] = "open" => f = epochs - 1
        /\ \A f \in EpochId : f \in Nat
    BY DEF IInv, StoreOK, EpochRowsOK, EpochId
  <2>1. \A f \in EpochId : status'[f] # "absent" => f < epochs'
    <3>1. CASE UNCHANGED <<epochs, status>>
      BY <2>0, <3>1
    <3>2. CASE /\ e = epochs /\ epochs' = epochs + 1
               /\ status' = [status EXCEPT ![e] = "open"]
      <4>1. \A f \in EpochId : status'[f] # "absent" => f = epochs \/ f < epochs
        BY <1>4, <2>0, <3>2
      <4> QED BY <1>4, <2>0, <3>2, <4>1
    <3> QED BY <1>5, <1>7, <3>1, <3>2
  <2>2. \A f \in EpochId : status'[f] = "open" => f = epochs' - 1
    <3>1. CASE UNCHANGED <<epochs, status>>
      BY <2>0, <3>1
    <3>2. CASE /\ e = epochs /\ e # epochs - 1 /\ epochs' = epochs + 1
               /\ status' = [status EXCEPT ![e] = "open"]
      <4>1. epochs = 0 \/ status[epochs - 1] # "open"
        BY <1>4, <3>2 DEF OpenOrCreateEpoch, e
      <4>2. \A f \in EpochId : status[f] # "open"
        BY <1>4, <2>0, <4>1
      <4>3. \A f \in EpochId : status'[f] = "open" => f = epochs
        BY <1>4, <3>2, <4>2
      <4> QED BY <1>4, <3>2, <4>3
    <3> QED BY <1>4, <1>5, <1>7, <3>1, <3>2
  <2>3. \A f \in EpochId : revision'[f] # NULL => f < epochs' /\ status'[f] # "open"
    BY <1>2, <1>4, <1>10 DEF IInv, StoreOK, EpochRowsOK, EpochId
  <2>4. \A i \in DOMAIN log' : log'[i].epoch < epochs'
    <3>1. \A i \in DOMAIN log : log[i].epoch < epochs /\ log[i].epoch \in EpochId
      BY <1>3 DEF IInv, StoreOK, EpochRowsOK, Record
    <3>2. n > 0 => e < epochs'
      BY <1>4, <1>5, <1>7, <1>8
    <3> QED BY <1>1, <1>4, <1>10, <3>1, <3>2 DEF EpochId
  <2> QED BY <2>1, <2>2, <2>3, <2>4 DEF EpochRowsOK
<1>14. RowsOK'
  BY <1>2 DEF IInv, StoreOK, RowsOK
<1>15. NoLostFold'
  <2>1. \A i \in DOMAIN log' \ DOMAIN log : revision[log'[i].epoch] = NULL
    BY <1>1, <1>6
  <2> QED BY <1>1, <1>2, <2>1 DEF IInv, StoreOK, NoLostFold
<1>16. BroadcastsOK' /\ BroadcastComplete'
  <2>1. \A b \in broadcasts : b.epoch \in EpochId /\ b.epoch < epochs'
                               /\ revision[b.epoch] # NULL
    BY <1>4, <1>10 DEF IInv, TypeOK, StoreOK, BroadcastsOK, EpochId
  <2> QED BY <1>2, <1>12, <2>1 DEF IInv, StoreOK, BroadcastsOK, BroadcastComplete
<1>17. DriverOK'
  <2> SUFFICES ASSUME NEW c \in Driver PROVE DriverOK!(c)'
    BY DEF DriverOK
  <2>1. cur[c] \in EpochId /\ todo[c] \subseteq EpochId
    BY DEF IInv, TypeOK
  <2>2. pc[c] \in Pipeline => cur[c] < epochs'
    BY <1>4, <1>10, <2>1 DEF IInv, DriverOK, EpochId
  <2>3. \A f \in todo[c] : f < epochs'
    BY <1>4, <1>10, <2>1 DEF IInv, DriverOK, EpochId
  <2>4. pc[c] \in Pipeline \ {"mark"} => status'[cur[c]] # "open"
    BY <1>10, <2>1 DEF IInv, DriverOK
  <2>5. pc[c] \in Pipeline \ {"mark"} => cur[c] # e
    BY <1>4, <1>5, <2>1 DEF IInv, DriverOK, EpochId
  <2>6. pc[c] \in {"baseline", "commit", "publish"} =>
          readOps[c] = EpochOps(cur[c])' /\ readOps[c] # {}
    <3>1. pc[c] \in {"baseline", "commit", "publish"} =>
            readOps[c] = EpochOps(cur[c]) /\ readOps[c] # {}
      BY DEF IInv, DriverOK
    <3>2. cur' = cur
      BY <1>2 DEF driverVars
    <3>3. cur[c] # e => {i \in DOMAIN log' : log'[i].epoch = cur[c]}
                         = {i \in DOMAIN log : log[i].epoch = cur[c]}
      BY <1>1
    <3>4. pc[c] \in {"baseline", "commit", "publish"} => cur[c] # e
      BY <2>5 DEF Pipeline
    <3> QED BY <3>1, <3>2, <3>3, <3>4 DEF EpochOps
  <2> QED BY <1>2, <2>2, <2>3, <2>4, <2>6 DEF IInv, DriverOK, driverVars
<1>18. FastOK'
  <2>1. fastRead' # NULL => fastRead' < epochs'
    BY <1>2, <1>4, <1>10 DEF IInv, TypeOK, FastOK, EpochId
  <2>2. pinning' => DOMAIN log' # {}
    BY <1>1, <1>2 DEF IInv, FastOK
  <2> QED BY <2>1, <2>2 DEF FastOK
<1> QED BY <1>11, <1>13, <1>14, <1>15, <1>16, <1>17, <1>18 DEF IInv, StoreOK

-----------------------------------------------------------------------------
(* The theorems.                                                           *)

\* Every step of the system keeps the invariant.
LEMMA StepInv == ASSUME IInv, [Next]_vars PROVE IInv'
<1>1. CASE AcceptBatch
  <2>1. PICK fresh \in UNION {[1 .. n -> Item] : n \in 0 .. MaxBatch},
             retried \in {{}} \cup {{item} : item \in Item} :
               AppendOperations(fresh, retried)
    BY <1>1 DEF AcceptBatch
  <2>2. PICK n \in 0 .. MaxBatch : fresh \in [1 .. n -> Item]
    BY <2>1
  <2>3. retried \in SUBSET Item
    BY <2>1
  <2> QED BY <2>1, <2>2, <2>3, AppendInv
<1>2. CASE LegacyCommit \/ Reset \/ DerivePin \/ InsertPin
  BY <1>2, BumpInv, PinInv
<1>3. ASSUME NEW e \in EpochId,
             ConsumeExactEpoch(e) \/ ReadFastEpoch(e) \/ WindowElapses(e)
      PROVE  IInv'
  BY <1>3, LaneInv, FastReadInv, FaultInv
<1>4. ASSUME NEW d \in Driver, DriverStep(d) \/ Fail(d) PROVE IInv'
  BY <1>4, PassInv, GetEpochInv, MarkClosedInv, ReadInv, CommitReductionInv,
     PublishInv, FaultInv DEF DriverStep
<1>5. CASE Crash \/ PlanFastEpoch
  BY <1>5, FaultInv, LaneInv
<1>6. CASE UNCHANGED vars
  <2> USE <1>6 DEF vars
  <2>1. TypeOK'
    BY DEF IInv, TypeOK, storeVars, driverVars, faultVars
  <2>2. StoreOK'
    BY StoreFrame DEF IInv
  <2>3. DriverOK'
    BY DEF IInv, DriverOK, storeVars, driverVars, EpochOps
  <2>4. FastOK'
    BY FastFrame DEF storeVars
  <2> QED BY <2>1, <2>2, <2>3, <2>4 DEF IInv
<1> QED BY <1>1, <1>2, <1>3, <1>4, <1>5, <1>6 DEF Next

\* IInv is an invariant of the epoch plane.
THEOREM Invariance == Spec => []IInv
<1>1. Init => IInv
  BY InitInv
<1>2. IInv /\ [Next]_vars => IInv'
  BY StepInv
<1> QED BY <1>1, <1>2, PTL DEF Spec

\* Type correctness; in particular no event is published without a revision.
THEOREM TypeCorrect == Spec => []TypeOK
<1>1. IInv => TypeOK
  BY DEF IInv
<1> QED BY <1>1, Invariance, PTL

\* However many drivers race, a canonical row holds exactly the operations of
\* the epochs committed up to its revision: commit_epoch_reduction's baseline
\* check loses no fold.
THEOREM NoFoldIsLost == Spec => []NoLostFold
<1>1. IInv => NoLostFold
  BY DEF IInv, StoreOK
<1> QED BY <1>1, Invariance, PTL

\* However many drivers, failures and restarts there are, a canonical_revision
\* event carries all of its epoch's operations, then and ever after.
THEOREM BroadcastsAreComplete == Spec => []BroadcastComplete
<1>1. IInv => BroadcastComplete
  BY DEF IInv, StoreOK
<1> QED BY <1>1, Invariance, PTL

-----------------------------------------------------------------------------

\* Only a commit writes the revision column, and only where it was NULL; what
\* the refinement can see of any other step is a longer log, or the pin.
LEMMA OnlyCommitsPublish ==
  ASSUME IInv, [Next]_vars
  PROVE  \/ \E d \in Driver : CommitReduction(d)
         \/ /\ UNCHANGED <<revision, rows, folded>>
            /\ DOMAIN log \subseteq DOMAIN log'
         \/ /\ UNCHANGED <<revision, folded, log>>
            /\ \/ rows' = rows \ {0}
               \/ rows' = rows \cup {0} /\ pinning
<1> DEFINE Quiet == /\ UNCHANGED <<revision, rows, folded>>
                    /\ DOMAIN log \subseteq DOMAIN log'
<1>1. CASE AcceptBatch
  <2>1. PICK fresh \in UNION {[1 .. n -> Item] : n \in 0 .. MaxBatch},
             retried \in {{}} \cup {{item} : item \in Item} :
               AppendOperations(fresh, retried)
    BY <1>1 DEF AcceptBatch
  <2>2. PICK n \in 0 .. MaxBatch : fresh \in [1 .. n -> Item]
    BY <2>1
  <2>3. \A i \in DOMAIN log : i \in DOMAIN log'
    BY <2>1, <2>2, AppendFacts
  <2>4. UNCHANGED <<revision, rows, folded>>
    BY <2>1 DEF AppendOperations
  <2> QED BY <2>3, <2>4
<1>2. CASE LegacyCommit \/ Reset \/ DerivePin \/ InsertPin
  BY <1>2 DEF LegacyCommit, Reset, VoidedRows, Bump, DerivePin, InsertPin, storeVars
<1>3. ASSUME NEW e \in EpochId,
             ConsumeExactEpoch(e) \/ ReadFastEpoch(e) \/ WindowElapses(e)
      PROVE  Quiet
  BY <1>3 DEF ConsumeExactEpoch, ReadFastEpoch, WindowElapses, storeVars
<1>4. ASSUME NEW d \in Driver, DriverStep(d) \/ Fail(d), ~CommitReduction(d)
      PROVE  Quiet
  BY <1>4 DEF DriverStep, Recover, ListStranded, ListOpen, StartPass, EndPass,
     GetEpoch, MarkClosed, RereadEpoch, ReadOperations, ReadBaseline,
     CommitAgain, CommitStale, Publish, Fail, storeVars
<1>5. CASE Crash \/ PlanFastEpoch
  BY <1>5 DEF Crash, PlanFastEpoch, storeVars
<1>6. CASE UNCHANGED vars
  BY <1>6 DEF vars, storeVars
<1> QED BY <1>1, <1>2, <1>3, <1>4, <1>5, <1>6 DEF Next

\* No re-drive, rival driver or recovery moves an epoch to another revision.
THEOREM RevisionsAreAssignedOnce == Spec => AssignedOnce
<1> DEFINE Kept == \A e \in EpochId : revision[e] # NULL => revision'[e] = revision[e]
<1>1. ASSUME IInv, [Next]_vars PROVE Kept
  <2>1. CASE \E d \in Driver : CommitReduction(d)
    <3>1. PICK d \in Driver : CommitReduction(d)
      BY <2>1
    <3>2. revision[cur[d]] = NULL /\ revision \in [EpochId -> Revision \cup {NULL}]
      BY <1>1, <3>1, CommitFacts DEF IInv, TypeOK
    <3>3. revision' = [revision EXCEPT ![cur[d]] = sceneVersion + 1]
      BY <3>1 DEF CommitReduction
    <3> QED BY <3>2, <3>3
  <2>2. CASE UNCHANGED revision
    BY <2>2
  <2> QED BY <1>1, <2>1, <2>2, OnlyCommitsPublish
<1>2. IInv /\ [Next]_vars => [Kept]_vars
  BY <1>1
<1> HIDE DEF Kept
<1>3. Spec => [][Kept]_vars
  BY <1>2, Invariance, PTL DEF Spec
<1> QED BY <1>3 DEF AssignedOnce, Kept

\* The epoch plane implements the abstract log of revisions: every commit is
\* one Publish, a bootstrap is a Pin, a reset an Unpin, and whatever else
\* happens is an Accept or nothing at all.
THEOREM Refinement == Spec => ImplementsRevisionLog
<1>1. Init => RL!Init
  BY DEF Init, RL!Init
<1>2. ASSUME IInv, [Next]_vars PROVE [RL!Next]_(RL!vars)
  <2>1. CASE \E d \in Driver : CommitReduction(d)
    <3>1. PICK d \in Driver : CommitReduction(d)
      BY <2>1
    <3> DEFINE r == sceneVersion + 1
               S == readOps[d]
    <3>2. /\ r \in Revision /\ (\A s \in rows : s < r)
          /\ revision[cur[d]] = NULL
          /\ S = EpochOps(cur[d]) /\ S # {}
          /\ baseOps[d] = {i \in DOMAIN log : revision[log[i].epoch] # NULL}
      BY <1>2, <3>1, CommitFacts
    <3>3. /\ rows' = rows \cup {r} /\ log' = log
          /\ folded' = [folded EXCEPT ![r] = baseOps[d] \cup S]
      BY <3>1 DEF CommitReduction
    <3>4. r \notin rows /\ \A s \in rows \cup {0} : s < r
      <4>1. sceneVersion \in Nat
        BY <1>2, ConstantsAssumption DEF IInv, TypeOK, Revision
      <4> QED BY <3>2, <4>1
    <3>5. RL!Covered = baseOps[d]
      <4>1. \A s \in rows : folded[s] = {i \in DOMAIN log :
                revision[log[i].epoch] # NULL /\ revision[log[i].epoch] <= s}
        BY <1>2 DEF IInv, StoreOK, NoLostFold
      <4>2. \A i \in DOMAIN log : revision[log[i].epoch] # NULL =>
              /\ revision[log[i].epoch] \in rows
              /\ i \in folded[revision[log[i].epoch]]
        <5>1. \A i \in DOMAIN log : log[i].epoch \in EpochId
          BY <1>2, LogDomain DEF IInv, Record
        <5>2. \A i \in DOMAIN log : revision[log[i].epoch] # NULL =>
                revision[log[i].epoch] \in rows
                /\ revision[log[i].epoch] <= revision[log[i].epoch]
          BY <1>2, <5>1, ConstantsAssumption
             DEF IInv, TypeOK, StoreOK, RowsOK, Revision
        <5> QED BY <4>1, <5>2
      <4> QED BY <3>2, <4>1, <4>2 DEF RL!Covered
    <3>6. S \in (SUBSET (DOMAIN log \ RL!Covered)) \ {{}}
      BY <3>2, <3>5 DEF EpochOps
    <3> QED BY <3>2, <3>3, <3>4, <3>5, <3>6 DEF RL!Next, RL!Publish
  <2>2. CASE UNCHANGED <<rows, folded>> /\ DOMAIN log \subseteq DOMAIN log'
    BY <2>2 DEF RL!Next, RL!Accept
  <2>3. CASE UNCHANGED <<folded, log>> /\ rows' = rows \ {0}
    BY <2>3 DEF RL!Next, RL!Unpin
  <2>4. CASE UNCHANGED <<folded, log>> /\ rows' = rows \cup {0} /\ pinning
    BY <1>2, <2>4 DEF IInv, FastOK, RL!Next, RL!Pin
  <2> QED BY <1>2, <2>1, <2>2, <2>3, <2>4, OnlyCommitsPublish
<1>3. IInv /\ [Next]_vars => [RL!Next]_(RL!vars)
  BY <1>2
<1> QED BY <1>1, <1>3, Invariance, PTL DEF Spec, ImplementsRevisionLog, RL!Spec

-----------------------------------------------------------------------------
(* The ledger itself: what append_operations answered and the spans it     *)
(* gave its epochs.                                                        *)

\* An operation id is used once.
IdsUnique ==
  \A i, j \in DOMAIN log : log[i].op = log[j].op => i = j

\* The spans are laid end to end, the newest one ends where the log ends, and
\* an epoch that does not exist yet has no span.
SpansOK ==
  /\ \A e \in EpochId : e < epochs =>
        /\ 1 <= first[e] /\ first[e] <= last[e] /\ last[e] <= Len(log)
        /\ EpochOps(e) = first[e] .. last[e]
  /\ \A e \in EpochId : epochs <= e => first[e] = 0
  /\ epochs = 0 => Len(log) = 0
  /\ epochs > 0 => last[epochs - 1] = Len(log)

LedgerOK == IdsUnique /\ SpansOK /\ AcksTruthful

\* Nothing but an accepted batch writes the ledger.
LEMMA OnlyBatchesWriteTheLedger ==
  ASSUME [Next]_vars
  PROVE  AcceptBatch \/ UNCHANGED <<log, acked, epochs, first, last>>
<1>1. CASE LegacyCommit \/ Reset \/ DerivePin \/ InsertPin
  BY <1>1 DEF LegacyCommit, Reset, Bump, DerivePin, InsertPin, storeVars
<1>2. ASSUME NEW e \in EpochId,
             ConsumeExactEpoch(e) \/ ReadFastEpoch(e) \/ WindowElapses(e)
      PROVE  UNCHANGED <<log, acked, epochs, first, last>>
  BY <1>2 DEF ConsumeExactEpoch, ReadFastEpoch, WindowElapses, storeVars
<1>3. ASSUME NEW d \in Driver, DriverStep(d) \/ Fail(d)
      PROVE  UNCHANGED <<log, acked, epochs, first, last>>
  BY <1>3 DEF DriverStep, Recover, ListStranded, ListOpen, StartPass, EndPass,
     GetEpoch, MarkClosed, RereadEpoch, ReadOperations, ReadBaseline,
     CommitAgain, CommitStale, CommitReduction, Publish, Fail, storeVars
<1>4. CASE Crash \/ PlanFastEpoch
  BY <1>4 DEF Crash, PlanFastEpoch, storeVars
<1>5. CASE UNCHANGED vars
  BY <1>5 DEF vars, storeVars
<1> QED BY <1>1, <1>2, <1>3, <1>4, <1>5 DEF Next

\* append_operations answers truthfully, never reuses an id and extends the
\* span of the one epoch it appends to by exactly what it appended.
LEMMA AppendLedger ==
  ASSUME IInv, LedgerOK, NEW n \in 0 .. MaxBatch, NEW fresh \in [1 .. n -> Item],
         NEW retried \in SUBSET Item, AppendOperations(fresh, retried)
  PROVE  LedgerOK'
<1> DEFINE L == Len(log)
<1>0. PICK e : e = OpenOrCreateEpoch
  OBVIOUS
<1>1. /\ log' \in Seq(Record) /\ Len(log') = L + n
      /\ \A i \in DOMAIN log : i \in DOMAIN log' /\ log'[i] = log[i]
      /\ \A i \in DOMAIN log' \ DOMAIN log :
            /\ n > 0 /\ e \in EpochId /\ log'[i].epoch = e
            /\ i - L \in 1 .. n
            /\ log'[i].op = fresh[i - L].op /\ log'[i].content = fresh[i - L].content
  BY <1>0, AppendFacts
<1>2. /\ L \in Nat /\ DOMAIN log = 1 .. L
      /\ \A i \in DOMAIN log : log[i] \in Record
  BY LogDomain DEF IInv
<1>3. n \in Nat /\ epochs \in Nat /\ DOMAIN fresh = 1 .. n
  BY ConstantsAssumption DEF IInv, TypeOK
<1>4. DOMAIN log' = 1 .. L + n /\ \A i \in DOMAIN log' : log'[i] \in Record
  BY <1>1, LenProperties, ElementOfSeq
<1>5. /\ \A i \in 1 .. n : ~Logged(fresh[i].op)
      /\ \A i, j \in 1 .. n : i # j => fresh[i].op # fresh[j].op
  BY <1>3 DEF AppendOperations
<1>6. IdsUnique'
  <2> SUFFICES ASSUME NEW i \in DOMAIN log', NEW j \in DOMAIN log',
                      log'[i].op = log'[j].op
               PROVE  i = j
    BY DEF IdsUnique
  <2>1. CASE i \in DOMAIN log /\ j \in DOMAIN log
    BY <1>1, <2>1 DEF LedgerOK, IdsUnique
  <2>2. CASE i \notin DOMAIN log /\ j \notin DOMAIN log
    <3>1. i - L \in 1 .. n /\ j - L \in 1 .. n /\ fresh[i - L].op = fresh[j - L].op
      BY <1>1, <2>2
    <3>2. i - L = j - L
      BY <1>5, <3>1
    <3> QED BY <1>2, <1>3, <1>4, <3>2
  <2>3. CASE i \in DOMAIN log /\ j \notin DOMAIN log
    BY <1>1, <1>5, <2>3 DEF Logged
  <2>4. CASE i \notin DOMAIN log /\ j \in DOMAIN log
    BY <1>1, <1>5, <2>4 DEF Logged
  <2> QED BY <2>1, <2>2, <2>3, <2>4
<1>7. AcksTruthful'
  <2> SUFFICES ASSUME NEW a \in acked'
               PROVE  /\ a.sequence \in DOMAIN log'
                      /\ log'[a.sequence] = [op |-> a.op, content |-> a.content,
                                             epoch |-> a.epoch]
    BY DEF AcksTruthful
  <2>1. acked' = acked \cup RetryAcks(retried) \cup FreshAcks(fresh, e)
    BY <1>0 DEF AppendOperations
  <2>2. CASE a \in acked
    BY <1>1, <2>2 DEF LedgerOK, AcksTruthful
  <2>3. CASE a \in RetryAcks(retried)
    <3>1. PICK item \in retried, i \in DOMAIN log :
            log[i].op = item.op /\ a = AckOf(item, i, log[i].epoch)
      BY <2>3 DEF RetryAcks
    <3>2. PICK j \in DOMAIN log : log[j].op = item.op /\ log[j].content = item.content
      BY <3>1 DEF AppendOperations, SameContent
    <3>3. log[i].content = item.content
      BY <3>1, <3>2 DEF LedgerOK, IdsUnique
    <3>4. log[i] = [op |-> item.op, content |-> item.content, epoch |-> log[i].epoch]
      BY <1>2, <3>1, <3>3 DEF Record
    <3> QED BY <1>1, <3>1, <3>4 DEF AckOf
  <2>4. CASE a \in FreshAcks(fresh, e)
    <3>1. PICK k \in 1 .. n : a = AckOf(fresh[k], L + k, e)
      BY <1>3, <2>4 DEF FreshAcks
    <3>2. L + k \in DOMAIN log' \ DOMAIN log /\ (L + k) - L = k
      BY <1>2, <1>3, <1>4
    <3>3. /\ log'[L + k].op = fresh[k].op /\ log'[L + k].content = fresh[k].content
          /\ log'[L + k].epoch = e /\ log'[L + k] \in Record
      BY <1>1, <1>4, <3>2
    <3>4. log'[L + k] = [op |-> fresh[k].op, content |-> fresh[k].content, epoch |-> e]
      BY <3>3 DEF Record
    <3> QED BY <3>1, <3>2, <3>4 DEF AckOf
  <2> QED BY <2>1, <2>2, <2>3, <2>4
<1>8. SpansOK'
  <2>0. /\ first \in [EpochId -> Nat] /\ last \in [EpochId -> Nat]
        /\ epochs \in 0 .. MaxEpoch + 1 /\ MaxEpoch \in Nat
    BY ConstantsAssumption DEF IInv, TypeOK
  <2>1. CASE n = 0
    <3>1. fresh = <<>>
      BY <2>1
    <3>2. UNCHANGED <<epochs, first, last>>
      BY <3>1 DEF AppendOperations
    <3>3. Len(log') = Len(log) /\ DOMAIN log' = DOMAIN log
          /\ \A i \in DOMAIN log : log'[i] = log[i]
      BY <1>1, <1>2, <1>4, <2>1
    <3>4. \A f \in EpochId : EpochOps(f)' = EpochOps(f)
      BY <3>3 DEF EpochOps
    <3> QED BY <3>2, <3>3, <3>4 DEF LedgerOK, SpansOK
  <2>2. CASE n > 0
    <3>1. fresh # <<>> /\ Len(fresh) = n
      <4>1. 1 \in DOMAIN fresh
        BY <1>3, <2>2
      <4>2. fresh = [i \in 1 .. n |-> fresh[i]] /\ \A i \in 1 .. n : fresh[i] \in Item
        OBVIOUS
      <4>3. fresh \in Seq(Item)
        BY <1>3, <4>2, IsASeq
      <4>4. Len(fresh) \in Nat /\ DOMAIN fresh = 1 .. Len(fresh)
        BY <4>3, LenProperties
      <4> QED BY <1>3, <4>1, <4>4
    <3>2. /\ e <= MaxEpoch
          /\ epochs' = IF e = epochs THEN epochs + 1 ELSE epochs
          /\ first' = [first EXCEPT ![e] = FirstSequence(e)]
          /\ last' = [last EXCEPT ![e] = L + n]
      BY <1>0, <3>1 DEF AppendOperations
    <3>3. e \in {epochs, epochs - 1} /\ e \in Nat /\ e \in EpochId
      BY <1>0, <1>3, <2>0, <3>2 DEF OpenOrCreateEpoch, EpochId
    <3>4. epochs' = e + 1 /\ epochs' > 0 /\ epochs' - 1 = e
      BY <1>3, <3>2, <3>3
    <3>5. /\ \A f \in EpochId : f # e => first'[f] = first[f] /\ last'[f] = last[f]
          /\ first'[e] = FirstSequence(e) /\ last'[e] = L + n
      BY <2>0, <3>2, <3>3
    <3>6. \A f \in EpochId : f # e => EpochOps(f)' = EpochOps(f)
      BY <1>1 DEF EpochOps
    <3>7. \A f \in EpochId : f < e => f < epochs
      BY <1>3, <2>0, <3>3 DEF EpochId
    <3>8. /\ 1 <= first'[e] /\ first'[e] <= last'[e] /\ last'[e] <= Len(log')
          /\ EpochOps(e)' = first'[e] .. last'[e]
      <4>1. EpochOps(e)' = EpochOps(e) \cup (L + 1 .. L + n)
        <5>1. DOMAIN log' \ DOMAIN log = L + 1 .. L + n
          BY <1>2, <1>3, <1>4
        <5> QED BY <1>1, <5>1 DEF EpochOps
      <4>2. CASE e = epochs
        <5>1. first[e] = 0 /\ EpochOps(e) = {}
          <6>1. \A i \in DOMAIN log : log[i].epoch # epochs
            BY <1>2, <1>3 DEF IInv, StoreOK, EpochRowsOK, Record, EpochId
          <6> QED BY <1>3, <2>0, <3>3, <4>2, <6>1 DEF LedgerOK, SpansOK, EpochOps
        <5>2. first'[e] = L + 1
          BY <3>5, <5>1 DEF FirstSequence
        <5> QED BY <1>1, <1>2, <1>3, <2>2, <3>5, <4>1, <5>1, <5>2
      <4>3. CASE e = epochs - 1
        <5>1. e < epochs /\ epochs > 0
          BY <1>3, <3>3, <4>3
        <5>2. /\ 1 <= first[e] /\ first[e] <= last[e] /\ last[e] = L
              /\ EpochOps(e) = first[e] .. last[e]
          BY <3>3, <4>3, <5>1 DEF LedgerOK, SpansOK
        <5>3. first[e] \in Nat /\ first[e] # 0
          BY <2>0, <3>3, <5>2
        <5>4. first'[e] = first[e]
          BY <3>5, <5>3 DEF FirstSequence
        <5>5. EpochOps(e)' = first[e] .. L + n
          BY <1>2, <1>3, <4>1, <5>2, <5>3
        <5> QED BY <1>1, <1>2, <1>3, <2>2, <3>5, <5>2, <5>3, <5>4, <5>5
      <4> QED BY <3>3, <4>2, <4>3
    <3>9. \A f \in EpochId : f < epochs' =>
            /\ 1 <= first'[f] /\ first'[f] <= last'[f] /\ last'[f] <= Len(log')
            /\ EpochOps(f)' = first'[f] .. last'[f]
      <4> SUFFICES ASSUME NEW f \in EpochId, f < epochs'
                   PROVE  /\ 1 <= first'[f] /\ first'[f] <= last'[f]
                          /\ last'[f] <= Len(log')
                          /\ EpochOps(f)' = first'[f] .. last'[f]
        OBVIOUS
      <4>1. CASE f = e
        BY <3>8, <4>1
      <4>2. CASE f # e
        <5>1. f < epochs
          BY <1>3, <2>0, <3>3, <3>4, <3>7, <4>2 DEF EpochId
        <5>2. /\ 1 <= first[f] /\ first[f] <= last[f] /\ last[f] <= L
              /\ EpochOps(f) = first[f] .. last[f]
          BY <5>1 DEF LedgerOK, SpansOK
        <5>3. first[f] \in Nat /\ last[f] \in Nat
          BY <2>0
        <5>4. last[f] <= L + n
          BY <1>2, <1>3, <5>2, <5>3
        <5> QED BY <1>1, <3>5, <3>6, <4>2, <5>2, <5>4
      <4> QED BY <4>1, <4>2
    <3>10. \A f \in EpochId : epochs' <= f => first'[f] = 0
      <4>1. \A f \in EpochId : e + 1 <= f => f # e /\ epochs <= f
        BY <1>3, <2>0, <3>3 DEF EpochId
      <4> QED BY <3>4, <3>5, <4>1 DEF LedgerOK, SpansOK
    <3>11. last'[epochs' - 1] = Len(log')
      BY <1>1, <3>4, <3>5
    <3>12. epochs' # 0
      BY <3>3, <3>4
    <3> HIDE DEF L
    <3> QED BY <3>9, <3>10, <3>11, <3>12 DEF SpansOK
  <2> QED BY <1>3, <2>1, <2>2
<1> QED BY <1>6, <1>7, <1>8 DEF LedgerOK

\* The ledger's invariant, from the one of the plane.
THEOREM LedgerInvariance == Spec => []LedgerOK
<1>1. Init => LedgerOK
  <2> SUFFICES ASSUME Init PROVE LedgerOK
    OBVIOUS
  <2>1. /\ log = <<>> /\ acked = {} /\ epochs = 0
        /\ first = [e \in EpochId |-> 0]
    BY DEF Init
  <2>2. Len(log) = 0 /\ DOMAIN log = {}
    BY <2>1
  <2>3. \A e \in EpochId : ~(e < epochs)
    BY <2>1, ConstantsAssumption DEF EpochId
  <2> QED BY <2>1, <2>2, <2>3 DEF LedgerOK, IdsUnique, SpansOK, AcksTruthful
<1>2. ASSUME IInv, LedgerOK, [Next]_vars PROVE LedgerOK'
  <2>1. CASE AcceptBatch
    <3>1. PICK fresh \in UNION {[1 .. n -> Item] : n \in 0 .. MaxBatch},
               retried \in {{}} \cup {{item} : item \in Item} :
                 AppendOperations(fresh, retried)
      BY <2>1 DEF AcceptBatch
    <3>2. PICK n \in 0 .. MaxBatch : fresh \in [1 .. n -> Item]
      BY <3>1
    <3>3. retried \in SUBSET Item
      BY <3>1
    <3> QED BY <1>2, <3>1, <3>2, <3>3, AppendLedger
  <2>2. CASE UNCHANGED <<log, acked, epochs, first, last>>
    BY <1>2, <2>2 DEF LedgerOK, IdsUnique, SpansOK, AcksTruthful, EpochOps
  <2> QED BY <1>2, <2>1, <2>2, OnlyBatchesWriteTheLedger
<1>3. IInv /\ LedgerOK /\ [Next]_vars => LedgerOK'
  BY <1>2
<1> QED BY <1>1, <1>3, Invariance, PTL DEF Spec

\* Retry idempotency: an answer append_operations ever gave, first time or on
\* a retry, is what the log says about that operation ever after.
THEOREM AcksStayTruthful == Spec => []AcksTruthful
<1>1. LedgerOK => AcksTruthful
  BY DEF LedgerOK
<1> QED BY <1>1, LedgerInvariance, PTL

\* The log is cut into consecutive, non-empty epochs: an epoch's operations are
\* exactly first_sequence .. last_sequence, however many batches it took.
THEOREM SpansPartitionTheLog == Spec => []EpochSpansPartitionLog
<1>1. IInv /\ LedgerOK => EpochSpansPartitionLog
  <2> SUFFICES ASSUME IInv, LedgerOK, NEW e \in 0 .. epochs - 1
               PROVE  EpochOps(e) # {} /\ EpochOps(e) = first[e] .. last[e]
    BY DEF EpochSpansPartitionLog
  <2>1. epochs \in 0 .. MaxEpoch + 1 /\ MaxEpoch \in Nat
    BY ConstantsAssumption DEF IInv, TypeOK
  <2>2. e \in EpochId /\ e < epochs
    BY <2>1 DEF EpochId
  <2>3. first[e] \in Nat /\ last[e] \in Nat
    BY <2>2 DEF IInv, TypeOK
  <2>4. first[e] <= last[e] /\ EpochOps(e) = first[e] .. last[e]
    BY <2>2 DEF LedgerOK, SpansOK
  <2> QED BY <2>3, <2>4
<1> QED BY <1>1, Invariance, LedgerInvariance, PTL

=============================================================================
