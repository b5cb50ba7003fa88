------------------------------ MODULE ExactLane ------------------------------
(***************************************************************************)
(* The exact lane of one workspace: the job rows and results of the store  *)
(* (solweig_gpu/server/store.py), the job runner with its tick, dispatch   *)
(* and finalize paths (server/jobs.py), the publish lease                  *)
(* (server/realtime/publish_fence.py) and the cancel route                 *)
(* (server/routes_jobs.py).                                                *)
(*                                                                         *)
(* One store transaction is one step.  The runner thread, the route thread *)
(* that boots the application (server/app.py) and later commits a legacy   *)
(* edit, the cancel route, the epoch scheduler and a process restart       *)
(* interleave between transactions.  An epoch carries one operation, whose *)
(* server_sequence is the epoch's id; what the solver computes is its      *)
(* outcome and the operations its span folds.                              *)
(***************************************************************************)
EXTENDS Integers, Sequences, FiniteSets

CONSTANTS NumEpochs,      \* bound: epochs (and operations) of the workspace
          MaxVersion,     \* bound: scene_version never exceeds it
          MaxJobs,        \* bound: job rows
          MaxLegacy,      \* bound: legacy edit commits
          MaxResets,      \* bound: scenario resets
          MaxCancels,     \* bound: client cancels
          MaxFailures,    \* bound: solves that fail, dispatches that raise
          MaxCrashes,     \* bound: process restarts
          MaxMoves,       \* bound: times the audience arrives or leaves
          MidRequest,     \* a restart may cut an edit request short
          Reorders,       \* epochs may commit out of epoch order
          BaselineServed, \* version 0 already has the baseline result
          SharedWorld,    \* the workspace is the deployment's shared world
          AttemptsPerDay  \* RECONCILE_ATTEMPTS_PER_DAY (5 in the code)

ASSUME BoundsAssumption ==
  /\ NumEpochs \in Nat /\ MaxVersion \in Nat /\ MaxJobs \in Nat
  /\ MaxLegacy \in Nat /\ MaxResets \in Nat /\ MaxCancels \in Nat
  /\ MaxFailures \in Nat /\ MaxCrashes \in Nat /\ MaxMoves \in Nat
  /\ BaselineServed \in BOOLEAN /\ Reorders \in BOOLEAN
  /\ MidRequest \in BOOLEAN /\ SharedWorld \in BOOLEAN
  /\ AttemptsPerDay \in Nat \ {0}
  /\ BaselineServed \/ MaxJobs > 0

Epoch   == 1 .. NumEpochs
Version == 0 .. MaxVersion
JobId   == 1 .. MaxJobs
NoJob   == 0
Thread  == {"runner", "route"}
Status  == {"absent", "queued", "running",
            "complete", "failed", "superseded", "cancelled"}
Live    == {"queued", "running"}
Ended   == {"complete", "failed", "superseded", "cancelled"}

VARIABLES sceneVersion, \* scenarios.scene_version
          exactVersion, \* scenarios.exact_result_version
          logged,       \* epochs 1 .. logged hold their operation
          rev,          \* workspace_revision of each epoch row, 0 if none
          settled,      \* epochs whose status is exact_targeted
          status,       \* jobs.status
          spec,         \* what each job row was inserted with
          results,      \* the job that published each version's row, -1 if none
          owed,         \* workspace_reconcile.owed
          dayDone       \* last_completed_date is today

VARIABLES queue,        \* JobRunner._queue
          attempted,    \* JobRunner._exact_attempted
          attempts,     \* JobRunner._reconcile_failures of today
          tick,         \* what a thread's exact-lane tick has read, or Quiet
          pc, cur,      \* where the runner is, and the job it handles
          ending,       \* how the current job ends once its epochs are consumed
          route,        \* the route thread: what it does next, for which job,
                        \* and whether it is still booting the application
          dropped       \* jobs whose dispatch raised, kept by nobody

VARIABLES watchers,     \* the hub counts a subscriber
          legacy, resets, cancels, failures, crashes, moves

storeVars  == <<sceneVersion, exactVersion, logged, rev, settled, status, spec,
                results, owed, dayDone>>
memoryVars == <<queue, attempted, attempts, tick, pc, cur, ending, route,
                dropped>>
countVars  == <<legacy, resets, cancels, failures, crashes, moves>>
vars       == <<storeVars, memoryVars, watchers, countVars>>

NoSpec == [exact |-> FALSE, reconcile |-> FALSE, target |-> 0,
           consumedRev |-> 0, consumedSeq |-> 0, spanHi |-> 0]
Quiet  == [on |-> FALSE, rev |-> [e \in Epoch |-> 0],
           consumedRev |-> 0, consumedSeq |-> 0, reconcile |-> FALSE]
NoEnd  == [status |-> "superseded", settle |-> "none"]
AtRest == [at |-> "rest", job |-> NoJob, boot |-> FALSE]

MaxOf(S, least) == CHOOSE m \in S \cup {least} : \A x \in S \cup {least} : x <= m

Assigned  == {e \in Epoch : rev[e] # 0}
ExactJobs == {j \in JobId : status[j] # "absent" /\ spec[j].exact}
NextJob   == Cardinality({j \in JobId : status[j] # "absent"}) + 1
Current   == spec[cur]

\* The application answers requests once its lifespan has started.
Serving == pc # "down" /\ ~route.boot

\* A new scenario has its baseline job, already submitted; a scenario that is
\* served has had it, and the row is left out.
Init ==
  /\ sceneVersion = 0 /\ exactVersion = 0 /\ logged = 0 /\ settled = {}
  /\ rev     = [e \in Epoch |-> 0]
  /\ status  = [j \in JobId |-> IF j = 1 /\ ~BaselineServed THEN "queued"
                                                           ELSE "absent"]
  /\ spec    = [j \in JobId |-> NoSpec]
  /\ results = [v \in Version |-> IF v = 0 /\ BaselineServed THEN NoJob ELSE -1]
  /\ owed = FALSE /\ dayDone = FALSE
  /\ queue = IF BaselineServed THEN <<>> ELSE <<1>>
  /\ attempted = 0 /\ attempts = 0
  /\ tick = [t \in Thread |-> Quiet]
  /\ pc = "idle" /\ cur = NoJob /\ ending = NoEnd /\ route = AtRest
  /\ dropped = {}
  /\ watchers \in BOOLEAN
  /\ legacy = 0 /\ resets = 0 /\ cancels = 0 /\ failures = 0
  /\ crashes = 0 /\ moves = 0

-----------------------------------------------------------------------------
(* What reaches the workspace from outside the job plane.                  *)

\* An operation is accepted and its epoch closes (the epoch plane's work).
CloseEpoch ==
  /\ Serving
  /\ logged + (IF route.at = "funnel" THEN 1 ELSE 0) < NumEpochs
  /\ logged' = logged + 1
  /\ UNCHANGED <<sceneVersion, exactVersion, rev, settled, status, spec, results,
                 owed, dayDone, memoryVars, watchers, countVars>>

\* The epoch scheduler commits a closed epoch, in epoch order unless a failed
\* close is retried after its successor.
CommitEpoch(e) ==
  /\ Serving /\ e <= logged /\ rev[e] = 0 /\ sceneVersion < MaxVersion
  /\ Reorders \/ \A f \in 1 .. e - 1 : rev[f] # 0
  /\ sceneVersion' = sceneVersion + 1
  /\ rev' = [rev EXCEPT ![e] = sceneVersion + 1]
  /\ UNCHANGED <<exactVersion, logged, settled, status, spec, results, owed,
                 dayDone, memoryVars, watchers, countVars>>

\* A browser subscribes to the hub, or the last one leaves.
MoveAudience ==
  /\ moves < MaxMoves
  /\ watchers' = ~watchers /\ moves' = moves + 1
  /\ UNCHANGED <<storeVars, memoryVars, legacy, resets, cancels, failures, crashes>>

\* Midnight UTC: both the daily cap and the attempt ceiling compare dates.  A
\* day is long next to the closing of an epoch.
NewDay ==
  /\ dayDone \/ attempts > 0
  /\ \A e \in 1 .. logged : rev[e] # 0
  /\ dayDone' = FALSE /\ attempts' = 0
  /\ UNCHANGED <<sceneVersion, exactVersion, logged, rev, settled, status, spec,
                 results, owed, queue, attempted, tick, pc, cur, ending, route,
                 dropped, watchers, countVars>>

-----------------------------------------------------------------------------
(* Job rows.                                                               *)

\* _supersede_queued_locked: queued rows other than the kept one end.
Supersede(st, kept) ==
  [j \in JobId |-> IF st[j] = "queued" /\ j # kept THEN "superseded" ELSE st[j]]

\* Variation of Finish: the UPDATE forgets its WHERE status IN (...).
FinishAny(j, st) == status' = [status EXCEPT ![j] = st]

\* finish_job: only a queued or running row moves.
Finish(j, st) ==
  status' = [status EXCEPT ![j] = IF @ \in Live THEN st ELSE @]

\* commit_edits / commit_universal_edits: one version, one job row.
LegacyCommit ==
  /\ route = AtRest /\ legacy < MaxLegacy /\ sceneVersion < MaxVersion
  /\ Serving /\ logged < NumEpochs /\ NextJob <= MaxJobs
  /\ legacy' = legacy + 1
  /\ sceneVersion' = sceneVersion + 1
  /\ spec' = [spec EXCEPT ![NextJob] = [NoSpec EXCEPT !.target = sceneVersion + 1]]
  /\ status' = Supersede([status EXCEPT ![NextJob] = "queued"], NextJob)
  /\ route' = [at |-> "funnel", job |-> NextJob, boot |-> FALSE]
  /\ UNCHANGED <<exactVersion, logged, rev, settled, results, owed, dayDone, queue,
                 attempted, attempts, tick, pc, cur, ending, dropped, watchers, resets,
                 cancels, failures, crashes, moves>>

\* submit: the edits of a legacy job of a collaborative workspace are mirrored
\* as operations.  Their ids are deterministic, so a job submitted again at boot
\* adds nothing unless the first submit was cut short.
Funnel ==
  /\ route.at = "funnel"
  /\ LET mirrors == /\ ~spec[route.job].exact /\ spec[route.job].target > 0
                    /\ logged > 0
     IN \/ mirrors /\ logged < NumEpochs /\ logged' = logged + 1
        \/ (~mirrors \/ route.boot) /\ UNCHANGED logged
  /\ route' = [route EXCEPT !.at = "tick"]
  /\ UNCHANGED <<sceneVersion, exactVersion, rev, settled, status, spec, results,
                 owed, dayDone, queue, attempted, attempts, tick, pc, cur, ending,
                 dropped, watchers, countVars>>

\* submit: the job enters the queue after the tick it triggers.
PutLegacy ==
  /\ route.at = "put" /\ route.job # NoJob /\ ~tick["route"].on
  /\ queue' = Append(queue, route.job)
  /\ route' = AtRest
  /\ UNCHANGED <<storeVars, attempted, attempts, tick, pc, cur, ending, dropped,
                 watchers, countVars>>

\* reset_scenario: a new version whose result is the baseline, at once.
Reset ==
  /\ resets < MaxResets /\ sceneVersion < MaxVersion /\ Serving
  /\ resets' = resets + 1
  /\ sceneVersion' = sceneVersion + 1 /\ exactVersion' = sceneVersion + 1
  /\ results' = [results EXCEPT ![sceneVersion + 1] = NoJob]
  /\ status' = Supersede(status, NoJob)
  /\ UNCHANGED <<logged, rev, settled, spec, owed, dayDone, memoryVars, watchers,
                 legacy, cancels, failures, crashes, moves>>

\* POST /jobs/{id}/cancel: a live job ends; otherwise the route answers 409.
Cancel(j) ==
  /\ cancels < MaxCancels /\ status[j] \in Live /\ Serving
  /\ cancels' = cancels + 1
  /\ Finish(j, "cancelled")
  /\ UNCHANGED <<sceneVersion, exactVersion, logged, rev, settled, spec, results,
                 owed, dayDone, memoryVars, watchers, legacy, resets, failures,
                 crashes, moves>>

-----------------------------------------------------------------------------
(* The exact-lane tick: a read of the epoch rows, then one transaction.    *)

\* _exact_lane_audience: a subscriber (none before the application serves), or an owner still owed the chase.
Audience == (watchers /\ Serving) \/ \E j \in ExactJobs : status[j] \in Live

Newest      == MaxOf({rev[e] : e \in Assigned \ settled}, 0)
ConsumedRev == MaxOf({rev[e] : e \in settled}, 0)
ConsumedSeq == MaxOf(settled, 0)

Gap == Newest > ConsumedRev

\* The churn guard: one attempt per revision.
Armed == Newest > attempted

Reading(reconcile) ==
  [on |-> TRUE, rev |-> rev, consumedRev |-> ConsumedRev,
   consumedSeq |-> ConsumedSeq, reconcile |-> reconcile]

\* _exact_lane_tick_workspace up to its transaction.
TickRead(t) ==
  /\ IF Gap /\ Audience /\ Armed
     THEN tick' = [tick EXCEPT ![t] = Reading(FALSE)]
     ELSE UNCHANGED tick
  /\ owed' = (owed \/ (Gap /\ ~Audience))

\* Variation of InFlight: a running job is not counted.
QueuedInFlight(target) ==
  \E j \in ExactJobs : status[j] = "queued" /\ spec[j].target >= target

\* A live exact job already owns this (or a newer) target.
InFlight(target) == \E j \in ExactJobs : status[j] \in Live /\ spec[j].target >= target

\* The last operation of the epochs the tick has read in (consumed, target].
SpanHi(r, target) ==
  MaxOf({e \in Epoch : r.consumedRev < r.rev[e] /\ r.rev[e] <= target}, 0)

MintedSpec(r) ==
  [exact |-> TRUE, reconcile |-> r.reconcile, target |-> sceneVersion,
   consumedRev |-> r.consumedRev, consumedSeq |-> r.consumedSeq,
   spanHi |-> SpanHi(r, sceneVersion)]

\* The tick's transaction: single flight, else mint and supersede.
TickMint(t) ==
  LET r == tick[t] IN
  /\ r.on /\ NextJob <= MaxJobs
  /\ tick' = [tick EXCEPT ![t] = Quiet]
  /\ IF sceneVersion <= r.consumedRev
     THEN UNCHANGED <<status, spec, queue, attempted, attempts>>
     ELSE /\ attempted' = sceneVersion
          /\ IF InFlight(sceneVersion)
             THEN UNCHANGED <<status, spec, queue, attempts>>
             ELSE /\ spec' = [spec EXCEPT ![NextJob] = MintedSpec(r)]
                  /\ status' = Supersede([status EXCEPT ![NextJob] = "queued"], NextJob)
                  /\ queue' = Append(queue, NextJob)
                  /\ attempts' = IF r.reconcile THEN attempts + 1 ELSE attempts
  /\ UNCHANGED <<sceneVersion, exactVersion, logged, rev, settled, results, owed,
                 dayDone, pc, cur, ending, route, dropped, watchers, countVars>>

\* The tick of submit, and of start before the runner thread exists.
RouteTick ==
  /\ route.at = "tick" /\ TickRead("route")
  /\ route' = [route EXCEPT !.at = "put"]
  /\ UNCHANGED <<sceneVersion, exactVersion, logged, rev, settled, status, spec,
                 results, dayDone, queue, attempted, attempts, pc, cur, ending,
                 dropped, watchers, countVars>>

\* The runner ticks after a dispatch and whenever its queue is empty.
RunnerTick ==
  /\ pc = "tick" \/ (pc = "idle" /\ queue = <<>>)
  /\ ~tick["runner"].on
  /\ TickRead("runner")
  /\ pc' = IF pc = "tick" THEN "idle" ELSE "reconcile"
  /\ UNCHANGED <<sceneVersion, exactVersion, logged, rev, settled, status, spec,
                 results, dayDone, queue, attempted, attempts, cur, ending, route,
                 dropped, watchers, countVars>>

\* Variation of ReconcileDue: the attempt ceiling is off by one.
ReconcileDueOnceMore ==
  /\ queue = <<>> /\ ~Audience /\ Gap
  /\ ~dayDone /\ attempts <= AttemptsPerDay

\* _idle_reconcile_tick: the once-daily full of a workspace nobody watches.
\* The grace, the scan throttle and the backoff only delay it, past any boot.
ReconcileDue ==
  /\ queue = <<>> /\ ~Audience /\ Gap
  /\ ~dayDone /\ attempts < AttemptsPerDay

ReconcileMint ==
  /\ pc = "reconcile" /\ ~tick["runner"].on /\ Serving /\ ReconcileDue
  /\ pc' = "idle"
  /\ tick' = [tick EXCEPT !["runner"] = Reading(TRUE)]
  /\ UNCHANGED <<storeVars, queue, attempted, attempts, cur, ending, route,
                 dropped, watchers, countVars>>

ReconcileLater ==
  /\ pc = "reconcile" /\ ~tick["runner"].on
  /\ pc' = "idle"
  /\ UNCHANGED <<storeVars, queue, attempted, attempts, tick, cur, ending, route,
                 dropped, watchers, countVars>>

-----------------------------------------------------------------------------
(* The runner: dispatch.                                                   *)

runnerFrame == <<sceneVersion, exactVersion, logged, rev, settled, spec, results,
                 owed, dayDone, queue, attempted, attempts, tick, route, dropped,
                 watchers, legacy, resets, cancels, crashes, moves>>

\* An exact job is stale once the revision has passed its target, a legacy
\* job once a queued job targets a newer version.
Redundant(j) ==
  IF spec[j].exact
  THEN sceneVersion > spec[j].target
  ELSE \E k \in JobId \ {j} : status[k] = "queued" /\ spec[k].target > spec[j].target

\* The runner takes a job and scans it, before and again after the coalescing
\* wait; only the second scan is followed by a tick.
Take ==
  /\ pc = "idle" /\ queue # <<>> /\ ~tick["runner"].on
  /\ LET j     == Head(queue)
         stale == status[j] # "queued" \/ Redundant(j)
     IN /\ queue' = Tail(queue)
        /\ IF stale THEN pc' \in {"idle", "tick"} /\ UNCHANGED cur
                    ELSE pc' = "execute" /\ cur' = j
        /\ IF stale /\ status[j] = "queued"
           THEN Finish(j, "superseded") ELSE UNCHANGED status
  /\ UNCHANGED <<sceneVersion, exactVersion, logged, rev, settled, spec, results,
                 owed, dayDone, attempted, attempts, tick, ending, route, dropped,
                 watchers, countVars>>

\* mark_job_running is guarded, but nobody looks at whether it moved the row.
Execute ==
  /\ pc = "execute" /\ pc' = "solve"
  /\ status' = [status EXCEPT ![cur] = IF @ = "queued" THEN "running" ELSE @]
  /\ UNCHANGED <<runnerFrame, cur, ending, failures>>

-----------------------------------------------------------------------------
(* The runner: what the solver returns.                                    *)

\* The zero-loss fence of the executor bridge.
SpanFolds(j) ==
  \A e \in spec[j].consumedSeq + 1 .. spec[j].spanHi :
     spec[j].consumedRev < rev[e] /\ rev[e] <= spec[j].target

Returns(next, how) ==
  /\ pc = "solve"
  /\ pc' = next /\ ending' = how
  /\ UNCHANGED <<runnerFrame, status, cur>>

End(st, settle) == [status |-> st, settle |-> IF Current.exact THEN settle ELSE "none"]

SolverRaises ==
  /\ Returns("finish", End("failed", "none"))
  /\ \/ ~SpanFolds(cur) /\ UNCHANGED failures
     \/ failures < MaxFailures /\ failures' = failures + 1

\* scenario_state_unrecoverable: the generic superseded ending.
SolverLost ==
  /\ Returns("finish", End("superseded", "none"))
  /\ failures < MaxFailures /\ failures' = failures + 1

\* The worker's checkpoints saw the scene move.
SolverSuperseded ==
  /\ Returns("finish", End("superseded", "none"))
  /\ sceneVersion # Current.target /\ UNCHANGED failures

SolverPublishes == Returns("check", NoEnd) /\ SpanFolds(cur) /\ UNCHANGED failures
SolverNoop      == Returns("latest", NoEnd) /\ SpanFolds(cur) /\ UNCHANGED failures

\* Variation of RefusedNext: a typed refusal ends like any other supersession.
RefusedUnsettled == "finish"

\* The anti-wedge branch: a typed refusal on the exact lane settles its span.
RefusedNext == IF Current.exact THEN "consume" ELSE "finish"

SolverRefuses ==
  /\ pc = "solve"
  /\ Returns(RefusedNext, IF Current.exact THEN End("failed", "debt")
                          ELSE End("superseded", "none"))
  /\ SpanFolds(cur) /\ UNCHANGED failures

-----------------------------------------------------------------------------
(* The runner: finalize.                                                   *)

Discard == pc' = "tick" /\ cur' = NoJob /\ UNCHANGED <<ending, results, exactVersion>>

EndAt(next, how) ==
  /\ pc' = next /\ ending' = how
  /\ UNCHANGED <<cur, results, exactVersion>>

publishFrame == <<sceneVersion, logged, rev, settled, status, spec, owed, dayDone,
                  queue, attempted, attempts, tick, route, dropped, watchers, countVars>>

\* The liveness and version guards before the result is materialised.
Check ==
  /\ pc = "check"
  /\ IF status[cur] # "running" THEN Discard
     ELSE IF sceneVersion # Current.target THEN EndAt("finish", End("superseded", "none"))
     ELSE EndAt("publish", NoEnd)
  /\ UNCHANGED publishFrame

\* Variation of Publishable: the lease's own reads are trusted.
PublishableUnchecked == sceneVersion = Current.target /\ results[Current.target] = -1

\* The checks publish_result makes inside its transaction.
Publishable ==
  /\ status[cur] = "running"
  /\ sceneVersion = Current.target
  /\ results[Current.target] = -1

\* The row, and exact_result_version with it.
PublishRow(how) ==
  /\ results' = [results EXCEPT ![Current.target] = cur]
  /\ exactVersion' = MaxOf({Current.target}, exactVersion)
  /\ pc' = "consume" /\ ending' = how /\ UNCHANGED cur

Completed(full) == End("complete", IF full \/ Current.reconcile THEN "day" ELSE "debt")

\* The lease re-reads the row three times and then publishes: a row that has
\* left "running" at any of these points is the same discard.  Another job's
\* result may or may not have this job's bytes; a job's own has.
Publish ==
  /\ pc = "publish"
  /\ \E full \in BOOLEAN :
       IF Publishable THEN PublishRow(Completed(full))
       ELSE IF status[cur] # "running" THEN Discard
       ELSE IF sceneVersion # Current.target
            THEN EndAt("finish", End("superseded", "none"))
       ELSE \/ EndAt("consume", Completed(full))
            \/ /\ results[Current.target] # cur
               /\ EndAt("finish", End("failed", "none"))
  /\ UNCHANGED publishFrame

LatestResult == MaxOf({v \in Version : results[v] # -1}, -1)

\* A no-op with nothing to re-serve still settles its epochs.
NoopNothing == EndAt("consume", End("failed", "none"))

NoopLatest ==
  /\ pc = "latest"
  /\ IF LatestResult = -1 THEN NoopNothing
     ELSE IF LatestResult = Current.target THEN EndAt("consume", Completed(FALSE))
     ELSE EndAt("republish", NoEnd)
  /\ UNCHANGED publishFrame

\* republish_result_at_version: every exit settles the epochs.
Republish ==
  /\ pc = "republish"
  /\ IF Publishable THEN PublishRow(Completed(FALSE))
     ELSE IF status[cur] # "running" \/ sceneVersion # Current.target
          THEN EndAt("consume", End("superseded", "none"))
     ELSE EndAt("consume", Completed(FALSE))
  /\ UNCHANGED publishFrame

\* Variation of Consumable: the published revision itself is left out.
ConsumableBelow == {e \in Assigned \ settled : Current.exact /\ rev[e] < Current.target}

\* The epochs the published revision covers.
Consumable == {e \in Assigned \ settled : Current.exact /\ rev[e] <= Current.target}

\* One mark_epoch_status after another, in epoch order, before the finish.
ConsumeEpoch ==
  /\ pc = "consume" /\ Consumable # {}
  /\ settled' = settled \cup {CHOOSE e \in Consumable : \A f \in Consumable : e <= f}
  /\ UNCHANGED <<sceneVersion, exactVersion, logged, rev, status, spec, results,
                 owed, dayDone, memoryVars, watchers, countVars>>

FinishJob ==
  /\ pc = "finish" \/ (pc = "consume" /\ Consumable = {})
  /\ pc' = "settle"
  /\ Finish(cur, ending.status)
  /\ UNCHANGED <<runnerFrame, cur, ending, failures>>

\* mark_reconcile_settlement, or the refusal's clear_reconcile_owed.
SettleDebt ==
  /\ pc = "settle" /\ pc' = "tick"
  /\ owed' = (owed /\ ending.settle = "none")
  /\ dayDone' = (dayDone \/ ending.settle = "day")
  /\ attempts' = IF ending.settle = "day" THEN 0 ELSE attempts
  /\ cur' = NoJob /\ ending' = NoEnd
  /\ UNCHANGED <<sceneVersion, exactVersion, logged, rev, settled, status, spec,
                 results, queue, attempted, tick, route, dropped, watchers, countVars>>

\* _run_loop catches what a dispatch raises outside the solver: the job is not
\* handled again by this process, and no tick follows.
Raised(j) ==
  /\ failures < MaxFailures /\ failures' = failures + 1
  /\ pc' = "idle" /\ cur' = NoJob /\ ending' = NoEnd
  /\ dropped' = dropped \cup {j}
  /\ UNCHANGED <<storeVars, attempted, attempts, tick, route, watchers, legacy,
                 resets, cancels, crashes, moves>>

RunnerRaises ==
  \/ /\ pc \in {"execute", "check", "publish", "latest", "republish", "consume",
                "finish", "settle"}
     /\ Raised(cur) /\ UNCHANGED queue
  \/ /\ pc = "idle" /\ queue # <<>> /\ ~tick["runner"].on
     /\ Raised(Head(queue)) /\ queue' = Tail(queue)

-----------------------------------------------------------------------------
(* The process.                                                            *)

Crash ==
  /\ pc # "down" /\ crashes < MaxCrashes
  /\ MidRequest \/ route = AtRest
  /\ crashes' = crashes + 1
  /\ queue' = <<>> /\ attempted' = 0 /\ attempts' = 0
  /\ tick' = [t \in Thread |-> Quiet]
  /\ pc' = "down" /\ cur' = NoJob /\ ending' = NoEnd /\ route' = AtRest
  /\ dropped' = {}
  /\ watchers' \in {FALSE, watchers}
  /\ UNCHANGED <<storeVars, legacy, resets, cancels, failures, moves>>

\* requeue_running_job for every row the dead process left running.
Requeued == [j \in JobId |-> IF status[j] = "running" THEN "queued" ELSE status[j]]

\* nonterminal_jobs orders the rows by rowid.
InRowOrder(S) ==
  CHOOSE q \in [1 .. Cardinality(S) -> S] : \A i, k \in DOMAIN q : i < k => q[i] < q[k]

\* Variation of Recovered: a requeued row is not put in the queue.
RecoveredQueued == InRowOrder({j \in JobId : status[j] = "queued"})

\* Every live row enters the queue, in row order.
Recovered == InRowOrder({j \in JobId : status[j] \in Live})

\* JobRunner.start up to its tick, on the thread that boots the application.
Start ==
  /\ pc = "down" /\ pc' = "boot"
  /\ status' = Requeued
  /\ queue' = Recovered
  /\ route' = [at |-> "tick", job |-> NoJob, boot |-> TRUE]
  /\ UNCHANGED <<sceneVersion, exactVersion, logged, rev, settled, spec, results,
                 owed, dayDone, attempted, attempts, tick, cur, ending, dropped,
                 watchers, countVars>>

\* The runner thread starts; a shared world is looked at before the first
\* request.
Started ==
  /\ pc = "boot" /\ route.at = "put" /\ ~tick["route"].on
  /\ pc' = "idle"
  /\ route' = IF SharedWorld THEN [route EXCEPT !.at = "heal"] ELSE AtRest
  /\ UNCHANGED <<storeVars, queue, attempted, attempts, tick, cur, ending, dropped,
                 watchers, countVars>>

Unserved == \A v \in Version : results[v] = -1

\* _ensure_shared_world: the newest job failed or was cancelled, and nobody has
\* a result to look at.
Heal ==
  /\ route.at = "heal"
  /\ \/ \E j \in JobId :
          /\ j = NextJob - 1 /\ status[j] \in {"failed", "cancelled"} /\ Unserved
          /\ route' = [route EXCEPT !.at = "reopen", !.job = j]
     \/ /\ \A j \in JobId : j = NextJob - 1 /\ Unserved
                              => status[j] \notin {"failed", "cancelled"}
        /\ route' = AtRest
  /\ UNCHANGED <<storeVars, queue, attempted, attempts, tick, pc, cur, ending,
                 dropped, watchers, countVars>>

\* requeue_failed_job; the job is then submitted like any other.
Reopen ==
  /\ route.at = "reopen"
  /\ status[route.job] \in {"failed", "cancelled"}
  /\ status' = [status EXCEPT ![route.job] = "queued"]
  /\ route' = [route EXCEPT !.at = "funnel"]
  /\ UNCHANGED <<sceneVersion, exactVersion, logged, rev, settled, spec, results,
                 owed, dayDone, queue, attempted, attempts, tick, pc, cur, ending,
                 dropped, watchers, countVars>>

RouteSteps  ==
  \/ Start \/ Started \/ Heal \/ Reopen
  \/ Funnel \/ RouteTick \/ TickMint("route") \/ PutLegacy
RunnerSteps ==
  \/ RunnerTick \/ TickMint("runner") \/ ReconcileLater
  \/ Take \/ Execute
  \/ SolverRaises \/ SolverLost \/ SolverSuperseded
  \/ SolverPublishes \/ SolverNoop \/ SolverRefuses
  \/ Check \/ Publish \/ NoopLatest \/ Republish
  \/ ConsumeEpoch \/ FinishJob \/ SettleDebt

Next ==
  \/ CloseEpoch \/ (\E e \in Epoch : CommitEpoch(e))
  \/ LegacyCommit \/ Reset \/ (\E j \in JobId : Cancel(j))
  \/ MoveAudience \/ NewDay \/ Crash
  \/ RouteSteps \/ ReconcileMint \/ RunnerSteps \/ RunnerRaises

Spec == Init /\ [][Next]_vars

\* The two threads keep running and days keep passing; the grace and the
\* backoff of the idle reconcile elapse, so a mint that stays due happens.
Fairness ==
  /\ WF_vars(RouteSteps) /\ WF_vars(RunnerSteps)
  /\ SF_vars(ReconcileMint) /\ WF_vars(NewDay)
  /\ \A e \in Epoch : WF_vars(CommitEpoch(e))

FairSpec == Spec /\ Fairness

-----------------------------------------------------------------------------
(* Properties.                                                             *)

TypeOK ==
  /\ sceneVersion \in Version /\ exactVersion \in Version
  /\ logged \in 0 .. NumEpochs /\ rev \in [Epoch -> Version]
  /\ settled \subseteq Assigned
  /\ status \in [JobId -> Status]
  /\ spec \in [JobId -> [exact : BOOLEAN, reconcile : BOOLEAN, target : Version,
                         consumedRev : Version, consumedSeq : 0 .. NumEpochs,
                         spanHi : 0 .. NumEpochs]]
  /\ results \in [Version -> JobId \cup {NoJob, -1}]
  /\ attempted \in Version /\ attempts \in 0 .. AttemptsPerDay
  /\ cur \in JobId \cup {NoJob}
  /\ queue \in Seq(JobId)
  /\ dropped \subseteq JobId

\* Two live exact jobs never chase the same revision: the tick's
\* single-flight test holds against the other thread's tick, a restart's
\* requeue and the idle reconcile that skips the churn guard.
SingleFlight ==
  \A j, k \in ExactJobs :
     status[j] \in Live /\ status[k] \in Live /\ j # k
       => spec[j].target # spec[k].target

\* "complete" is never claimed early: the version a complete job targeted has
\* its result row, the scenario row points at least there, and no epoch at or
\* below it is left for the tick, whatever crashed or was cancelled between
\* publish_result, the epoch marks and finish_job.
CompleteIsSettled ==
  \A j \in JobId : status[j] = "complete" =>
     /\ results[spec[j].target] # -1
     /\ exactVersion >= spec[j].target
     /\ spec[j].exact =>
          \A e \in Assigned : rev[e] <= spec[j].target => e \in settled

\* The outcome a client has observed stands: no terminal status is ever
\* overwritten, by a cancel that loses a race, a finish after a cancel, a
\* supersession or a restart, except that a boot may put the newest job of the
\* shared world back in the queue when it had failed or was cancelled, before
\* anybody is served.
OutcomeStands ==
  [][\A j \in JobId : status[j] \in Ended =>
        \/ status'[j] = status[j]
        \/ /\ status[j] \in {"failed", "cancelled"} /\ status'[j] = "queued"
           /\ SharedWorld /\ ~Serving /\ ~Serving'
           /\ \A k \in JobId : k > j => status[k] = "absent"]_vars

\* A result is published only for a job that is running at that very step,
\* at the version that is current, and never over another result.
PublishIsFenced ==
  [][\A v \in Version : results'[v] # results[v] =>
        /\ results[v] = -1 /\ v = sceneVersion'
        /\ results'[v] # NoJob => status[results'[v]] = "running"]_vars

\* No job is lost by the runner: a live row is in the queue, in the runner's
\* hands and not yet finished, on its way there with the route, or the process
\* is down; the only rows it forgets until the next restart are those whose
\* dispatch raised.
NoJobIsLost ==
  \A j \in JobId : status[j] \in Live =>
     \/ pc = "down" \/ (cur = j /\ pc # "settle")
     \/ \E i \in DOMAIN queue : queue[i] = j
     \/ route # AtRest /\ route.job = j
     \/ j \in dropped

\* Every accepted operation is folded by the job that settles its epoch: the
\* span the tick minted carries every epoch the job will consume.
ZeroLoss ==
  \A e \in settled :
     \E j \in ExactJobs : /\ spec[j].consumedSeq < e /\ e <= spec[j].spanHi
                          /\ rev[e] <= spec[j].target

\* The lane never wedges: an epoch with a revision is eventually settled.
EventuallySettled == \A e \in Epoch : rev[e] # 0 ~> e \in settled

==============================================================================
