---------------------------- MODULE ExecutorState ----------------------------
(***************************************************************************)
(* The durable executor state of one scenario: the edit ledger and its     *)
(* retention (solweig_gpu/server/store.py), the routing of a job onto the  *)
(* plan executor, and the snapshot a solve stages, the next job adopts and *)
(* the coverage sidecar names (server/executor_bridge.py).                 *)
(*                                                                         *)
(* A tree edit adds a tree, named by its sequence in the ledger; a family  *)
(* edit paints one cell or puts it back.  A scene is the places that       *)
(* differ from the baseline: those trees, and the cell.  A batch with the  *)
(* value already there is a no-op, for which the latest result is served   *)
(* again.  Every rename, sidecar flip, collection and store transaction is *)
(* a step of its own, and the process may die between any two of them.     *)
(* Jobs run one at a time, on one of three lanes that differ in their      *)
(* full_recompute_fraction: a snapshot is restorable only by the lane that *)
(* wrote it.                                                               *)
(***************************************************************************)
EXTENDS Integers, Sequences, FiniteSets

CONSTANTS Lanes,       \* the lanes that get jobs: "legacy", "exact", "reconcile"
          EventTail,   \* audit tail the sweep keeps (1000 in the code)
          MaxEvents,   \* bound: ledger events
          MaxJobs,     \* bound: job rows
          MaxNative,   \* bound: epoch commits that mint an exact-lane job
          MaxCancels,  \* bound: client cancels
          MaxCrashes   \* bound: process restarts

ASSUME LanesAssumption ==
  /\ Lanes \subseteq {"legacy", "exact", "reconcile"}
  /\ EventTail \in Nat /\ MaxEvents \in Nat /\ MaxJobs \in Nat
  /\ MaxNative \in Nat /\ MaxCancels \in Nat /\ MaxCrashes \in Nat

JobId    == 1 .. MaxJobs
None     == 0

VARIABLES kind,      \* the operation of every event ever committed
          pruned,    \* edit_events up to this sequence are deleted
          version,   \* scenarios.scene_version
          acked,     \* scenarios.acked_sequence
          carries,   \* scenarios.carries_family_edits
          status, spec, \* the job rows
          results,   \* what each version is served with, or Nothing
          sidecar,   \* ledger-coverage.json
          gens,      \* generations/gen-<job>, or Nothing
          pending    \* pending/ and its pending.json, or Nothing

VARIABLES pc, cur, \* where the runner is, and with which job
          seen,    \* the ledger the request was built from
          meta,    \* the pending.json the promotion goes by
          built,   \* what the executor has computed
          native, cancels, crashes

storeVars  == <<kind, pruned, version, acked, carries, status, spec, results>>
diskVars   == <<sidecar, gens, pending>>
runnerVars == <<pc, cur, seen, meta, built>>
countVars  == <<native, cancels, crashes>>
vars       == <<storeVars, diskVars, runnerVars, countVars>>

Nothing  == [is |-> FALSE]
NoSpec   == [lane |-> "legacy", mark |-> 0, base |-> 0, target |-> 0, span |-> FALSE]
Unseen   == [low |-> 0, top |-> 0, at |-> 0]
Live     == {"queued", "running"}
MaxOf(S) == CHOOSE m \in S \cup {0} : \A x \in S : x <= m

NextJob == Cardinality({j \in JobId : status[j] # "absent"}) + 1
Job     == spec[cur]

Cell     == 0
Place    == 0 .. MaxEvents
Family   == {"on", "off"}

\* The scene at a ledger position: the trees no reset removed, and the cell if
\* the last family edit painted it.
Trees(mark) == {s \in 1 .. mark : kind[s] = "tree" /\ \A r \in s .. mark : kind[r] # "reset"}
Painted(mark) ==
  \E s \in 1 .. mark : kind[s] = "on" /\ \A r \in s .. mark : kind[r] \notin {"off", "reset"}
Truth(mark) == Trees(mark) \cup {c \in {Cell} : Painted(mark)}

\* A result row: own says that no result it goes back to was served again by a
\* job that had started from another scene than that result's, or had seeded
\* trees without solving them.
Row(job, mark, scene, own) ==
  [is |-> TRUE, job |-> job, mark |-> mark, scene |-> scene, own |-> own]
Baseline(mark) == Row(None, mark, {}, TRUE)

\* create_scenario: a site that ships its baseline publishes it at version 0,
\* any other one queues a job for it.
Init ==
  /\ kind = <<>> /\ pruned = 0 /\ version = 0 /\ acked = 0 /\ carries = FALSE
  /\ spec = [j \in JobId |-> NoSpec]
  /\ \E served \in {TRUE} \cup {b \in {FALSE} : MaxJobs > 0} :
       /\ status  = [j \in JobId |-> IF j = 1 /\ ~served THEN "queued" ELSE "absent"]
       /\ results = [v \in 0 .. MaxEvents + MaxNative |->
                      IF v = 0 /\ served THEN Baseline(0) ELSE Nothing]
  /\ sidecar = [covered |-> 0, gen |-> None]
  /\ gens    = [j \in JobId |-> Nothing] /\ pending = Nothing
  /\ pc = "idle" /\ cur = None /\ seen = Unseen /\ meta = Nothing
  /\ built = Nothing
  /\ native = 0 /\ cancels = 0 /\ crashes = 0

-----------------------------------------------------------------------------
(* The store: edits, resets, exact-lane jobs, cancels, retention.          *)

Superseded(st) == [j \in JobId |-> IF st[j] = "queued" THEN "superseded" ELSE st[j]]

\* span: whether the commands of an exact-lane job's operation span change
\* anything.
Insert(lane, mark, target, span) ==
  /\ NextJob <= MaxJobs
  /\ spec' = [spec EXCEPT ![NextJob] =
       [lane |-> lane, mark |-> mark, base |-> acked, target |-> target, span |-> span]]
  /\ status' = [Superseded(status) EXCEPT ![NextJob] = "queued"]

\* carries_family_edits after a commit of either route.
Carries(k) == carries \/ k \in Family

\* commit_edits and commit_universal_edits.
Commit(k) ==
  /\ "legacy" \in Lanes /\ Len(kind) < MaxEvents /\ pc # "down"
  /\ kind' = Append(kind, k) /\ version' = version + 1 /\ carries' = Carries(k)
  /\ Insert("legacy", Len(kind) + 1, version + 1, FALSE)
  /\ UNCHANGED <<pruned, acked, results, diskVars, runnerVars, countVars>>

\* reset_scenario: the baseline is the result of the new version.
Reset ==
  /\ Len(kind) < MaxEvents /\ pc # "down"
  /\ kind' = Append(kind, "reset") /\ version' = version + 1
  /\ acked' = Len(kind) + 1 /\ carries' = FALSE
  /\ status' = Superseded(status)
  /\ results' = [results EXCEPT ![version + 1] = Baseline(Len(kind) + 1)]
  /\ UNCHANGED <<pruned, spec, diskVars, runnerVars, countVars>>

\* An epoch commits and the tick mints its exact-lane job.
NativeCommit(lane, span) ==
  /\ lane \in Lanes \ {"legacy"} /\ native < MaxNative /\ pc # "down"
  /\ native' = native + 1 /\ version' = version + 1
  /\ Insert(lane, Len(kind), version + 1, span)
  /\ UNCHANGED <<kind, pruned, acked, carries, results, diskVars, runnerVars,
                 cancels, crashes>>

Cancel(j) ==
  /\ cancels < MaxCancels /\ status[j] \in Live /\ pc # "down"
  /\ cancels' = cancels + 1
  /\ status' = [status EXCEPT ![j] = "cancelled"]
  /\ UNCHANGED <<kind, pruned, version, acked, carries, spec, results, diskVars,
                 runnerVars, native, crashes>>

\* What a sweep may delete: processed events older than the audit tail.
SweepFloor == acked - EventTail

\* sweep_retention, which the runner calls between jobs.
Sweep ==
  /\ pc = "idle" /\ pruned < SweepFloor
  /\ pruned' = SweepFloor
  /\ UNCHANGED <<kind, version, acked, carries, status, spec, results, diskVars,
                 runnerVars, countVars>>

-----------------------------------------------------------------------------
(* The job: request and routing.                                           *)

Surviving == {s \in 1 .. Len(kind) : s > pruned}

\* The exact lanes always, the legacy lane once family state exists.
ExecutorRoute(j) ==
  spec[j].lane # "legacy" \/ carries \/ \E s \in Surviving : kind[s] \in Family

\* _supersede_scan.
Redundant(j) ==
  IF spec[j].lane = "legacy"
  THEN \E k \in JobId : status[k] = "queued" /\ spec[k].target > spec[j].target
  ELSE version > spec[j].target

Oldest(j) == status[j] = "queued" /\ \A k \in 1 .. j - 1 : status[k] # "queued"

Skip ==
  /\ pc = "idle"
  /\ \E j \in JobId :
       /\ Oldest(j) /\ Redundant(j)
       /\ status' = [status EXCEPT ![j] = "superseded"]
  /\ UNCHANGED <<kind, pruned, version, acked, carries, spec, results, diskVars,
                 runnerVars, countVars>>

\* The runner marks the oldest queued job running and builds its request.
Begin ==
  /\ pc = "idle"
  /\ \E j \in JobId :
       /\ Oldest(j) /\ ~Redundant(j)
       /\ cur' = j
       /\ status' = [status EXCEPT ![j] = "running"]
       /\ pc' = IF ExecutorRoute(j) THEN "reconcile" ELSE "base"
  /\ seen' = [low |-> pruned, top |-> Len(kind), at |-> version]
  /\ UNCHANGED <<kind, pruned, version, acked, carries, spec, results, diskVars,
                 meta, built, countVars>>

\* scenario_trees, as the request read it.
TreeList == Trees(seen.top)

\* store.latest_result.
Served == {v \in DOMAIN results : results[v].is}
Latest == results[MaxOf(Served)]

\* _compose_current_state: the published results, overwritten where this solve
\* computed; without one the solve is for the whole tile.
Compose(scene, window) ==
  IF Served = {} THEN scene ELSE (Latest.scene \ window) \cup (scene \cap window)
Own(window) == Served = {} \/ Latest.own \/ Place \subseteq window

Build(scene, own) == [is |-> TRUE, scene |-> scene, own |-> own]

\* The tree-only solver replays the tree ledger, computes where the trees above
\* the job's base watermark are, or more, and stages nothing.
BaseSolve ==
  /\ pc = "base" /\ pc' = "publish"
  /\ \E window \in SUBSET Place :
       /\ {s \in TreeList : s > Job.base} \subseteq window
       /\ built' = Build(Compose(TreeList, window), Own(window))
  /\ UNCHANGED <<storeVars, diskVars, cur, seen, meta, countVars>>

-----------------------------------------------------------------------------
(* The job: adopt or drop the staged snapshot.                             *)

\* Variation of Adoptable: the producer's own re-run or failure is ignored.
AdoptableAlways == pending.is /\ pending.covered <= Job.mark

\* _reconcile_coverage: another job, durably complete, of the same lane.
Adoptable ==
  /\ pending.is /\ pending.job # cur
  /\ status[pending.job] = "complete"
  /\ pending.covered <= Job.mark
  /\ pending.snap.lane = Job.lane

DropPending ==
  /\ pc = "reconcile" /\ ~Adoptable
  /\ pending' = Nothing /\ pc' = "build"
  /\ UNCHANGED <<storeVars, sidecar, gens, cur, seen, meta, built, countVars>>

\* _promote_pending: the rename, over whatever an earlier crash left there.
PromoteRename ==
  /\ pc = "reconcile" /\ Adoptable
  /\ gens' = [gens EXCEPT ![pending.job] = pending.snap]
  /\ meta' = pending /\ pending' = Nothing
  /\ pc' = "flip"
  /\ UNCHANGED <<storeVars, sidecar, cur, seen, built, countVars>>

\* The sidecar names the promoted generation (one os.replace).
PromoteFlip ==
  /\ pc = "flip" /\ pc' = "collect"
  /\ sidecar' = [covered |-> meta.covered, gen |-> meta.job]
  /\ UNCHANGED <<storeVars, gens, pending, cur, seen, meta, built, countVars>>

\* _collect_generations: every generation but the one just named.
PromoteCollect ==
  /\ pc = "collect"
  /\ gens' = [j \in JobId |-> IF j = meta.job THEN gens[j] ELSE Nothing]
  /\ meta' = Nothing /\ pc' = "build"
  /\ UNCHANGED <<storeVars, sidecar, pending, cur, seen, built, countVars>>

-----------------------------------------------------------------------------
(* The job: rebuild, execute, stage.                                       *)

\* _read_coverage distrusts a sidecar whose generation is gone.
Coverage ==
  IF sidecar.gen # None /\ ~gens[sidecar.gen].is
  THEN [covered |-> 0, gen |-> None] ELSE sidecar

\* The last reset among the events the request carries.
SeenReset == MaxOf({s \in seen.low + 1 .. seen.top : kind[s] = "reset"})

\* _ledger_replay_window and _build_executor: restore the named snapshot,
\* start from the void a reset left, or rebuild from the tree list.
Window ==
  LET c == Coverage IN
  IF c.gen # None /\ c.covered > SeenReset /\ gens[c.gen].lane = Job.lane
  THEN [floor |-> c.covered, base |-> gens[c.gen].scene, over |-> c.gen,
        trees |-> TRUE, owed |-> gens[c.gen].owed]
  ELSE IF SeenReset > 0 /\ c.covered <= SeenReset
  THEN [floor |-> SeenReset, base |-> {}, over |-> None, trees |-> TRUE, owed |-> {}]
  ELSE [floor |-> MaxOf({c.covered, SeenReset}), base |-> TreeList, over |-> None,
        trees |-> FALSE, owed |-> TreeList]

\* Variation of LedgerComplete: whatever survives is replayed.
LedgerTrusted(floor) == TRUE

\* _guard_ledger_completeness: nothing of (floor, mark] was pruned.
LedgerComplete(floor) == floor + 1 > Job.mark \/ floor >= seen.low

\* _pending_commands: the window's family edits, and its tree edits when the
\* base predates them.
Replay(w) ==
  {s \in w.floor + 1 .. Job.mark :
     kind[s] \in Family \/ (w.trees /\ kind[s] = "tree")}

\* A batch applied to a scene, and the places it writes.
LastFamily(batch) == MaxOf({s \in batch : kind[s] \in Family})
Apply(base, batch) ==
  LET l == LastFamily(batch) IN
    {p \in base : p # Cell \/ l = 0}
      \cup {s \in batch : kind[s] = "tree"} \cup {c \in {Cell} : l # 0 /\ kind[l] = "on"}
Written(batch) ==
  {s \in batch : kind[s] = "tree"} \cup {c \in {Cell} : LastFamily(batch) # 0}

\* _replay_tree_edits refuses to add a tree the layer has.
Fits(w) == w.base \cap Replay(w) = {}

\* A refusal, a lost ledger or a scene that moved ends the job unpublished.
Abandon(st) ==
  /\ pc' = "idle" /\ cur' = None /\ seen' = Unseen /\ built' = Nothing
  /\ status' = [status EXCEPT ![cur] = IF @ \in Live THEN st ELSE @]

Refuse ==
  /\ pc = "build"
  /\ LET w == Window IN
       \/ ~LedgerComplete(w.floor)
       \/ LedgerComplete(w.floor) /\ Replay(w) = {} /\ Job.lane = "legacy"
       \/ ~Fits(w)
  /\ Abandon("superseded")
  /\ UNCHANGED <<kind, pruned, version, acked, carries, spec, results, diskVars,
                 meta, countVars>>

\* The watch: a commit since the job started makes the solve worthless.
Tripped ==
  /\ pc = "build" /\ version # seen.at
  /\ Abandon("superseded")
  /\ UNCHANGED <<kind, pruned, version, acked, carries, spec, results, diskVars,
                 meta, countVars>>

\* _stage_state, before the runner decides about the job's result.
Stage(scene, owed) ==
  pending' = [is |-> TRUE, job |-> cur, covered |-> Job.mark,
              snap |-> [is |-> TRUE, lane |-> Job.lane, scene |-> scene, owed |-> owed]]

\* Nothing to run: the batch leaves every value as the executor has it, or an
\* exact-lane span maps to no command.  Trees seeded but never solved are not
\* looked at.
NoOp(w) ==
  /\ ~Job.span
  /\ \A s \in Replay(w) : kind[s] # "tree"
  /\ Apply(w.base, Replay(w)) = w.base

\* The executed batch, which solves the trees still owed too.
ExecuteAndStage ==
  /\ pc = "build" /\ version = seen.at
  /\ LET w     == Window
         scene == Apply(w.base, Replay(w))
     IN  /\ LedgerComplete(w.floor) /\ Fits(w)
         /\ Replay(w) # {} \/ Job.lane # "legacy"
         /\ ~NoOp(w)
         /\ \E window \in SUBSET Place :
              /\ Written(Replay(w)) \cup w.owed \subseteq window
              /\ built' = Build(Compose(scene, window), Own(window))
         /\ Stage(scene, {})
  /\ pc' = "publish"
  /\ UNCHANGED <<storeVars, sidecar, gens, cur, seen, meta, countVars>>

\* The no-op, for which nothing is computed; only an empty batch is not held
\* against the watch.
ExecuteNoop ==
  /\ pc = "build"
  /\ LET w == Window IN
       /\ LedgerComplete(w.floor) /\ Fits(w)
       /\ Replay(w) # {} \/ Job.lane # "legacy"
       /\ Replay(w) = {} \/ version = seen.at
       /\ NoOp(w)
       /\ built' = [is |-> TRUE, over |-> w.over, owed |-> w.owed]
       /\ Stage(w.base, w.owed)
  /\ pc' = "reserve"
  /\ UNCHANGED <<storeVars, sidecar, gens, cur, seen, meta, countVars>>

-----------------------------------------------------------------------------
(* The job: publish and finish (the runner's finalize).                    *)

\* A version is published once; the same result again, from the re-run after a
\* crash, counts as published, and is not acknowledged again.
Publish ==
  /\ pc = "publish"
  /\ status[cur] = "running" /\ version = Job.target
  /\ \/ /\ ~results[version].is
        /\ results' = [results EXCEPT ![version] =
                        Row(cur, Job.mark, built.scene, built.own)]
        /\ acked' = MaxOf({acked, Job.mark})
     \/ /\ results[version].is /\ results[version].scene = built.scene
        /\ UNCHANGED <<results, acked>>
  /\ pc' = "finish"
  /\ UNCHANGED <<kind, pruned, version, carries, status, spec, diskVars, cur, seen,
                 meta, built, countVars>>

\* Cancelled or overtaken before the publish: the result is discarded.  Another
\* result of the version is never overwritten.
PublishRefused ==
  /\ pc = "publish"
  /\ \/ /\ status[cur] # "running" \/ version # Job.target
        /\ Abandon("superseded")
     \/ /\ status[cur] = "running" /\ version = Job.target
        /\ results[version].is /\ results[version].scene # built.scene
        /\ Abandon("failed")
  /\ UNCHANGED <<kind, pruned, version, acked, carries, spec, results, diskVars,
                 meta, countVars>>

\* The latest result is served again at the job's version, or is there already;
\* the ledger is not acknowledged.
Reserve ==
  /\ pc = "reserve" /\ Served # {}
  /\ \/ MaxOf(Served) = Job.target /\ UNCHANGED results
     \/ /\ MaxOf(Served) # Job.target
        /\ status[cur] = "running" /\ version = Job.target
        /\ results' = [results EXCEPT ![version] =
             Row(cur, Job.mark, Latest.scene,
                 Latest.own /\ built.over = Latest.job /\ built.owed = {})]
  /\ pc' = "finish"
  /\ UNCHANGED <<kind, pruned, version, acked, carries, status, spec, diskVars, cur, seen,
                 meta, built, countVars>>

\* Nothing to serve again, or the job was cancelled or overtaken.
ReserveRefused ==
  /\ pc = "reserve"
  /\ \/ Served = {} /\ Abandon("failed")
     \/ /\ Served # {} /\ MaxOf(Served) # Job.target
        /\ status[cur] # "running" \/ version # Job.target
        /\ Abandon("superseded")
  /\ UNCHANGED <<kind, pruned, version, acked, carries, spec, results, diskVars,
                 meta, countVars>>

FinishJob ==
  /\ pc = "finish" /\ Abandon("complete")
  /\ UNCHANGED <<kind, pruned, version, acked, carries, spec, results, diskVars,
                 meta, countVars>>

\* The process dies; the disk and the store keep what they have.
Crash ==
  /\ pc # "down" /\ crashes < MaxCrashes
  /\ crashes' = crashes + 1
  /\ pc' = "down" /\ cur' = None /\ seen' = Unseen /\ meta' = Nothing
  /\ built' = Nothing
  /\ UNCHANGED <<storeVars, diskVars, native, cancels>>

Restart ==
  /\ pc = "down" /\ pc' = "idle"
  /\ status' = [j \in JobId |-> IF status[j] = "running" THEN "queued" ELSE status[j]]
  /\ UNCHANGED <<kind, pruned, version, acked, carries, spec, results, diskVars,
                 cur, seen, meta, built, countVars>>

Next ==
  \/ (\E k \in {"tree", "on", "off"} : Commit(k)) \/ Reset
  \/ (\E l \in {"exact", "reconcile"}, span \in BOOLEAN : NativeCommit(l, span))
  \/ (\E j \in JobId : Cancel(j)) \/ Sweep
  \/ Skip \/ Begin \/ BaseSolve \/ DropPending
  \/ PromoteRename \/ PromoteFlip \/ PromoteCollect
  \/ Refuse \/ Tripped \/ ExecuteAndStage \/ ExecuteNoop
  \/ Publish \/ PublishRefused \/ Reserve \/ ReserveRefused \/ FinishJob
  \/ Crash \/ Restart

Spec == Init /\ [][Next]_vars

-----------------------------------------------------------------------------
(* Properties.                                                             *)

Snapshot ==
  [is : {TRUE}, lane : Lanes \cup {"legacy"}, scene : SUBSET Place, owed : SUBSET Place]
    \cup {Nothing}

TypeOK ==
  /\ kind \in Seq({"tree", "on", "off", "reset"}) /\ Len(kind) <= MaxEvents
  /\ pruned \in 0 .. Len(kind) /\ acked \in 0 .. Len(kind)
  /\ version <= MaxEvents + MaxNative
  /\ carries \in BOOLEAN
  /\ status \in [JobId -> {"absent", "queued", "running", "complete", "failed",
                           "superseded", "cancelled"}]
  /\ sidecar \in [covered : 0 .. MaxEvents, gen : JobId \cup {None}]
  /\ gens \in [JobId -> Snapshot]
  /\ cur \in JobId \cup {None}

OneLane(j) == \A i \in 1 .. j : spec[i].lane = spec[j].lane

\* What is served holds nothing that a reset dropped.  Unless a job served a
\* result again that it had not started from, it has every tree, and while one
\* lane does the work it is exactly the scene of its ledger position: whatever
\* snapshot was restored, dropped, half promoted or voided, whatever the sweep
\* deleted, and however many batches changed nothing.
ServedSceneIsSound ==
  \A v \in Served :
     LET r == results[v] IN
     /\ r.scene \ {Cell} \subseteq Trees(r.mark)
     /\ Cell \in r.scene => \E s \in 1 .. r.mark :
          kind[s] = "on" /\ \A i \in s .. r.mark : kind[i] # "reset"
     /\ r.own => Trees(r.mark) \subseteq r.scene
     /\ r.own /\ OneLane(r.job) => r.scene = Truth(r.mark)

\* The same on any lanes: a lane that may not restore the snapshot of another
\* one rebuilds, which loses nothing.
RebuildLosesNothing ==
  \A v \in Served : results[v].own => results[v].scene = Truth(results[v].mark)

\* The same on one lane, with what is served again: the scene equals the
\* previous exact state.
ReservedSceneIsExact ==
  \A v \in Served : OneLane(results[v].job) => results[v].scene = Truth(results[v].mark)

\* The sidecar's coverage never passes the watermark of a job whose outcome is
\* not durable, the generation it names survives every crash of a promotion,
\* and that generation has every tree of the ledger up to the coverage and, but
\* for trees its job seeded and never solved, no other.
CoverageIsDurable ==
  sidecar.gen # None =>
     LET g == gens[sidecar.gen] IN
     /\ status[sidecar.gen] = "complete"
     /\ sidecar.covered = spec[sidecar.gen].mark
     /\ g.is
     /\ Trees(sidecar.covered) \subseteq g.scene
     /\ g.scene \ (g.owed \cup {Cell}) \subseteq Trees(sidecar.covered)

\* A job of the current version never has to add a tree that its base has.
ReplayFits == pc = "build" /\ version = Job.target => Fits(Window)

==============================================================================
