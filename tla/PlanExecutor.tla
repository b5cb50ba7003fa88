---------------------------- MODULE PlanExecutor ----------------------------
(***************************************************************************)
(* One scenario's plan executor (solweig_gpu/incremental/executor.py) and  *)
(* the exact worker it drives (incremental/worker.py): a batch of edits is *)
(* staged on the worker, the scene revision advances, one of four routes   *)
(* solves and renames result patches, the outcome is recorded and the      *)
(* batch's overlays become the scenario's.  A failure or a supersession at *)
(* any point rolls everything back.  Between batches the scenario is saved *)
(* into a directory (incremental/scenario_state.py), the process may end at *)
(* any step, and a fresh one restores what the directory holds.            *)
(*                                                                         *)
(* Products are their inputs: a plane of the tile at a step is the tuple   *)
(* of everything the physics read for it.  The tile has three regions: the *)
(* one trees influence, the one paint covers and the rest.  Forcing has a  *)
(* variable that enters the comfort step alone (wind) and one that enters  *)
(* the radiation, whose thermal state is carried from step to step (rad).  *)
(***************************************************************************)
EXTENDS Integers, Sequences, FiniteSets, SequencesExt, TLC

CONSTANTS Batches,     \* the edit batches clients may submit: what each family
                       \* changes, and the products (vars) the batch requests
          Steps,       \* number of timesteps
          MaxBatches,  \* bound: batches submitted
          MaxFailures, \* bound: batches that are refused, fail or are superseded
          MaxSaves,    \* bound: saves of the scenario state
          MaxRestarts  \* bound: ends of the process

ASSUME ExecutorAssumption ==
  /\ Steps \in Nat \ {0} /\ MaxBatches \in Nat /\ MaxFailures \in Nat
  /\ MaxSaves \in Nat /\ MaxRestarts \in Nat

Keep     == -1                        \* the batch does not touch this family
Nothing  == <<>>                      \* no entry, no capture
Times    == 0 .. Steps - 1
Regions  == {"tree", "paint", "rest"}
Products == {"tmrt", "utci"}

VARIABLES pc,
          ex,     \* executor: rev, the applied forcing, land, params, massing, and
                  \* the land-cover resolve memo
          wk,     \* worker: staged and published overlays, flags, acked, capture
          layer,  \* the tree layer's edit log: <<old, new>>
          job,    \* the batch in progress
          store,  \* TemporalResultStore: product, step, region -> plane
          entry,  \* and the identity of the entry that holds it: <<job, patch>>
          disk,   \* jobs whose patches were renamed into the results root
          ckpts,  \* thermal checkpoints: who captured, who published
          dir     \* the scenario directory: the document and the memo file

VARIABLES scene,  \* what the accepted batches ask the products to depict
          behind, \* planes a batch changed without requesting their product
          jobs,   \* the batches that published
          lost,   \* those an end of the process cut short or took the effect from
          fails,  \* batches that did not publish
          error,  \* what the last batch was refused with
          used    \* saves and ends of the process so far

results == <<store, entry, behind>>
history == <<lost, used>>
vars == <<pc, ex, wk, layer, job, results, disk, ckpts, dir, scene, jobs, fails, error,
          history>>

Lookup(f, k, d) == IF k \in DOMAIN f THEN f[k] ELSE d
Over(new, old)  == IF new = Keep THEN old ELSE new
Merged(new, old) == [k \in DOMAIN new \cup DOMAIN old |-> Lookup(new, k, old[k])]

NoForcing == [wind |-> Nothing, rad |-> Nothing]
NoLand    == [painted |-> FALSE, class |-> 0]
NoJob     == [id |-> 0]

Tree == IF layer = <<>> THEN 0 ELSE Last(layer)[2]

-----------------------------------------------------------------------------
(* The physics, as the inputs it reads.                                    *)

Resolved(overlay) == [t \in Times |-> Lookup(overlay, t, 0)]

\* Radiation at t reads the forcing up to t; only the comfort step reads wind.
Tmrt(s, t, r) ==
  <<[i \in 0 .. t |-> s.rad[i]], s.params, s.building,
    IF r = "tree" THEN s.tree ELSE 0, IF r = "paint" THEN s.class ELSE 0>>
Utci(tmrt, s, t) == <<tmrt, s.wind[t]>>

Plane(s, product, t, r) ==
  IF product = "tmrt" THEN Tmrt(s, t, r) ELSE Utci(Tmrt(s, t, r), s, t)

Baseline == [wind |-> Resolved(Nothing), rad |-> Resolved(Nothing),
             params |-> 0, building |-> 0, tree |-> 0, class |-> 0]

\* What the batch asks for, over what was asked before.
Asked(s, b) ==
  [wind     |-> [t \in Times |-> Lookup(b.wind, t, s.wind[t])],
   rad      |-> [t \in Times |-> Lookup(b.rad, t, s.rad[t])],
   params   |-> Over(b.params, s.params),
   building |-> Over(b.building, s.building),
   tree     |-> Over(b.tree, s.tree),
   class    |-> Over(b.paint, s.class)]

-----------------------------------------------------------------------------
(* Staging: every family folds over what was published and is staged on    *)
(* the worker before any state advances.                                   *)

HasForcing(b)  == b.wind # Nothing \/ b.rad # Nothing
OnlyForcing(b) == {b.params, b.paint, b.tree, b.building} = {Keep}

EffectiveForcing(b) == [wind |-> Merged(b.wind, ex.forcing.wind),
                        rad  |-> Merged(b.rad, ex.forcing.rad)]
EffectiveParams(b)  == Over(b.params, ex.params)
EffectiveLand(b)    == IF b.paint = Keep THEN ex.land
                       ELSE [painted |-> TRUE, class |-> b.paint]

\* The accumulated building fold: a delete leaves a tombstone (0), so that a
\* fold that was ever non-empty stays so.
MassingFold(b) == Over(b.building, ex.massing)

\* stage_forcing_overlay, stage_model_parameters and stage_landcover_overlay
\* in this order, of which n were reached.  The presence flag marks forcing
\* that rides a mixed batch; the stroke is the batch's own paint footprint.
StagedUpTo(b, n) ==
  [wk EXCEPT
     !.forcing  = IF n >= 1 THEN EffectiveForcing(b) ELSE @,
     !.presence = IF n >= 1 THEN HasForcing(b) /\ ~OnlyForcing(b) ELSE @,
     !.params   = IF n >= 2 THEN EffectiveParams(b) ELSE @,
     !.land     = IF n >= 3 THEN EffectiveLand(b) ELSE @,
     !.stroke   = IF n >= 3 THEN b.paint # Keep ELSE @]

\* publication_watermarks, and rollback_pending to a snapshot of them.
Watermarks(w) == [acked |-> w.acked, forcing |-> w.pforcing,
                  land |-> w.pland, params |-> w.pparams]
Rewound(w, marks) ==
  [w EXCEPT !.acked = marks.acked, !.pforcing = marks.forcing,
            !.pland = marks.land, !.pparams = marks.params,
            !.stroke = FALSE, !.presence = FALSE]

Submitted == Cardinality(jobs) + Cardinality(lost) + fails

\* The adapters accept an edit of the scene as it is.
Executable(b) ==
  /\ pc = "idle" /\ Submitted < MaxBatches
  /\ b.tree # Keep => b.tree # Tree
  /\ b.building = 0 => ex.massing \notin {Keep, 0}

\* A seam refuses its payload: whatever was staged before it stays staged.
Refuse(b) ==
  /\ Executable(b) /\ fails < MaxFailures
  /\ \E n \in 0 .. 3 : wk' = StagedUpTo(b, n)
  /\ fails' = fails + 1
  /\ error' = "refused"
  /\ UNCHANGED <<pc, ex, layer, job, results, disk, ckpts, scene, jobs, dir,
                 history>>

\* The batch folds value-equal to the published scenario state in every
\* family; land cover is compared by value, not by what was ever painted.
ValueEqual(b) ==
  /\ b.tree = Keep /\ b.building = Keep
  /\ EffectiveForcing(b) = ex.forcing
  /\ EffectiveLand(b).class = ex.memo
  /\ EffectiveParams(b) = ex.params

ExecuteNoop(b) ==
  /\ Executable(b) /\ ValueEqual(b)
  /\ wk' = LET w == StagedUpTo(b, 3) IN Rewound(w, Watermarks(w))
  /\ scene' = Asked(scene, b)
  /\ UNCHANGED <<pc, ex, layer, job, results, disk, ckpts, jobs, fails, error,
                 dir, history>>

\* What the planner promises: forcing is site-global unless every changed
\* variable enters the comfort step alone, parameters and buildings always.
FastShape(b)   == OnlyForcing(b) /\ b.rad = Nothing
PromisesFull(b) == \/ b.params # Keep \/ b.building # Keep
                   \/ HasForcing(b) /\ ~FastShape(b)

\* Stage, advance the revision, replay the tree edit into the layer.
Execute(b) ==
  /\ Executable(b) /\ ~ValueEqual(b)
  /\ wk' = StagedUpTo(b, 3)
  /\ job' = [id      |-> Submitted + 1,
             batch   |-> b,
             full    |-> PromisesFull(b),
             fold    |-> MassingFold(b),
             tree    |-> <<Tree, b.tree>>,
             prev    |-> ex.rev,
             marks   |-> Watermarks(wk'),
             route   |-> "none",
             patches |-> <<>>,   \* solved and staged
             renamed |-> 0]      \* how many are in the results root
  /\ ex' = [ex EXCEPT !.rev = @ + 1]
  /\ layer' = IF b.tree = Keep THEN layer ELSE Append(layer, <<Tree, b.tree>>)
  /\ pc' = "dispatch"
  /\ UNCHANGED <<results, disk, ckpts, scene, jobs, fails, error, dir, history>>

-----------------------------------------------------------------------------
(* Routes.  A patch is the planes it carries, per step and region.         *)

Inputs(building) ==
  [wind |-> Resolved(wk.forcing.wind), rad |-> Resolved(wk.forcing.rad),
   params |-> wk.params, building |-> building, tree |-> Tree,
   class |-> wk.land.class]

\* utci is always requested: it is what the solver computes in any case.
Requested == job.batch.vars \cup {"utci"}

\* A patch carries the requested products only.
Patch(s, times, regions) ==
  [p \in Requested |-> [t \in times |-> [r \in regions |-> Plane(s, p, t, r)]]]

Covered(product, t) == \A r \in Regions : store[product][t][r] # Nothing

ChangedTimes ==
  {t \in Times : \/ Inputs(0).wind[t] # Resolved(ex.forcing.wind)[t]
                 \/ Inputs(0).rad[t] # Resolved(ex.forcing.rad)[t]}

\* Any batch while the accumulated building fold is non-empty rides the
\* regeneration chain; the worker is bound to the baseline buildings.
ChainRoutedByBatch == job.batch.building # Keep
ChainRouted == job.fold # Keep

\* A comfort-only forcing batch over fully published radiation.
FastPath ==
  /\ FastShape(job.batch)
  /\ ChangedTimes # {}
  /\ \A t \in ChangedTimes : Covered("tmrt", t)

\* A radiation-affecting forcing batch whose first changed step has a fully
\* published prefix.
WarmPath ==
  /\ OnlyForcing(job.batch) /\ ~FastShape(job.batch)
  /\ ChangedTimes # {} /\ 0 \notin ChangedTimes
  /\ \A t \in Times : (\A c \in ChangedTimes : t < c) =>
       \A p \in Requested : Covered(p, t)

\* The condition each shortcut needs beyond its shape; an unmet one refuses
\* and the batch takes the ordinary route.
MetRouted == ~ChainRouted /\ job.batch.tree = Keep /\ (FastPath \/ WarmPath)

Solved(route, patches, capture) ==
  /\ job' = [job EXCEPT !.route = route, !.patches = patches]
  /\ wk' = [wk EXCEPT !.capture = capture]
  /\ pc' = "rename"
  /\ UNCHANGED <<ex, layer, results, disk, ckpts, scene, jobs, fails, error,
                 dir, history>>

SolveFast ==
  /\ pc = "dispatch" /\ MetRouted /\ FastPath
  /\ Solved("fast",
            <<[p \in {"utci"} |-> [t \in ChangedTimes |-> [r \in Regions |->
                 Utci(store["tmrt"][t][r], Inputs(0), t)]]]>>,
            wk.capture)

\* The suffix is solved from the state at the first changed step.
SolveWarm ==
  /\ pc = "dispatch" /\ MetRouted /\ WarmPath
  /\ Solved("warm",
            <<Patch(Inputs(0),
                    {t \in Times : \E c \in ChangedTimes : c <= t}, Regions)>>,
            wk.capture)

SolveChain ==
  /\ pc = "dispatch" /\ ChainRouted
  /\ Solved("chain", <<Patch(Inputs(job.fold), Times, Regions)>>, wk.capture)

\* ExactWorker.run: what is pending, and what it dirties.
TreePending ==
  wk.acked < Len(layer) /\ layer[wk.acked + 1][1] # Tree
ForcingPending == wk.presence \/ wk.forcing # wk.pforcing
LandPending    == wk.land # wk.pland
ParamsPending  == wk.params # wk.pparams
Pending == TreePending \/ ForcingPending \/ LandPending \/ ParamsPending

\* The paint footprint joins by what was staged, not by overlay inequality: a
\* repaint of the published value is dirty work the plan promised.
LandDirtyByInequality == LandPending /\ wk.stroke
LandDirty == wk.stroke

Dirty ==
  IF ForcingPending \/ ParamsPending THEN Regions
  ELSE (IF TreePending THEN {"tree"} ELSE {}) \cup (IF LandDirty THEN {"paint"} ELSE {})

WorkerRoute == pc = "dispatch" /\ ~ChainRouted /\ ~MetRouted

\* Full tile when the plan promises it, the whole tile is dirty, the dirty
\* share demotes it, or the local solver refuses its input.
SolveFull ==
  /\ WorkerRoute /\ Pending /\ Dirty # {}
  /\ Solved("full", <<Patch(Inputs(0), Times, Regions)>>, <<job.id>>)

SolveLocal ==
  /\ WorkerRoute /\ Pending /\ Dirty # {}
  /\ ~job.full /\ Dirty # Regions
  /\ Solved("local", SetToSeq({Patch(Inputs(0), Times, {r}) : r \in Dirty}), Nothing)

-----------------------------------------------------------------------------
(* Publication.                                                            *)

Results(n) == {<<job.id, k>> : k \in 1 .. n}

\* publish_staged_patch, one patch directory at a time.
Rename ==
  /\ pc = "rename" /\ job.renamed < Len(job.patches)
  /\ job' = [job EXCEPT !.renamed = @ + 1]
  /\ disk' = disk \cup Results(job.renamed + 1)
  /\ UNCHANGED <<pc, ex, wk, layer, results, ckpts, scene, jobs, fails, error,
                 dir, history>>

\* Every patch is in place: a worker job consumes its edits and overlays, the
\* warm route hands over the state it split at, the others change nothing.
Published ==
  /\ pc = "rename" /\ job.renamed = Len(job.patches)
  /\ wk' = CASE job.route \in {"full", "local"} ->
                  [wk EXCEPT !.acked = Len(layer), !.pforcing = wk.forcing,
                             !.pland = wk.land, !.pparams = wk.params,
                             !.presence = FALSE]
             [] job.route = "warm" -> [wk EXCEPT !.capture = <<job.id>>]
             [] OTHER -> wk
  /\ pc' = "record"
  /\ UNCHANGED <<ex, layer, job, results, disk, ckpts, scene, jobs, fails,
                 error, dir, history>>

-----------------------------------------------------------------------------
(* Recording and commit.                                                   *)

Wrote == UNION {DOMAIN q["utci"][t] : q \in ToSet(job.patches), t \in Times \cap
                  UNION {DOMAIN x["utci"] : x \in ToSet(job.patches)}}

\* _reconcile_scope: the published windows cover what the plan promised.
Reconciled ==
  /\ job.full => job.route \in {"full", "warm", "chain"}
  /\ (IF job.batch.tree # Keep THEN {"tree"} ELSE {})
       \cup (IF job.batch.paint # Keep THEN {"paint"} ELSE {}) \subseteq Wrote

Carries(q, p, t, r) == p \in DOMAIN q /\ t \in DOMAIN q[p] /\ r \in DOMAIN q[p][t]
Written(p, t, r) == \E q \in ToSet(job.patches) : Carries(q, p, t, r)

\* A newer batch supersedes exactly the cells and steps it republishes.
Recorded ==
  [p \in Products |-> [t \in Times |-> [r \in Regions |->
     LET carrying == {q \in ToSet(job.patches) : Carries(q, p, t, r)}
     IN IF carrying = {} THEN store[p][t][r]
        ELSE (CHOOSE q \in carrying : TRUE)[p][t][r]]]]

\* Every patch of a job is entered under an identity of its own.
Entered ==
  [p \in Products |-> [t \in Times |-> [r \in Regions |->
     LET carrying == {k \in DOMAIN job.patches : Carries(job.patches[k], p, t, r)}
     IN IF carrying = {} THEN entry[p][t][r]
        ELSE <<job.id, CHOOSE k \in carrying : TRUE>>]]]

\* Where a solve changed a plane of a product the batch did not request, the
\* entry stays and falls behind; the fast route computes utci from the tmrt it
\* finds and falls behind with it.
FallenBehind ==
  {c \in Products \X Times \X Regions :
     IF Written(c[1], c[2], c[3])
     THEN job.route = "fast" /\ <<"tmrt", c[2], c[3]>> \in behind
     ELSE c \in behind \/ (job.route # "fast" /\ Written("utci", c[2], c[3]))}

\* A batch published outside ExactWorker.run is adopted on the worker: its
\* tree edits are consumed and its overlays are published.
NotAdopted(w) == w
Adopted(w) ==
  [w EXCEPT !.acked = IF TreePending THEN Len(layer) ELSE job.marks.acked,
            !.pforcing = w.forcing, !.pland = w.land, !.pparams = w.params,
            !.stroke = FALSE, !.presence = FALSE]

\* The scope is covered and the store accepts: the outcome is recorded, the
\* checkpoint (best effort) takes whatever capture is pending, and the staged
\* overlays become the scenario's.
Commit ==
  /\ pc = "record" /\ Reconciled
  /\ store' = Recorded /\ entry' = Entered /\ behind' = FallenBehind
  /\ \/ wk.capture # Nothing
        /\ ckpts' = ckpts \cup {[by |-> wk.capture[1], at |-> job.id]}
     \/ ckpts' = ckpts
  /\ wk' = LET w == [wk EXCEPT !.capture = Nothing]
           IN IF job.route \in {"fast", "warm", "chain"} THEN Adopted(w) ELSE w
  /\ ex' = [ex EXCEPT !.forcing = wk.forcing, !.land = wk.land,
                      !.params = wk.params, !.massing = job.fold,
                      !.memo = wk.land.class]
  /\ scene' = Asked(scene, job.batch)
  /\ jobs' = jobs \cup {job.id}
  /\ error' = "none"
  /\ job' = NoJob
  /\ pc' = "idle"
  /\ UNCHANGED <<layer, disk, fails, dir, history>>

-----------------------------------------------------------------------------
(* Rollback: state rebind, undo of the replay, watermark rewind, removal   *)
(* of the patches already renamed.                                         *)

DiscardedNone == disk
Discarded == disk \ Results(job.renamed)

RollBack(why) ==
  /\ ex' = [ex EXCEPT !.rev = job.prev]
  /\ layer' = IF job.batch.tree = Keep THEN layer
              ELSE Append(layer, <<job.tree[2], job.tree[1]>>)
  /\ wk' = Rewound(wk, job.marks)
  /\ disk' = Discarded
  /\ fails' = fails + 1
  /\ error' = why
  /\ job' = NoJob
  /\ pc' = "idle"
  /\ UNCHANGED <<results, ckpts, scene, jobs, dir, history>>

\* Why a batch fails: the worker finds nothing pending or nothing dirty, the
\* published scope undercuts the plan, or else a solve, a rename, a metadata
\* read or the store fails or the revision moved at a checkpoint.
Reason ==
  IF WorkerRoute /\ (~Pending \/ Dirty = {}) THEN "nothing pending"
  ELSE IF pc = "record" /\ ~Reconciled THEN "scope"
  ELSE "failed"

Fail ==
  /\ pc \in {"dispatch", "rename", "record"}
  /\ Reason # "failed" \/ fails < MaxFailures
  /\ RollBack(Reason)

-----------------------------------------------------------------------------
(* The scenario directory.                                                 *)

\* A freshly constructed executor.
FreshExecutor ==
  [rev |-> 0, forcing |-> NoForcing, land |-> NoLand, params |-> 0,
   massing |-> Keep, memo |-> 0]
FreshWorker ==
  [forcing |-> NoForcing, land |-> NoLand, params |-> 0,
   presence |-> FALSE, stroke |-> FALSE, acked |-> 0,
   pforcing |-> NoForcing, pland |-> NoLand, pparams |-> 0,
   capture |-> Nothing]
FreshStore == [p \in Products |-> [t \in Times |-> [r \in Regions |-> Nothing]]]

\* The pairing a save asserts: what the worker published is what the executor
\* has accumulated.
Paired == /\ wk.pforcing = ex.forcing /\ wk.pland = ex.land
          /\ wk.pparams = ex.params

\* The memo's hash, which the document records.
MemoOf(e) == IF e.land.painted THEN <<e.memo>> ELSE Nothing

\* write_snapshot replaces the memo first, if the scenario ever painted...
SaveMemo ==
  /\ pc = "idle" /\ used.saves < MaxSaves /\ Paired
  /\ dir' = IF ex.land.painted THEN [dir EXCEPT !.memo = MemoOf(ex)] ELSE dir
  /\ used' = [used EXCEPT !.saves = @ + 1]
  /\ pc' = "saving"
  /\ UNCHANGED <<ex, wk, layer, job, results, disk, ckpts, scene, jobs, fails,
                 error, lost>>

\* ...and the document last.  It names its batches for the properties' sake.
SaveDocument ==
  /\ pc = "saving"
  /\ dir' = [dir EXCEPT !.doc = <<[ex |-> [ex EXCEPT !.memo = 0], acked |-> wk.acked,
                                  layer |-> layer, store |-> store,
                                  entry |-> entry, behind |-> behind,
                                  memo |-> MemoOf(ex),
                                  scene |-> scene, jobs |-> jobs]>>]
  /\ pc' = "idle"
  /\ UNCHANGED <<ex, wk, layer, job, results, disk, ckpts, scene, jobs, fails,
                 error, history>>

\* The process ends: only files remain.
EndProcess ==
  /\ pc # "down" /\ used.ends < MaxRestarts
  /\ used' = [used EXCEPT !.ends = @ + 1]
  /\ lost' = lost \cup jobs \cup ({job.id} \ {0})
  /\ ex' = FreshExecutor /\ wk' = FreshWorker
  /\ store' = FreshStore /\ entry' = FreshStore /\ behind' = {}
  /\ layer' = <<>> /\ job' = NoJob /\ scene' = Baseline /\ jobs' = {}
  /\ pc' = "down" /\ error' = "none"
  /\ UNCHANGED <<disk, ckpts, dir, fails>>

\* read_snapshot refuses a directory without a document and a document whose
\* memo is not the one it was written against.
Readable == dir.doc # Nothing /\ dir.doc[1].memo \in {Nothing, dir.memo}

\* _restore_store_index publishes the saved entries grouped by revision and job,
\* and the store refuses a second job of one revision under a key: the windows
\* of a multi-window job, which carry a job id each, conflict with each other.
Replayable(e) ==
  \A p \in Products, t \in Times :
    \A x, y \in {e[p][t][r] : r \in Regions} \ {Nothing} : x[1] = y[1] => x = y

Restorable == Readable /\ Replayable(dir.doc[1].entry)

\* restore_into_executor: the log is replayed, the published overlays are
\* adopted and staged as well, so that nothing is pending, the overlays, the
\* building fold and the memo are the executor's again, and the entries are
\* published into the fresh store in the order of their revisions.
Restore ==
  /\ pc = "down" /\ Restorable
  /\ LET d == dir.doc[1] IN
       /\ layer' = d.layer
       /\ ex' = [d.ex EXCEPT !.memo = IF d.memo = Nothing THEN 0 ELSE dir.memo[1]]
       /\ wk' = [FreshWorker EXCEPT
                   !.acked = d.acked,
                   !.forcing = d.ex.forcing, !.pforcing = d.ex.forcing,
                   !.land = d.ex.land, !.pland = d.ex.land,
                   !.params = d.ex.params, !.pparams = d.ex.params]
       /\ store' = d.store /\ entry' = d.entry /\ behind' = d.behind
       /\ scene' = d.scene
       /\ jobs' = d.jobs /\ lost' = lost \ d.jobs
  /\ pc' = "idle"
  /\ UNCHANGED <<job, disk, ckpts, dir, fails, error, used>>

\* A restore that fails leaves an executor nobody keeps.
RestoreRefused ==
  /\ pc = "down" /\ dir.doc # Nothing /\ ~Restorable
  /\ error' = "unrestorable"
  /\ UNCHANGED <<pc, ex, wk, layer, job, results, disk, ckpts, dir, scene, jobs,
                 fails, history>>

-----------------------------------------------------------------------------
Init ==
  /\ pc = "idle" /\ job = NoJob
  /\ ex = FreshExecutor /\ wk = FreshWorker
  /\ store = FreshStore /\ entry = FreshStore /\ behind = {}
  /\ layer = <<>> /\ disk = {} /\ ckpts = {}
  /\ dir = [doc |-> Nothing, memo |-> Nothing]
  /\ scene = Baseline
  /\ jobs = {} /\ lost = {} /\ fails = 0 /\ error = "none"
  /\ used = [saves |-> 0, ends |-> 0]

Next ==
  \/ \E b \in Batches : Refuse(b) \/ ExecuteNoop(b) \/ Execute(b)
  \/ SolveFast \/ SolveWarm \/ SolveChain \/ SolveFull \/ SolveLocal
  \/ Rename \/ Published \/ Commit \/ Fail
  \/ SaveMemo \/ SaveDocument \/ EndProcess \/ Restore \/ RestoreRefused

Spec == Init /\ [][Next]_vars

-----------------------------------------------------------------------------
\* Types, and the tree layer's log holds no edit that changes nothing.
TypeOK ==
  /\ pc \in {"idle", "dispatch", "rename", "record", "saving", "down"}
  /\ ex.rev \in 0 .. MaxBatches
  /\ wk.acked \in 0 .. Len(layer)
  /\ \A e \in ToSet(layer) : e[1] # e[2]
  /\ disk \subseteq (1 .. MaxBatches) \X (1 .. Cardinality(Regions))
  /\ pc \in {"idle", "saving", "down"} <=> job = NoJob

\* What a reader is served: the recorded plane, or the baseline's.
Served(p, t, r) ==
  IF store[p][t][r] = Nothing THEN Plane(Baseline, p, t, r) ELSE store[p][t][r]

\* Between batches every plane of every step and region depicts exactly the
\* scenario the accepted batches ask for, but for the planes a batch changed
\* without requesting their product: no route drops another family's edits, no
\* shortcut serves a stale prefix, no value no-op hides a change, nothing of a
\* failed batch shows, and a restored scenario is the saved one, also when the
\* process ended between the two files of a save.
ServedIsScenario ==
  pc = "idle" => \A p \in Products, t \in Times, r \in Regions :
                   <<p, t, r>> \in behind \/ Served(p, t, r) = Plane(scene, p, t, r)

\* The comfort product, which every batch requests, is never behind:
\* _run_met_utci_fast_path, "a retained rev-N cell already carries its newest
\* value".
UtciIsCurrent ==
  pc = "idle" => \A t \in Times, r \in Regions :
                   Served("utci", t, r) = Plane(scene, "utci", t, r)

\* _restore_store_index: "the same-revision conflict guards ... resolve exactly
\* as they did live", so the store accepts again whatever was saved.
SavedIsReplayable == dir.doc # Nothing => Replayable(dir.doc[1].entry)

\* The pairing a snapshot asserts (scenario_state.py): between batches the
\* worker's watermarks are the executor's applied overlays, no tree edit is
\* pending, and the revision counts the batches that published.
WorkerPaired ==
  pc = "idle" => /\ Watermarks(wk) = [acked |-> wk.acked, forcing |-> ex.forcing,
                                      land |-> ex.land, params |-> ex.params]
                 /\ ~TreePending
                 /\ ex.rev = Cardinality(jobs)
                 /\ Tree = scene.tree

\* No batch is refused as "nothing pending" or for a scope the worker itself
\* undercut, whatever failed before it: a failed batch can be retried.
NeverWedged == error \notin {"nothing pending", "scope"}

\* Between batches the results root holds the patches of published batches
\* only: rev-globbing readers never see a revision that was not current.  What
\* an end of the process cut short or took back is left to the ledger's replay.
NoOrphans == pc = "idle" => {d[1] : d \in disk} \ lost = jobs

\* stage_thermal_capture: "a capture is never committed under a revision it
\* did not serve".
CaptureServesItsRevision == \A c \in ckpts : c.by = c.at
=============================================================================
