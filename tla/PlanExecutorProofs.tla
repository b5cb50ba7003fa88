------------------------- MODULE PlanExecutorProofs -------------------------
(***************************************************************************)
(* Proofs about PlanExecutor for any batches, any number of timesteps and  *)
(* any number of failures, saves and ends of the process: what is served,  *)
(* what the worker and the executor agree on, and that no failure leaves a *)
(* scenario that can not be edited again.                                  *)
(***************************************************************************)
EXTENDS PlanExecutor, FiniteSetTheorems, SequenceTheorems, TLAPS

-----------------------------------------------------------------------------
(* The inductive invariant.                                                *)

Solving == {"rename", "record"}
Busy    == {"dispatch"} \cup Solving
Routes  == {"fast", "warm", "chain", "full", "local"}
Trees   == {0} \cup {b.tree : b \in Batches}

\* The records that are updated field by field have their fields.
ExecutorFields == {"rev", "forcing", "land", "params", "massing", "memo"}
WorkerFields   == {"forcing", "land", "params", "presence", "stroke", "acked",
                   "pforcing", "pland", "pparams", "capture"}
JobFields      == {"id", "batch", "full", "fold", "tree", "prev", "marks", "route",
                   "patches", "renamed"}
HasFields(r, fields) == r = [f \in fields |-> r[f]]

Shapes ==
  /\ pc \in Busy \cup {"idle", "saving", "down"}
  /\ HasFields(ex, ExecutorFields) /\ HasFields(wk, WorkerFields)
  /\ HasFields(dir, {"doc", "memo"})
  /\ pc \notin Busy => job = NoJob
  /\ pc \in Busy => HasFields(job, JobFields) /\ job.batch \in Batches

\* Batches are numbered as they are submitted; every one published, was lost or
\* did not publish, and the revision counts those that published.
Ledger ==
  /\ IsFiniteSet(jobs) /\ IsFiniteSet(lost) /\ jobs \cap lost = {} /\ fails \in Nat
  /\ \A j \in jobs \cup lost : j \in Nat /\ 0 < j /\ j <= Submitted
  /\ pc = "down" => jobs = {}
  /\ pc \notin Busy => ex.rev = Cardinality(jobs) /\ Submitted <= MaxBatches
  /\ pc \in Busy => /\ job.id = Submitted + 1 /\ job.prev = Cardinality(jobs)
                    /\ ex.rev = Cardinality(jobs) + 1 /\ Submitted < MaxBatches

\* The results root holds patches of batches that published or were lost and,
\* of the batch in progress, the ones renamed so far.
Root ==
  /\ \A d \in disk : d[1] \in jobs \cup lost \/ (pc \in Busy /\ d[1] = job.id)
  /\ \A j \in jobs : \E d \in disk : d[1] = j
  /\ pc \in Busy => \A d \in disk : d[1] = job.id => d \in Results(job.renamed)
  /\ pc \in Busy => job.renamed \in Nat /\ Results(job.renamed) \subseteq disk
  /\ pc = "dispatch" => job.renamed = 0
  /\ pc \in Solving => Len(job.patches) \in Nat \ {0} /\ job.renamed <= Len(job.patches)
  /\ pc = "record" => job.renamed = Len(job.patches)

\* The edits of a log after the acknowledged ones cancel: they start at the tree
\* they end with.
Consumed(l, acked, tree) ==
  /\ acked \in 0 .. Len(l)
  /\ acked < Len(l) => l[acked + 1][1] = tree
TreeOf(l) == IF l = <<>> THEN 0 ELSE l[Len(l)][2]

\* The log, and what the batch in progress has appended to it.
Replayed ==
  /\ layer \in Seq(Trees \X Trees)
  /\ pc \notin Busy => Consumed(layer, wk.acked, scene.tree) /\ TreeOf(layer) = scene.tree
  /\ pc \in Busy =>
       IF job.batch.tree = Keep
       THEN Consumed(layer, job.marks.acked, scene.tree) /\ TreeOf(layer) = scene.tree
       ELSE /\ job.tree = <<scene.tree, job.batch.tree>>
            /\ job.batch.tree # scene.tree /\ TreeOf(layer) = job.batch.tree
            /\ Consumed(layer, job.marks.acked, scene.tree) /\ job.marks.acked < Len(layer)

\* The worker's watermarks are the executor's overlays.  While a batch is in
\* progress the worker holds the batch's overlays as staged; a worker job moves
\* the watermarks to them when its patches are in place.
ByWorker == pc = "record" /\ job.route \in {"full", "local"}
Overlays ==
  /\ pc \notin Busy => Paired
  /\ pc \in Busy =>
       /\ job.marks.forcing = ex.forcing /\ job.marks.land = ex.land
       /\ job.marks.params = ex.params
       /\ wk.forcing = EffectiveForcing(job.batch) /\ wk.land = EffectiveLand(job.batch)
       /\ wk.params = EffectiveParams(job.batch)
       /\ job.fold = MassingFold(job.batch)
       /\ ~ByWorker => Watermarks(wk) = job.marks
       /\ ByWorker => Watermarks(wk) = [acked |-> Len(layer), forcing |-> wk.forcing,
                                        land |-> wk.land, params |-> wk.params]

\* What the batch in progress staged, and that it is not a value no-op.
Staged ==
  pc = "dispatch" => /\ job.full = PromisesFull(job.batch)
                     /\ wk.stroke = (job.batch.paint # Keep)
                     /\ ~ValueEqual(job.batch)

\* The scenario is the executor's accumulated overlays.
Accumulated(e, s) ==
  /\ e.land.painted \in BOOLEAN /\ (~e.land.painted => e.land.class = 0)
  /\ s = [wind |-> Resolved(e.forcing.wind), rad |-> Resolved(e.forcing.rad),
          params |-> e.params, building |-> Over(e.massing, 0), tree |-> s.tree,
          class |-> e.land.class]

\* A store that depicts a scenario but for what is away.
Shows(st, away, s) ==
  \A p \in Products, t \in Times, r \in Regions :
    <<p, t, r>> \notin away =>
      (IF st[p][t][r] = Nothing THEN Plane(Baseline, p, t, r) ELSE st[p][t][r])
        = Plane(s, p, t, r)

Depicted == /\ Accumulated(ex, scene) /\ ex.memo = ex.land.class
            /\ Shows(store, behind, scene)

\* What patches of a route leave behind.
Carried(Q, p, t, r) == \E q \in Q : Carries(q, p, t, r)
Left(Q, route) ==
  {c \in Products \X Times \X Regions :
     IF Carried(Q, c[1], c[2], c[3])
     THEN route = "fast" /\ <<"tmrt", c[2], c[3]>> \in behind
     ELSE c \in behind \/ (route # "fast" /\ Carried(Q, "utci", c[2], c[3]))}

\* But for what is away, a patch is right where it writes, and where none of a
\* set of them writes nothing changes.
Right(q, s, away) ==
  \A p \in Products, t \in Times, r \in Regions :
    <<p, t, r>> \notin away /\ Carries(q, p, t, r) => q[p][t][r] = Plane(s, p, t, r)
Complete(Q, s, old, away) ==
  \A p \in Products, t \in Times, r \in Regions :
    <<p, t, r>> \notin away /\ (\A q \in Q : ~Carries(q, p, t, r)) =>
      Plane(s, p, t, r) = Plane(old, p, t, r)

\* What the batch in progress asks for.
Wanted == Asked(scene, job.batch)

\* The patches of a batch depict what it asks for, leave nothing it changes, and
\* cover what the plan promised.
Outcome ==
  pc \in Solving =>
    /\ Reconciled /\ job.route \in Routes
    /\ \A q \in ToSet(job.patches) : Right(q, Wanted, FallenBehind)
    /\ Complete(ToSet(job.patches), Wanted, scene, FallenBehind)

\* A document holds a scenario between two batches, whose batches are known and
\* have their patches in the root.
Sound(d, known, root) ==
  /\ HasFields(d.ex, ExecutorFields) /\ d.ex.rev = Cardinality(d.jobs)
  /\ d.layer \in Seq(Trees \X Trees) /\ Consumed(d.layer, d.acked, d.scene.tree)
  /\ TreeOf(d.layer) = d.scene.tree
  /\ Accumulated(d.ex, d.scene) /\ Shows(d.store, d.behind, d.scene)
  /\ d.memo = IF d.ex.land.painted THEN <<d.ex.land.class>> ELSE Nothing
  /\ d.jobs \subseteq known /\ \A j \in d.jobs : \E x \in root : x[1] = j

Document == dir.doc # Nothing => Sound(dir.doc[1], jobs \cup lost, disk)

IInv == /\ Shapes /\ Ledger /\ Root /\ Replayed /\ Overlays /\ Staged
        /\ Depicted /\ Outcome /\ Document /\ NeverWedged

-----------------------------------------------------------------------------
(* The worker's fields.                                                    *)

\* Staging moves the staged overlays and the flags, never a watermark.
LEMMA StagedFields ==
  ASSUME HasFields(wk, WorkerFields), NEW b, NEW n \in 0 .. 3
  PROVE  /\ HasFields(StagedUpTo(b, n), WorkerFields) /\ Watermarks(StagedUpTo(b, n)) = Watermarks(wk)
         /\ StagedUpTo(b, n).capture = wk.capture
<1> USE DEF HasFields, WorkerFields, StagedUpTo
<1>1. HasFields(StagedUpTo(b, n), WorkerFields)
  OBVIOUS
<1>2. Watermarks(StagedUpTo(b, n)) = Watermarks(wk)
  BY DEF Watermarks
<1>3. StagedUpTo(b, n).capture = wk.capture
  OBVIOUS
<1> QED BY <1>1, <1>2, <1>3

\* All three families are staged.
LEMMA AllStaged ==
  ASSUME HasFields(wk, WorkerFields), NEW b
  PROVE  /\ StagedUpTo(b, 3).forcing = EffectiveForcing(b)
         /\ StagedUpTo(b, 3).land = EffectiveLand(b)
         /\ StagedUpTo(b, 3).params = EffectiveParams(b)
         /\ StagedUpTo(b, 3).stroke = (b.paint # Keep)
         /\ Watermarks(StagedUpTo(b, 3)) = Watermarks(wk)
<1>1. 3 \in 0 .. 3
  OBVIOUS
<1>2. Watermarks(StagedUpTo(b, 3)) = Watermarks(wk)
  BY <1>1, StagedFields
<1>3. /\ StagedUpTo(b, 3).forcing = EffectiveForcing(b)
      /\ StagedUpTo(b, 3).land = EffectiveLand(b)
      /\ StagedUpTo(b, 3).params = EffectiveParams(b)
      /\ StagedUpTo(b, 3).stroke = (b.paint # Keep)
  BY DEF HasFields, WorkerFields, StagedUpTo
<1> QED BY <1>2, <1>3

\* A rewind sets the watermarks and keeps what is staged.
LEMMA RewoundFields ==
  ASSUME NEW w, HasFields(w, WorkerFields), NEW marks
  PROVE  /\ HasFields(Rewound(w, marks), WorkerFields)
         /\ Watermarks(Rewound(w, marks)) =
              [acked |-> marks.acked, forcing |-> marks.forcing,
               land |-> marks.land, params |-> marks.params]
BY DEF HasFields, WorkerFields, Rewound, Watermarks

\* The fold of an overlay over another, resolved.
LEMMA ResolvedFold ==
  ASSUME NEW f, NEW g
  PROVE  Resolved(Merged(f, g)) = [t \in Times |-> Lookup(f, t, Resolved(g)[t])]
BY DEF Resolved, Lookup, Merged

\* A plane is never mistaken for an absent entry.
LEMMA PlaneIsEntry ==
  ASSUME NEW s, NEW p, NEW t, NEW r
  PROVE  Plane(s, p, t, r) # Nothing
BY DEF Plane, Nothing, Tmrt, Utci

-----------------------------------------------------------------------------
(* The shapes of the records, and what the steps of a batch leave alone.   *)

\* A solve, a rename and the end of the renames: the batch goes on, with what it
\* staged, and nothing of the scenario moves.
Advances ==
  /\ pc \in Busy /\ pc' \in Solving /\ HasFields(job', JobFields)
  /\ job'.id = job.id /\ job'.batch = job.batch /\ job'.full = job.full
  /\ job'.fold = job.fold /\ job'.tree = job.tree /\ job'.prev = job.prev
  /\ job'.marks = job.marks
  /\ HasFields(wk', WorkerFields) /\ wk'.forcing = wk.forcing /\ wk'.land = wk.land
  /\ wk'.params = wk.params
  /\ UNCHANGED <<ex, layer, store, behind, scene, jobs, lost, fails, error, dir>>

\* A route solves: the patches are new, nothing is renamed and the watermarks stay.
Solves(route, patches) ==
  /\ pc = "dispatch" /\ pc' = "rename" /\ job'.route = route /\ job'.patches = patches
  /\ job'.renamed = job.renamed /\ Watermarks(wk') = Watermarks(wk) /\ UNCHANGED disk

\* What Solved leaves.
LEMMA SolvedFields ==
  ASSUME Shapes, pc = "dispatch", NEW route, NEW patches, NEW capture,
         Solved(route, patches, capture)
  PROVE  Advances /\ Solves(route, patches)
<1>1. HasFields(job, JobFields) /\ HasFields(wk, WorkerFields)
  BY DEF Shapes, Busy
<1>2. /\ job' = [job EXCEPT !.route = route, !.patches = patches]
      /\ wk' = [wk EXCEPT !.capture = capture]
      /\ pc' = "rename" /\ UNCHANGED disk
      /\ UNCHANGED <<ex, layer, store, behind, scene, jobs, lost, fails, error, dir>>
  BY DEF Solved, history, results
<1>3. /\ HasFields(job', JobFields) /\ job'.id = job.id /\ job'.batch = job.batch
      /\ job'.full = job.full /\ job'.fold = job.fold /\ job'.tree = job.tree
      /\ job'.prev = job.prev /\ job'.marks = job.marks /\ job'.renamed = job.renamed
      /\ job'.route = route /\ job'.patches = patches
  BY <1>1, <1>2 DEF HasFields, JobFields
<1>4. /\ HasFields(wk', WorkerFields) /\ wk'.forcing = wk.forcing /\ wk'.land = wk.land
      /\ wk'.params = wk.params
  BY <1>1, <1>2 DEF HasFields, WorkerFields
<1>5. Watermarks(wk') = Watermarks(wk)
  BY <1>1, <1>2 DEF HasFields, WorkerFields, Watermarks
<1> QED BY <1>2, <1>3, <1>4, <1>5 DEF Advances, Solves, Busy, Solving

\* What Rename leaves.
LEMMA RenameFields ==
  ASSUME Shapes, Rename
  PROVE  /\ Advances /\ job'.renamed = job.renamed + 1 /\ job'.patches = job.patches
         /\ job'.route = job.route /\ UNCHANGED <<pc, wk>>
<1>1. HasFields(job, JobFields) /\ HasFields(wk, WorkerFields) /\ pc = "rename"
  BY DEF Shapes, Busy, Solving, Rename
<1>2. /\ job' = [job EXCEPT !.renamed = job.renamed + 1] /\ UNCHANGED <<pc, wk>>
      /\ UNCHANGED <<ex, layer, store, behind, scene, jobs, lost, fails, error, dir>>
  <2>1. job' = [job EXCEPT !.renamed = @ + 1] /\ UNCHANGED <<pc, wk>>
    BY DEF Rename
  <2>2. UNCHANGED <<ex, layer, store, behind, scene, jobs, lost, fails, error, dir>>
    BY DEF Rename, history, results
  <2> QED BY <2>1, <2>2
<1> DEFINE n == job.renamed + 1
<1>3. job' = [job EXCEPT !.renamed = n]
  BY <1>2
<1> HIDE DEF n
<1>4. /\ HasFields(job', JobFields) /\ job'.id = job.id /\ job'.batch = job.batch
      /\ job'.full = job.full /\ job'.fold = job.fold /\ job'.tree = job.tree
      /\ job'.prev = job.prev /\ job'.marks = job.marks /\ job'.renamed = n
      /\ job'.route = job.route /\ job'.patches = job.patches
  BY <1>1, <1>3 DEF HasFields, JobFields
<1> QED BY <1>1, <1>2, <1>4 DEF Advances, Busy, Solving, n

\* What Published leaves: a worker job moves the watermarks to what is staged.
LEMMA PublishedFields ==
  ASSUME Shapes, Published
  PROVE  /\ Advances /\ UNCHANGED <<job, disk>> /\ pc = "rename" /\ pc' = "record"
         /\ job.route \in {"full", "local"} =>
              Watermarks(wk') = [acked |-> Len(layer), forcing |-> wk.forcing,
                                 land |-> wk.land, params |-> wk.params]
         /\ job.route \notin {"full", "local"} => Watermarks(wk') = Watermarks(wk)
<1>1. HasFields(job, JobFields) /\ HasFields(wk, WorkerFields) /\ pc = "rename"
  BY DEF Shapes, Busy, Solving, Published
<1>2. /\ pc' = "record" /\ UNCHANGED <<job, disk>>
      /\ UNCHANGED <<ex, layer, store, behind, scene, jobs, lost, fails, error, dir>>
  BY DEF Published, history, results
<1> SUFFICES /\ HasFields(wk', WorkerFields) /\ wk'.forcing = wk.forcing
             /\ wk'.land = wk.land /\ wk'.params = wk.params
             /\ job.route \in {"full", "local"} =>
                  Watermarks(wk') = [acked |-> Len(layer), forcing |-> wk.forcing,
                                     land |-> wk.land, params |-> wk.params]
             /\ job.route \notin {"full", "local"} => Watermarks(wk') = Watermarks(wk)
  BY <1>1, <1>2 DEF Advances, Busy, Solving
<1>3. CASE job.route \in {"full", "local"}
  <2>1. wk' = [wk EXCEPT !.acked = Len(layer), !.pforcing = wk.forcing,
                         !.pland = wk.land, !.pparams = wk.params, !.presence = FALSE]
    BY <1>3 DEF Published
  <2> QED BY <1>1, <1>3, <2>1 DEF HasFields, WorkerFields, Watermarks
<1>4. CASE job.route = "warm"
  <2>1. wk' = [wk EXCEPT !.capture = <<job.id>>]
    BY <1>4 DEF Published
  <2> QED BY <1>1, <1>4, <2>1 DEF HasFields, WorkerFields, Watermarks
<1>5. CASE job.route \notin {"full", "local", "warm"}
  <2>1. wk' = wk
    BY <1>5 DEF Published
  <2> QED BY <1>1, <1>5, <2>1
<1> QED BY <1>3, <1>4, <1>5

\* The steps of a batch between its start and its outcome.
Progress ==
  SolveFast \/ SolveWarm \/ SolveChain \/ SolveFull \/ SolveLocal \/ Rename \/ Published

\* Each of them advances the batch.
LEMMA ProgressAdvances ==
  ASSUME Shapes, Progress
  PROVE  Advances
<1>1. CASE SolveFast
  BY <1>1, SolvedFields DEF SolveFast
<1>2. CASE SolveWarm
  BY <1>2, SolvedFields DEF SolveWarm
<1>3. CASE SolveChain
  BY <1>3, SolvedFields DEF SolveChain
<1>4. CASE SolveFull
  BY <1>4, SolvedFields DEF SolveFull, WorkerRoute
<1>5. CASE SolveLocal
  BY <1>5, SolvedFields DEF SolveLocal, WorkerRoute
<1>6. CASE Rename
  BY <1>6, RenameFields
<1>7. CASE Published
  BY <1>7, PublishedFields
<1> QED BY <1>1, <1>2, <1>3, <1>4, <1>5, <1>6, <1>7 DEF Progress

\* The executor's overlays, without the revision.
SameOverlays ==
  /\ HasFields(ex', ExecutorFields) /\ ex'.forcing = ex.forcing /\ ex'.land = ex.land
  /\ ex'.params = ex.params /\ ex'.massing = ex.massing /\ ex'.memo = ex.memo

\* What Execute leaves.
LEMMA ExecuteFields ==
  ASSUME Shapes, NEW b \in Batches, Execute(b)
  PROVE  /\ SameOverlays /\ ex'.rev = ex.rev + 1 /\ pc = "idle" /\ pc' = "dispatch"
         /\ wk' = StagedUpTo(b, 3) /\ HasFields(job', JobFields)
         /\ job'.id = Submitted + 1 /\ job'.batch = b /\ job'.full = PromisesFull(b)
         /\ job'.fold = MassingFold(b) /\ job'.tree = <<Tree, b.tree>>
         /\ job'.prev = ex.rev /\ job'.marks = Watermarks(wk) /\ job'.renamed = 0
         /\ UNCHANGED <<store, behind, disk, scene, jobs, lost, fails, error, dir>>
<1>1. pc = "idle" /\ pc' = "dispatch" /\ wk' = StagedUpTo(b, 3)
  BY DEF Execute, Executable
<1>2. UNCHANGED <<store, behind, disk, scene, jobs, lost, fails, error, dir>>
  BY DEF Execute, history, results
<1>3. Watermarks(wk') = Watermarks(wk)
  BY <1>1, StagedFields DEF Shapes
<1>4. /\ HasFields(job', JobFields)
      /\ job'.id = Submitted + 1 /\ job'.batch = b /\ job'.full = PromisesFull(b)
      /\ job'.fold = MassingFold(b) /\ job'.tree = <<Tree, b.tree>>
      /\ job'.prev = ex.rev /\ job'.marks = Watermarks(wk') /\ job'.renamed = 0
  <2> DEFINE i == Submitted + 1
             u == PromisesFull(b)
             o == MassingFold(b)
             m == Watermarks(wk')
             l == <<Tree, b.tree>>
             e == ex.rev
             q == <<>>
  <2>1. job' = [id |-> i, batch |-> b, full |-> u, fold |-> o, tree |-> l, prev |-> e,
                marks |-> m, route |-> "none", patches |-> q, renamed |-> 0]
    BY DEF Execute
  <2> HIDE DEF i, u, o, m, l, e, q
  <2>2. /\ HasFields(job', JobFields) /\ job'.id = i /\ job'.batch = b /\ job'.full = u
        /\ job'.fold = o /\ job'.tree = l /\ job'.prev = e /\ job'.marks = m
        /\ job'.renamed = 0
    BY <2>1 DEF HasFields, JobFields
  <2> QED BY <2>2 DEF i, u, o, m, l, e
<1>5. SameOverlays /\ ex'.rev = ex.rev + 1
  <2> DEFINE n == ex.rev + 1
  <2>1. ex' = [ex EXCEPT !.rev = n] /\ HasFields(ex, ExecutorFields)
    BY DEF Execute, Shapes
  <2> HIDE DEF n
  <2>2. SameOverlays /\ ex'.rev = n
    BY <2>1 DEF SameOverlays, HasFields, ExecutorFields
  <2> QED BY <2>2 DEF n
<1> QED BY <1>1, <1>2, <1>3, <1>4, <1>5

\* What Refuse and ExecuteNoop leave: only the worker moves, and not its watermarks.
LEMMA StageOnly ==
  ASSUME Shapes, NEW b, Refuse(b) \/ ExecuteNoop(b)
  PROVE  /\ HasFields(wk', WorkerFields) /\ Watermarks(wk') = Watermarks(wk)
         /\ pc = "idle"
         /\ UNCHANGED <<pc, ex, layer, job, store, behind, disk, jobs, lost, dir>>
<1>1. UNCHANGED <<pc, ex, layer, job, store, behind, disk, jobs, lost, dir>>
  BY DEF Refuse, ExecuteNoop, history, results
<1>2. CASE Refuse(b)
  <2>1. PICK n \in 0 .. 3 : wk' = StagedUpTo(b, n)
    BY <1>2 DEF Refuse
  <2>2. pc = "idle" /\ HasFields(wk, WorkerFields)
    BY <1>2 DEF Refuse, Executable, Shapes
  <2> QED BY <2>1, <2>2, <1>1, StagedFields
<1>3. CASE ExecuteNoop(b)
  <2> DEFINE w == StagedUpTo(b, 3)
             v == Rewound(w, Watermarks(w))
  <2>1. wk' = v /\ pc = "idle" /\ HasFields(wk, WorkerFields)
    BY <1>3 DEF ExecuteNoop, Executable, Shapes
  <2>2. HasFields(w, WorkerFields) /\ Watermarks(w) = Watermarks(wk)
    BY <2>1, StagedFields
  <2> HIDE DEF w
  <2>3. /\ HasFields(v, WorkerFields)
        /\ Watermarks(v) = [acked |-> Watermarks(w).acked, forcing |-> Watermarks(w).forcing,
                            land |-> Watermarks(w).land, params |-> Watermarks(w).params]
    BY <2>2, RewoundFields
  <2> HIDE DEF v
  <2>4. Watermarks(v) = Watermarks(w)
    BY <2>3 DEF Watermarks
  <2> QED BY <2>1, <2>2, <2>3, <2>4, <1>1
<1> QED BY <1>2, <1>3

\* What Commit leaves: the overlays staged on the worker are the executor's, and
\* the watermarks are theirs, by the worker's own job or by adoption.
LEMMA CommitFields ==
  ASSUME Shapes, Commit
  PROVE  /\ pc = "record" /\ pc' = "idle" /\ job' = NoJob /\ Reconciled
         /\ HasFields(ex', ExecutorFields) /\ ex'.rev = ex.rev
         /\ ex'.forcing = wk.forcing /\ ex'.land = wk.land /\ ex'.params = wk.params
         /\ ex'.massing = job.fold /\ ex'.memo = wk.land.class
         /\ HasFields(wk', WorkerFields)
         /\ job.route \in {"fast", "warm", "chain"} =>
              Watermarks(wk') =
                [acked |-> IF TreePending THEN Len(layer) ELSE job.marks.acked,
                 forcing |-> wk.forcing, land |-> wk.land, params |-> wk.params]
         /\ job.route \notin {"fast", "warm", "chain"} => Watermarks(wk') = Watermarks(wk)
         /\ store' = Recorded /\ behind' = FallenBehind /\ scene' = Asked(scene, job.batch)
         /\ jobs' = jobs \cup {job.id} /\ error' = "none"
         /\ UNCHANGED <<layer, disk, fails, lost, dir>>
<1>1. /\ pc = "record" /\ pc' = "idle" /\ job' = NoJob /\ Reconciled
      /\ store' = Recorded /\ behind' = FallenBehind /\ scene' = Asked(scene, job.batch)
      /\ jobs' = jobs \cup {job.id} /\ error' = "none"
      /\ UNCHANGED <<layer, disk, fails, lost, dir>>
  BY DEF Commit, history, results
<1>2. HasFields(ex, ExecutorFields) /\ HasFields(wk, WorkerFields)
  BY DEF Shapes
<1>3. /\ HasFields(ex', ExecutorFields) /\ ex'.rev = ex.rev
      /\ ex'.forcing = wk.forcing /\ ex'.land = wk.land /\ ex'.params = wk.params
      /\ ex'.massing = job.fold /\ ex'.memo = wk.land.class
  <2>1. ex' = [ex EXCEPT !.forcing = wk.forcing, !.land = wk.land, !.params = wk.params,
                         !.massing = job.fold, !.memo = wk.land.class]
    BY DEF Commit
  <2> QED BY <1>2, <2>1 DEF HasFields, ExecutorFields
<1> DEFINE w == [wk EXCEPT !.capture = Nothing]
<1>4. wk' = IF job.route \in {"fast", "warm", "chain"} THEN Adopted(w) ELSE w
  BY DEF Commit
<1>5. /\ HasFields(w, WorkerFields) /\ Watermarks(w) = Watermarks(wk)
      /\ w.forcing = wk.forcing /\ w.land = wk.land /\ w.params = wk.params
  BY <1>2 DEF HasFields, WorkerFields, Watermarks
<1> HIDE DEF w
<1>6. ASSUME job.route \in {"fast", "warm", "chain"}
      PROVE  /\ HasFields(wk', WorkerFields)
             /\ Watermarks(wk') =
                  [acked |-> IF TreePending THEN Len(layer) ELSE job.marks.acked,
                   forcing |-> wk.forcing, land |-> wk.land, params |-> wk.params]
  <2> DEFINE a == IF TreePending THEN Len(layer) ELSE job.marks.acked
  <2>1. wk' = [w EXCEPT !.acked = a, !.pforcing = w.forcing, !.pland = w.land,
                        !.pparams = w.params, !.stroke = FALSE, !.presence = FALSE]
    BY <1>4, <1>6 DEF Adopted
  <2> HIDE DEF a
  <2>2. /\ HasFields(wk', WorkerFields)
        /\ Watermarks(wk') = [acked |-> a, forcing |-> w.forcing, land |-> w.land,
                              params |-> w.params]
    BY <1>5, <2>1 DEF HasFields, WorkerFields, Watermarks
  <2> QED BY <1>5, <2>2 DEF a
<1> QED BY <1>1, <1>3, <1>4, <1>5, <1>6

\* What Fail leaves: the watermarks and the revision of before the batch.
LEMMA FailFields ==
  ASSUME Shapes, Fail
  PROVE  /\ pc \in Busy /\ pc' = "idle" /\ job' = NoJob
         /\ SameOverlays /\ ex'.rev = job.prev
         /\ HasFields(wk', WorkerFields)
         /\ Watermarks(wk') = [acked |-> job.marks.acked, forcing |-> job.marks.forcing,
                               land |-> job.marks.land, params |-> job.marks.params]
         /\ layer' = (IF job.batch.tree = Keep THEN layer
                      ELSE Append(layer, <<job.tree[2], job.tree[1]>>))
         /\ disk' = Discarded /\ fails' = fails + 1 /\ error' = Reason
         /\ UNCHANGED <<store, behind, scene, jobs, lost, dir>>
<1>1. /\ pc \in Busy /\ pc' = "idle" /\ job' = NoJob
      /\ layer' = (IF job.batch.tree = Keep THEN layer
                   ELSE Append(layer, <<job.tree[2], job.tree[1]>>))
      /\ disk' = Discarded /\ fails' = fails + 1 /\ error' = Reason
      /\ UNCHANGED <<store, behind, scene, jobs, lost, dir>>
  BY DEF Fail, RollBack, history, results, Busy, Solving
<1>2. ex' = [ex EXCEPT !.rev = job.prev] /\ wk' = Rewound(wk, job.marks)
  BY DEF Fail, RollBack
<1>3. SameOverlays /\ ex'.rev = job.prev
  BY <1>2 DEF SameOverlays, HasFields, ExecutorFields, Shapes
<1> QED BY <1>1, <1>2, <1>3, RewoundFields DEF Shapes

\* A save touches the directory alone.
LEMMA SaveFields ==
  ASSUME Shapes, SaveMemo \/ SaveDocument
  PROVE  /\ pc \notin Busy /\ pc' \notin Busy /\ pc' # "down" /\ pc # "down"
         /\ pc' \in {"idle", "saving"} /\ HasFields(dir', {"doc", "memo"})
         /\ UNCHANGED <<ex, wk, layer, job, store, behind, disk, scene, jobs, lost, fails, error>>
<1>1. /\ pc \notin Busy /\ pc' \notin Busy /\ pc' # "down" /\ pc # "down"
      /\ pc' \in {"idle", "saving"}
      /\ UNCHANGED <<ex, wk, layer, job, store, behind, disk, scene, jobs, lost, fails, error>>
  BY DEF SaveMemo, SaveDocument, history, results, Busy, Solving
<1>2. HasFields(dir', {"doc", "memo"})
  <2>1. HasFields(dir, {"doc", "memo"})
    BY DEF Shapes
  <2>2. CASE SaveMemo
    <3> DEFINE m == MemoOf(ex)
    <3>1. dir' = [dir EXCEPT !.memo = m] \/ dir' = dir
      BY <2>2 DEF SaveMemo
    <3> HIDE DEF m
    <3> QED BY <2>1, <3>1 DEF HasFields
  <2>3. CASE SaveDocument
    <3>1. PICK d : dir' = [dir EXCEPT !.doc = d]
      BY <2>3 DEF SaveDocument
    <3> QED BY <2>1, <3>1 DEF HasFields
  <2> QED BY <2>2, <2>3
<1> QED BY <1>1, <1>2

\* A fresh executor and worker.
LEMMA FreshFields ==
  /\ HasFields(FreshExecutor, ExecutorFields) /\ HasFields(FreshWorker, WorkerFields)
  /\ Watermarks(FreshWorker) = [acked |-> 0, forcing |-> NoForcing, land |-> NoLand, params |-> 0]
BY DEF FreshExecutor, FreshWorker, HasFields, ExecutorFields, WorkerFields, Watermarks

\* What Restore takes from the document.
LEMMA RestoreFields ==
  ASSUME Shapes, Document, Restore
  PROVE  /\ pc = "down" /\ pc' = "idle" /\ Readable /\ dir.doc # Nothing
         /\ Sound(dir.doc[1], jobs \cup lost, disk)
         /\ layer' = dir.doc[1].layer /\ store' = dir.doc[1].store
         /\ behind' = dir.doc[1].behind
         /\ scene' = dir.doc[1].scene /\ jobs' = dir.doc[1].jobs
         /\ lost' = lost \ dir.doc[1].jobs
         /\ HasFields(ex', ExecutorFields) /\ ex'.rev = dir.doc[1].ex.rev
         /\ ex'.forcing = dir.doc[1].ex.forcing /\ ex'.land = dir.doc[1].ex.land
         /\ ex'.params = dir.doc[1].ex.params /\ ex'.massing = dir.doc[1].ex.massing
         /\ ex'.memo = (IF dir.doc[1].memo = Nothing THEN 0 ELSE dir.memo[1])
         /\ HasFields(wk', WorkerFields)
         /\ Watermarks(wk') = [acked |-> dir.doc[1].acked, forcing |-> ex'.forcing,
                               land |-> ex'.land, params |-> ex'.params]
         /\ UNCHANGED <<job, disk, dir, fails, error>>
<1> DEFINE d == dir.doc[1]
           m == IF d.memo = Nothing THEN 0 ELSE dir.memo[1]
<1>1. /\ pc = "down" /\ pc' = "idle" /\ Readable /\ dir.doc # Nothing
      /\ behind' = d.behind
      /\ layer' = d.layer /\ store' = d.store /\ scene' = d.scene /\ jobs' = d.jobs
      /\ lost' = lost \ d.jobs
      /\ UNCHANGED <<job, disk, dir, fails, error>>
  BY DEF Restore, Restorable, Readable
<1>2. Sound(d, jobs \cup lost, disk)
  BY <1>1 DEF Document
<1>3. ex' = [d.ex EXCEPT !.memo = m]
  BY DEF Restore
<1>4. wk' = [FreshWorker EXCEPT
               !.acked = d.acked,
               !.forcing = d.ex.forcing, !.pforcing = d.ex.forcing,
               !.land = d.ex.land, !.pland = d.ex.land,
               !.params = d.ex.params, !.pparams = d.ex.params]
  BY DEF Restore
<1>5. HasFields(d.ex, ExecutorFields)
  BY <1>2 DEF Sound
<1> HIDE DEF d, m
<1>6. /\ HasFields(ex', ExecutorFields) /\ ex'.rev = d.ex.rev /\ ex'.forcing = d.ex.forcing
      /\ ex'.land = d.ex.land /\ ex'.params = d.ex.params /\ ex'.massing = d.ex.massing
      /\ ex'.memo = m
  BY <1>3, <1>5 DEF HasFields, ExecutorFields
<1>7. /\ HasFields(wk', WorkerFields)
      /\ Watermarks(wk') = [acked |-> d.acked, forcing |-> d.ex.forcing,
                            land |-> d.ex.land, params |-> d.ex.params]
  <2>1. HasFields(FreshWorker, WorkerFields)
    BY FreshFields
  <2> QED BY <1>4, <2>1 DEF HasFields, WorkerFields, Watermarks
<1> QED BY <1>1, <1>2, <1>6, <1>7 DEF d, m

\* A refused restore leaves the process down.
LEMMA RefusedFields ==
  ASSUME RestoreRefused
  PROVE  /\ pc = "down" /\ error' = "unrestorable"
         /\ UNCHANGED <<pc, ex, wk, layer, job, store, behind, disk, dir, scene, jobs, fails,
                        lost>>
BY DEF RestoreRefused, history, results

\* What EndProcess leaves.
LEMMA EndFields ==
  ASSUME EndProcess
  PROVE  /\ pc # "down" /\ pc' = "down" /\ job' = NoJob /\ ex' = FreshExecutor
         /\ wk' = FreshWorker /\ store' = FreshStore /\ behind' = {} /\ layer' = <<>>
         /\ scene' = Baseline
         /\ jobs' = {} /\ lost' = lost \cup jobs \cup ({job.id} \ {0}) /\ error' = "none"
         /\ UNCHANGED <<disk, dir, fails>>
BY DEF EndProcess

\* The initial state is a fresh process over an empty directory.
LEMMA ShapesInit == Init => Shapes
BY FreshFields DEF Init, Shapes, Busy, Solving, HasFields

\* Every step keeps the shapes.
LEMMA ShapesStep ==
  ASSUME Shapes, Document, Next
  PROVE  Shapes'
<1>1. CASE \E b \in Batches : Refuse(b) \/ ExecuteNoop(b)
  <2>1. PICK b \in Batches : Refuse(b) \/ ExecuteNoop(b)
    BY <1>1
  <2> QED BY <2>1, StageOnly DEF Shapes
<1>2. ASSUME NEW b \in Batches, Execute(b) PROVE Shapes'
  <2>1. /\ HasFields(ex', ExecutorFields) /\ HasFields(job', JobFields) /\ pc' = "dispatch"
        /\ wk' = StagedUpTo(b, 3) /\ job'.batch = b /\ UNCHANGED dir
    BY <1>2, ExecuteFields DEF SameOverlays
  <2>2. HasFields(wk', WorkerFields)
    BY <2>1, StagedFields DEF Shapes
  <2> QED BY <2>1, <2>2 DEF Shapes, Busy
<1>3. CASE Progress
  BY <1>3, ProgressAdvances DEF Advances, Shapes, Busy
<1>4. CASE Commit
  BY <1>4, CommitFields DEF Shapes, Busy, Solving
<1>5. CASE Fail
  BY <1>5, FailFields DEF Shapes, Busy, Solving, SameOverlays
<1>6. CASE SaveMemo \/ SaveDocument
  BY <1>6, SaveFields DEF Shapes
<1>7. CASE EndProcess
  BY <1>7, EndFields, FreshFields DEF Shapes, Busy, Solving
<1>8. CASE Restore
  BY <1>8, RestoreFields DEF Shapes, Busy, Solving
<1>9. CASE RestoreRefused
  BY <1>9, RefusedFields DEF Shapes
<1> QED BY <1>1, <1>2, <1>3, <1>4, <1>5, <1>6, <1>7, <1>8, <1>9 DEF Next, Progress

-----------------------------------------------------------------------------
(* The ledger of batches.                                                  *)

\* The number of batches submitted, with two disjoint finite sets.
LEMMA SubmittedFacts ==
  ASSUME IsFiniteSet(jobs), IsFiniteSet(lost), jobs \cap lost = {}, fails \in Nat
  PROVE  /\ IsFiniteSet(jobs \cup lost)
         /\ Cardinality(jobs) \in Nat /\ Cardinality(lost) \in Nat /\ Submitted \in Nat
         /\ Submitted = Cardinality(jobs \cup lost) + fails
         /\ Cardinality(jobs) <= Submitted
<1>1. Cardinality(jobs) \in Nat /\ Cardinality(lost) \in Nat
  BY FS_CardinalityType
<1>2. /\ IsFiniteSet(jobs \cup lost)
      /\ Cardinality(jobs \cup lost)
           = Cardinality(jobs) + Cardinality(lost) - Cardinality(jobs \cap lost)
  BY FS_Union
<1>3. Cardinality(jobs \cap lost) = 0
  BY FS_EmptySet
<1> QED BY <1>1, <1>2, <1>3 DEF Submitted

\* Nothing was submitted at first.
LEMMA LedgerInit == Init => Ledger
<1> SUFFICES ASSUME Init PROVE Ledger
  OBVIOUS
<1>1. jobs = {} /\ lost = {} /\ fails = 0 /\ pc = "idle" /\ ex.rev = 0
  BY DEF Init, FreshExecutor
<1>2. IsFiniteSet({}) /\ Cardinality({}) = 0
  BY FS_EmptySet
<1>3. Submitted = 0
  BY <1>1, <1>2 DEF Submitted
<1> QED BY <1>1, <1>2, <1>3, ExecutorAssumption DEF Ledger, Busy, Solving

\* Every step keeps the ledger.
LEMMA LedgerStep ==
  ASSUME Shapes, Ledger, Document, Next
  PROVE  Ledger'
<1>0. /\ IsFiniteSet(jobs) /\ IsFiniteSet(lost) /\ jobs \cap lost = {} /\ fails \in Nat
      /\ \A j \in jobs \cup lost : j \in Nat /\ 0 < j /\ j <= Submitted
      /\ pc = "down" => jobs = {}
      /\ pc \notin Busy => ex.rev = Cardinality(jobs) /\ Submitted <= MaxBatches
      /\ pc \in Busy => /\ job.id = Submitted + 1 /\ job.prev = Cardinality(jobs)
                        /\ ex.rev = Cardinality(jobs) + 1 /\ Submitted < MaxBatches
  BY DEF Ledger
<1>a. /\ IsFiniteSet(jobs \cup lost)
      /\ Cardinality(jobs) \in Nat /\ Cardinality(lost) \in Nat /\ Submitted \in Nat
      /\ Submitted = Cardinality(jobs \cup lost) + fails
      /\ Cardinality(jobs) <= Submitted
  BY <1>0, SubmittedFacts
<1>b. MaxBatches \in Nat
  BY ExecutorAssumption
<1>1. CASE \E b \in Batches : Refuse(b)
  <2>1. PICK b \in Batches : Refuse(b)
    BY <1>1
  <2>2. /\ pc = "idle" /\ UNCHANGED <<pc, ex, jobs, lost>> /\ fails' = fails + 1
        /\ Submitted < MaxBatches
    BY <2>1, StageOnly DEF Refuse, Executable
  <2>3. Submitted' = Submitted + 1
    BY <2>2, <1>0, <1>a DEF Submitted
  <2> QED BY <2>2, <2>3, <1>0, <1>a, <1>b DEF Ledger, Busy, Solving
<1>2. CASE \E b \in Batches : ExecuteNoop(b)
  <2>1. PICK b \in Batches : ExecuteNoop(b)
    BY <1>2
  <2>2. pc = "idle" /\ UNCHANGED <<pc, ex, jobs, lost, fails>>
    BY <2>1, StageOnly DEF ExecuteNoop
  <2> QED BY <2>2, <1>0 DEF Ledger, Submitted, Busy, Solving
<1>3. ASSUME NEW b \in Batches, Execute(b) PROVE Ledger'
  <2>1. /\ pc = "idle" /\ pc' = "dispatch" /\ UNCHANGED <<jobs, lost, fails>>
        /\ ex'.rev = ex.rev + 1 /\ job'.id = Submitted + 1 /\ job'.prev = ex.rev
    BY <1>3, ExecuteFields
  <2>2. Submitted < MaxBatches /\ Submitted' = Submitted
    BY <1>3, <2>1 DEF Execute, Executable, Submitted
  <2> QED BY <2>1, <2>2, <1>0, <1>a DEF Ledger, Busy, Solving
<1>4. CASE Progress
  <2>1. /\ pc \in Busy /\ pc' \in Solving /\ UNCHANGED <<ex, jobs, lost, fails>>
        /\ job'.id = job.id /\ job'.prev = job.prev
    BY <1>4, ProgressAdvances DEF Advances
  <2>2. Submitted' = Submitted
    BY <2>1 DEF Submitted
  <2> QED BY <2>1, <2>2, <1>0 DEF Ledger, Busy, Solving
<1>5. CASE Commit
  <2>1. /\ pc = "record" /\ pc' = "idle" /\ ex'.rev = ex.rev /\ jobs' = jobs \cup {job.id}
        /\ UNCHANGED <<lost, fails>>
    BY <1>5, CommitFields
  <2>2. /\ job.id = Submitted + 1 /\ ex.rev = Cardinality(jobs) + 1
        /\ Submitted < MaxBatches
    BY <2>1, <1>0 DEF Busy, Solving
  <2>3. job.id \notin jobs \cup lost
    BY <2>2, <1>0, <1>a
  <2>4. IsFiniteSet(jobs') /\ Cardinality(jobs') = Cardinality(jobs) + 1
    BY <2>1, <2>3, <1>0, FS_AddElement
  <2>5. Submitted' = Submitted + 1
    BY <2>1, <2>4, <1>0, <1>a DEF Submitted
  <2>6. \A j \in (jobs \cup lost)' : j \in Nat /\ 0 < j /\ j <= Submitted'
    BY <2>1, <2>2, <2>5, <1>0, <1>a
  <2>7. jobs' \cap lost' = {}
    BY <2>1, <2>3, <1>0
  <2> QED BY <2>1, <2>2, <2>4, <2>5, <2>6, <2>7, <1>0, <1>a, <1>b DEF Ledger, Busy, Solving
<1>6. CASE Fail
  <2>1. /\ pc \in Busy /\ pc' = "idle" /\ ex'.rev = job.prev /\ fails' = fails + 1
        /\ UNCHANGED <<jobs, lost>>
    BY <1>6, FailFields
  <2>2. Submitted' = Submitted + 1
    BY <2>1, <1>0, <1>a DEF Submitted
  <2> QED BY <2>1, <2>2, <1>0, <1>a, <1>b DEF Ledger, Busy, Solving
<1>7. CASE SaveMemo \/ SaveDocument
  <2>1. /\ pc \notin Busy /\ pc' \notin Busy /\ pc' # "down"
        /\ UNCHANGED <<ex, jobs, lost, fails>>
    BY <1>7, SaveFields
  <2> QED BY <2>1, <1>0 DEF Ledger, Submitted
<1>8. CASE EndProcess
  <2>1. /\ pc' = "down" /\ jobs' = {} /\ lost' = lost \cup jobs \cup ({job.id} \ {0})
        /\ UNCHANGED fails /\ ex'.rev = 0
    BY <1>8, EndFields DEF FreshExecutor
  <2>2. IsFiniteSet({}) /\ Cardinality({}) = 0
    BY FS_EmptySet
  <2>3. CASE pc \in Busy
    <3>1. job.id = Submitted + 1 /\ Submitted < MaxBatches
      BY <2>3, <1>0
    <3>2. job.id \notin jobs \cup lost /\ lost' = (jobs \cup lost) \cup {job.id}
      <4>1. job.id \notin jobs \cup lost /\ job.id # 0
        BY <3>1, <1>0, <1>a
      <4>2. {job.id} \ {0} = {job.id}
        BY <4>1
      <4> QED BY <4>1, <4>2, <2>1
    <3>3. IsFiniteSet(lost') /\ Cardinality(lost') = Cardinality(jobs \cup lost) + 1
      BY <3>2, <1>a, FS_AddElement
    <3>4. Submitted' = Submitted + 1
      <4>1. Cardinality(jobs \cup lost) \in Nat
        BY <1>a, FS_CardinalityType
      <4> QED BY <3>3, <4>1, <2>1, <2>2, <1>0, <1>a DEF Submitted
    <3>5. (jobs \cup lost)' = (jobs \cup lost) \cup {job.id}
      BY <2>1, <3>2
    <3>6. ASSUME NEW j \in (jobs \cup lost)'
          PROVE  j \in Nat /\ 0 < j /\ j <= Submitted'
      <4>1. j \in jobs \cup lost \/ j = job.id
        BY <3>5
      <4> QED BY <4>1, <3>1, <3>4, <1>0, <1>a
    <3>7. ex'.rev = Cardinality(jobs') /\ Submitted' <= MaxBatches
      BY <2>1, <2>2, <3>1, <3>4, <1>a, <1>b
    <3>8. IsFiniteSet(jobs') /\ jobs' \cap lost' = {} /\ fails' \in Nat /\ pc' \notin Busy
      BY <2>1, <2>2, <1>0 DEF Busy, Solving
    <3> QED BY <2>1, <3>3, <3>6, <3>7, <3>8 DEF Ledger
  <2>4. CASE pc \notin Busy
    <3>1. job.id = 0
      BY <2>4 DEF Shapes, NoJob
    <3>2. lost' = jobs \cup lost
      BY <2>1, <3>1
    <3>3. Submitted' = Submitted
      <4>1. Cardinality(jobs \cup lost) \in Nat
        BY <1>a, FS_CardinalityType
      <4> QED BY <3>2, <4>1, <2>1, <2>2, <1>0, <1>a DEF Submitted
    <3> QED BY <2>1, <2>2, <2>4, <3>2, <3>3, <1>0, <1>a DEF Ledger, Busy, Solving
  <2> QED BY <2>3, <2>4
<1>9. CASE Restore
  <2> DEFINE J == dir.doc[1].jobs
  <2>1. /\ pc = "down" /\ pc' = "idle" /\ jobs' = J /\ lost' = lost \ J
        /\ ex'.rev = dir.doc[1].ex.rev /\ UNCHANGED fails /\ Sound(dir.doc[1], jobs \cup lost, disk)
    BY <1>9, RestoreFields
  <2>2. ex'.rev = Cardinality(J) /\ J \subseteq jobs \cup lost
    BY <2>1 DEF Sound
  <2> HIDE DEF J
  <2>3. jobs = {} /\ Submitted <= MaxBatches
    BY <2>1, <1>0 DEF Busy, Solving
  <2>4. J \cup (lost \ J) = jobs \cup lost /\ J \cap (lost \ J) = {}
    BY <2>2, <2>3
  <2>5. IsFiniteSet(J) /\ IsFiniteSet(lost \ J)
    BY <2>2, <2>3, <1>0, FS_Subset, FS_Difference
  <2>6. Submitted' = Cardinality((jobs \cup lost)') + fails'
    <3>1. /\ IsFiniteSet(jobs') /\ IsFiniteSet(lost') /\ jobs' \cap lost' = {}
          /\ fails' \in Nat
      BY <2>1, <2>4, <2>5, <1>0
    <3>2. /\ Cardinality(jobs') \in Nat /\ Cardinality(lost') \in Nat
          /\ Cardinality(jobs' \cup lost')
               = Cardinality(jobs') + Cardinality(lost') - Cardinality(jobs' \cap lost')
      BY <3>1, FS_Union, FS_CardinalityType
    <3>3. Cardinality(jobs' \cap lost') = 0
      BY <3>1, FS_EmptySet
    <3> QED BY <3>1, <3>2, <3>3 DEF Submitted
  <2>7. Submitted' = Submitted
    BY <2>1, <2>4, <2>6, <1>a
  <2> QED BY <2>1, <2>2, <2>3, <2>4, <2>5, <2>7, <1>0 DEF Ledger, Busy, Solving
<1>10. CASE RestoreRefused
  BY <1>10, <1>0, RefusedFields DEF Ledger, Submitted, Busy, Solving
<1> QED BY <1>1, <1>2, <1>3, <1>4, <1>5, <1>6, <1>7, <1>8, <1>9, <1>10 DEF Next, Progress

-----------------------------------------------------------------------------
(* The patches of each route.                                              *)

\* SetToSeq lists a finite set.
LEMMA SetToSeqFacts ==
  ASSUME NEW S, IsFiniteSet(S), S # {}
  PROVE  /\ Len(SetToSeq(S)) \in Nat \ {0} /\ Len(SetToSeq(S)) = Cardinality(S)
         /\ ToSet(SetToSeq(S)) = S
<1> DEFINE n == Cardinality(S)
           f == SetToSeq(S)
<1>1. n \in Nat /\ ExistsBijection(1 .. n, S) /\ n # 0
  BY FS_CardinalityType, FS_EmptySet
<1>2. \E g \in [1 .. n -> S] : IsInjective(g)
  BY <1>1 DEF ExistsBijection, Bijection, Injection
<1>3. f \in [1 .. n -> S] /\ IsInjective(f)
  BY <1>2 DEF SetToSeq
<1> HIDE DEF f
<1>4. f \in Injection(1 .. n, S)
  BY <1>3 DEF Injection
<1>5. Cardinality(1 .. n) = n
  <2>1. 1 \in Int /\ n \in Int
    BY <1>1
  <2>2. Cardinality(1 .. n) = IF 1 > n THEN 0 ELSE n - 1 + 1
    BY <2>1, FS_Interval
  <2> QED BY <1>1, <2>2
<1>6. f \in Surjection(1 .. n, S)
  BY <1>4, <1>5, FS_Injection
<1>7. \A x \in S : \E i \in 1 .. n : f[i] = x
  BY <1>6 DEF Surjection
<1>8. f \in Seq(S) /\ Len(f) = n
  BY <1>1, <1>3, SeqDef
<1>9. ToSet(f) = S
  BY <1>3, <1>7 DEF ToSet
<1> QED BY <1>1, <1>8, <1>9 DEF f

\* There are three regions.
LEMMA RegionCount == IsFiniteSet(Regions) /\ Cardinality(Regions) = 3
<1>1. Regions = ({"tree"} \cup {"paint"}) \cup {"rest"}
  BY DEF Regions
<1>2. IsFiniteSet({"tree"}) /\ Cardinality({"tree"}) = 1
  BY FS_Singleton
<1>3. /\ IsFiniteSet({"tree"} \cup {"paint"})
      /\ Cardinality({"tree"} \cup {"paint"}) = 2
  BY <1>2, FS_AddElement
<1> DEFINE A == {"tree"} \cup {"paint"}
<1>4. "rest" \notin A
  OBVIOUS
<1> HIDE DEF A
<1>5. IsFiniteSet(A \cup {"rest"}) /\ Cardinality(A \cup {"rest"}) = 3
  BY <1>3, <1>4, FS_AddElement DEF A
<1> QED BY <1>1, <1>5 DEF A

\* A single patch.
LEMMA OnePatch ==
  ASSUME NEW q
  PROVE  /\ Len(<<q>>) \in Nat \ {0} /\ Len(<<q>>) <= Cardinality(Regions)
         /\ ToSet(<<q>>) = {q}
<1>1. Len(<<q>>) = 1 /\ ToSet(<<q>>) = {q}
  BY DEF ToSet
<1> QED BY <1>1, RegionCount

FastPatch == [p \in {"utci"} |-> [t \in ChangedTimes |-> [r \in Regions |->
                Utci(store["tmrt"][t][r], Inputs(0), t)]]]
Suffix    == {t \in Times : \E c \in ChangedTimes : c <= t}

\* The route a step takes, under its guard, with the patches it solves.
TakesFast  == /\ MetRouted /\ FastPath /\ job'.route = "fast"
              /\ ToSet(job'.patches) = {FastPatch}
TakesWarm  == /\ MetRouted /\ WarmPath /\ job'.route = "warm"
              /\ ToSet(job'.patches) = {Patch(Inputs(0), Suffix, Regions)}
TakesChain == /\ ChainRouted /\ job'.route = "chain"
              /\ ToSet(job'.patches) = {Patch(Inputs(job.fold), Times, Regions)}
TakesFull  == /\ ~ChainRouted /\ job'.route = "full"
              /\ ToSet(job'.patches) = {Patch(Inputs(0), Times, Regions)}
TakesLocal == /\ ~ChainRouted /\ ~job.full /\ Dirty # Regions /\ job'.route = "local"
              /\ ToSet(job'.patches) = {Patch(Inputs(0), Times, {r}) : r \in Dirty}

\* Each route leaves at least one patch.
LEMMA SolveSteps ==
  ASSUME Shapes, SolveFast \/ SolveWarm \/ SolveChain \/ SolveFull \/ SolveLocal
  PROVE  /\ Advances /\ pc = "dispatch" /\ pc' = "rename" /\ job'.renamed = job.renamed
         /\ Watermarks(wk') = Watermarks(wk) /\ UNCHANGED disk
         /\ Len(job'.patches) \in Nat \ {0} /\ Len(job'.patches) <= Cardinality(Regions)
         /\ TakesFast \/ TakesWarm \/ TakesChain \/ TakesFull \/ TakesLocal
<1>1. CASE SolveFast
  <2>1. Solved("fast", <<FastPatch>>, wk.capture) /\ pc = "dispatch" /\ MetRouted /\ FastPath
    BY <1>1 DEF SolveFast, FastPatch
  <2>2. Advances /\ Solves("fast", <<FastPatch>>)
    BY <2>1, SolvedFields
  <2> QED BY <2>1, <2>2, OnePatch DEF Solves, TakesFast
<1>2. CASE SolveWarm
  <2> DEFINE q == Patch(Inputs(0), Suffix, Regions)
  <2>1. Solved("warm", <<q>>, wk.capture) /\ pc = "dispatch" /\ MetRouted /\ WarmPath
    BY <1>2 DEF SolveWarm, Suffix
  <2> HIDE DEF q
  <2>2. Advances /\ Solves("warm", <<q>>)
    BY <2>1, SolvedFields
  <2> QED BY <2>1, <2>2, OnePatch DEF Solves, TakesWarm, q
<1>3. CASE SolveChain
  <2> DEFINE q == Patch(Inputs(job.fold), Times, Regions)
  <2>1. Solved("chain", <<q>>, wk.capture) /\ pc = "dispatch" /\ ChainRouted
    BY <1>3 DEF SolveChain
  <2> HIDE DEF q
  <2>2. Advances /\ Solves("chain", <<q>>)
    BY <2>1, SolvedFields
  <2> QED BY <2>1, <2>2, OnePatch DEF Solves, TakesChain, q
<1>4. CASE SolveFull
  <2> DEFINE q == Patch(Inputs(0), Times, Regions)
  <2>1. Solved("full", <<q>>, <<job.id>>) /\ pc = "dispatch" /\ ~ChainRouted
    BY <1>4 DEF SolveFull, WorkerRoute
  <2> HIDE DEF q
  <2>2. Advances /\ Solves("full", <<q>>)
    BY <2>1, SolvedFields
  <2> QED BY <2>1, <2>2, OnePatch DEF Solves, TakesFull, q
<1>5. CASE SolveLocal
  <2> DEFINE S == {Patch(Inputs(0), Times, {r}) : r \in Dirty}
  <2>1. /\ Solved("local", SetToSeq(S), Nothing) /\ pc = "dispatch" /\ ~ChainRouted
        /\ ~job.full /\ Dirty # Regions /\ Dirty # {}
    BY <1>5 DEF SolveLocal, WorkerRoute
  <2>2. IsFiniteSet(S) /\ S # {} /\ Cardinality(S) <= Cardinality(Regions)
    <3>1. IsFiniteSet(Dirty) /\ Cardinality(Dirty) <= Cardinality(Regions)
      <4>1. Dirty \subseteq Regions
        BY DEF Dirty, Regions
      <4> QED BY <4>1, RegionCount, FS_Subset
    <3> DEFINE D == Dirty
               f == [r \in D |-> Patch(Inputs(0), Times, {r})]
    <3>2. f \in Surjection(D, S)
      BY DEF Surjection
    <3>3. S # {}
      BY <2>1
    <3> HIDE DEF f, S, D
    <3>4. IsFiniteSet(S) /\ Cardinality(S) <= Cardinality(D)
      BY <3>1, <3>2, FS_Surjection DEF D
    <3>5. Cardinality(S) \in Nat /\ Cardinality(D) \in Nat
      BY <3>1, <3>4, FS_CardinalityType DEF D
    <3> QED BY <3>1, <3>3, <3>4, <3>5, RegionCount DEF D
  <2> HIDE DEF S
  <2>3. Advances /\ Solves("local", SetToSeq(S))
    BY <2>1, SolvedFields
  <2>4. /\ Len(SetToSeq(S)) \in Nat \ {0} /\ Len(SetToSeq(S)) = Cardinality(S)
        /\ ToSet(SetToSeq(S)) = S
    BY <2>2, SetToSeqFacts
  <2> QED BY <2>1, <2>2, <2>3, <2>4 DEF Solves, TakesLocal, S
<1> QED BY <1>1, <1>2, <1>3, <1>4, <1>5

-----------------------------------------------------------------------------
(* The results root.                                                       *)

\* The root is empty at first.
LEMMA RootInit == Init => Root
BY DEF Init, Root, Busy, Solving

\* Every step keeps the root.
LEMMA RootStep ==
  ASSUME Shapes, Ledger, Root, Document, Next
  PROVE  Root'
<1>0. /\ \A d \in disk : d[1] \in jobs \cup lost \/ (pc \in Busy /\ d[1] = job.id)
      /\ \A j \in jobs : \E d \in disk : d[1] = j
      /\ pc \in Busy => \A d \in disk : d[1] = job.id => d \in Results(job.renamed)
      /\ pc \in Busy => job.renamed \in Nat /\ Results(job.renamed) \subseteq disk
      /\ pc = "dispatch" => job.renamed = 0
      /\ pc \in Solving => Len(job.patches) \in Nat \ {0} /\ job.renamed <= Len(job.patches)
      /\ pc = "record" => job.renamed = Len(job.patches)
  BY DEF Root
<1>a. ASSUME pc \in Busy
      PROVE  job.id \notin jobs \cup lost /\ job.id # 0
  <2>1. Submitted \in Nat
    BY SubmittedFacts DEF Ledger
  <2> QED BY <2>1, <1>a DEF Ledger
<1>1. CASE \E b \in Batches : Refuse(b) \/ ExecuteNoop(b)
  <2>1. PICK b \in Batches : Refuse(b) \/ ExecuteNoop(b)
    BY <1>1
  <2>2. pc = "idle" /\ UNCHANGED <<pc, job, disk, jobs, lost>>
    BY <2>1, StageOnly
  <2> QED BY <2>2, <1>0 DEF Root, Busy, Solving
<1>2. ASSUME NEW b \in Batches, Execute(b) PROVE Root'
  <2>1. /\ pc = "idle" /\ pc' = "dispatch" /\ UNCHANGED <<disk, jobs, lost>>
        /\ job'.id = Submitted + 1 /\ job'.renamed = 0
    BY <1>2, ExecuteFields
  <2>2. \A d \in disk : d[1] \in jobs \cup lost
    BY <2>1, <1>0 DEF Busy, Solving
  <2>3. job'.id \notin jobs \cup lost
    <3>1. Submitted \in Nat
      BY SubmittedFacts DEF Ledger
    <3> QED BY <2>1, <3>1 DEF Ledger
  <2>4. Results(job.renamed)' = {}
    BY <2>1 DEF Results
  <2> QED BY <2>1, <2>2, <2>3, <2>4, <1>0 DEF Root, Busy, Solving
<1>3. CASE SolveFast \/ SolveWarm \/ SolveChain \/ SolveFull \/ SolveLocal
  <2>1. /\ pc = "dispatch" /\ pc' = "rename" /\ UNCHANGED <<disk, jobs, lost>>
        /\ job'.id = job.id /\ job'.renamed = job.renamed
        /\ Len(job'.patches) \in Nat \ {0}
    BY <1>3, SolveSteps DEF Advances
  <2>2. job.renamed = 0 /\ Results(job.renamed)' = Results(job.renamed)
    BY <2>1, <1>0 DEF Results
  <2> QED BY <2>1, <2>2, <1>0 DEF Root, Busy, Solving
<1>4. CASE Rename
  <2>1. /\ pc = "rename" /\ pc' = "rename" /\ UNCHANGED <<jobs, lost>>
        /\ job'.id = job.id /\ job'.renamed = job.renamed + 1
        /\ job'.patches = job.patches
        /\ job.renamed < Len(job.patches) /\ disk' = disk \cup Results(job.renamed + 1)
    BY <1>4, RenameFields DEF Advances, Rename
  <2>2. /\ Results(job.renamed)' = Results(job.renamed + 1)
        /\ Results(job.renamed) \subseteq Results(job.renamed + 1)
        /\ \A d \in Results(job.renamed + 1) : d[1] = job.id
    <3>1. job.renamed \in Nat
      BY <2>1, <1>0 DEF Busy, Solving
    <3> QED BY <2>1, <3>1 DEF Results
  <2> QED BY <2>1, <2>2, <1>0 DEF Root, Busy, Solving
<1>5. CASE Published
  <2>1. /\ pc = "rename" /\ pc' = "record" /\ UNCHANGED <<job, disk, jobs, lost>>
        /\ job.renamed = Len(job.patches)
    BY <1>5, PublishedFields DEF Advances, Published
  <2>2. Results(job.renamed)' = Results(job.renamed)
    BY <2>1 DEF Results
  <2> QED BY <2>1, <2>2, <1>0 DEF Root, Busy, Solving
<1>6. CASE Commit
  <2>1. pc = "record" /\ pc' = "idle" /\ jobs' = jobs \cup {job.id} /\ UNCHANGED <<disk, lost>>
    BY <1>6, CommitFields
  <2>2. job.renamed \in Nat \ {0} /\ Results(job.renamed) \subseteq disk
    BY <2>1, <1>0 DEF Busy, Solving
  <2>3. <<job.id, 1>> \in disk
    BY <2>2 DEF Results
  <2>4. \E d \in disk : d[1] = job.id
    BY <2>3
  <2> QED BY <2>1, <2>4, <1>0 DEF Root, Busy, Solving
<1>7. CASE Fail
  <2>1. pc \in Busy /\ pc' = "idle" /\ disk' = Discarded /\ UNCHANGED <<jobs, lost>>
    BY <1>7, FailFields
  <2>2. \A d \in disk : d \in disk' <=> d[1] # job.id
    <3>1. \A d \in Results(job.renamed) : d[1] = job.id
      BY DEF Results
    <3> QED BY <2>1, <3>1, <1>0 DEF Discarded
  <2>3. disk' \subseteq disk
    BY <2>1 DEF Discarded
  <2> QED BY <2>1, <2>2, <2>3, <1>0, <1>a DEF Root, Busy, Solving
<1>8. CASE SaveMemo \/ SaveDocument
  <2>1. pc \notin Busy /\ pc' \notin Busy /\ UNCHANGED <<job, disk, jobs, lost>>
    BY <1>8, SaveFields
  <2> QED BY <2>1, <1>0 DEF Root, Busy, Solving
<1>9. CASE EndProcess
  <2>1. /\ pc' = "down" /\ jobs' = {} /\ lost' = lost \cup jobs \cup ({job.id} \ {0})
        /\ UNCHANGED disk
    BY <1>9, EndFields
  <2> QED BY <2>1, <1>0, <1>a DEF Root, Busy, Solving
<1>10. CASE Restore
  <2> DEFINE J == dir.doc[1].jobs
  <2>1. /\ pc = "down" /\ pc' = "idle" /\ jobs' = J /\ lost' = lost \ J
        /\ UNCHANGED disk /\ Sound(dir.doc[1], jobs \cup lost, disk)
    BY <1>10, RestoreFields
  <2>2. J \subseteq jobs \cup lost /\ \A j \in J : \E x \in disk : x[1] = j
    BY <2>1 DEF Sound
  <2> HIDE DEF J
  <2>3. jobs = {}
    BY <2>1 DEF Ledger
  <2> QED BY <2>1, <2>2, <2>3, <1>0 DEF Root, Busy, Solving
<1>11. CASE RestoreRefused
  BY <1>11, RefusedFields DEF Root, Busy, Solving
<1> QED BY <1>1, <1>2, <1>3, <1>4, <1>5, <1>6, <1>7, <1>8, <1>9, <1>10, <1>11 DEF Next

-----------------------------------------------------------------------------
(* The tree layer's log.                                                   *)

\* The tree of a log.
LEMMA TreeFacts ==
  ASSUME layer \in Seq(Trees \X Trees)
  PROVE  Tree = TreeOf(layer) /\ TreeOf(layer) \in Trees
<1>1. Tree = TreeOf(layer)
  BY DEF Tree, TreeOf, Last
<1>2. CASE layer = <<>>
  BY <1>1, <1>2 DEF TreeOf, Trees
<1>3. CASE layer # <<>>
  <2>1. Len(layer) \in 1 .. Len(layer)
    BY <1>3
  <2>2. layer[Len(layer)] \in Trees \X Trees
    BY <2>1
  <2> QED BY <1>1, <1>3, <2>2 DEF TreeOf
<1> QED BY <1>1, <1>2, <1>3

\* Appending an edit that starts or ends at the tree the log was consumed at.
LEMMA AppendEdit ==
  ASSUME NEW T, NEW l \in Seq(T \X T), NEW a \in T, NEW b \in T, NEW acked, NEW tree,
         Consumed(l, acked, tree)
  PROVE  /\ Append(l, <<a, b>>) \in Seq(T \X T) /\ TreeOf(Append(l, <<a, b>>)) = b
         /\ a = tree => Consumed(Append(l, <<a, b>>), acked, tree)
         /\ acked # Len(l) => Consumed(Append(l, <<a, b>>), acked, tree)
<1> DEFINE e == <<a, b>>
           m == Append(l, e)
<1>1. e \in T \X T /\ e[1] = a /\ e[2] = b
  OBVIOUS
<1> HIDE DEF e
<1>2. /\ m \in Seq(T \X T) /\ Len(m) = Len(l) + 1 /\ m[Len(l) + 1] = e
      /\ \A i \in 1 .. Len(l) : m[i] = l[i]
  BY <1>1
<1>3. Len(l) \in Nat /\ m # <<>>
  <2>1. Len(l) \in Nat /\ Len(<<>>) = 0
    OBVIOUS
  <2> HIDE DEF m
  <2> QED BY <1>2, <2>1
<1> HIDE DEF m
<1>4. TreeOf(m) = b
  BY <1>1, <1>2, <1>3 DEF TreeOf
<1>5. acked \in 0 .. Len(l) /\ (acked < Len(l) => l[acked + 1][1] = tree)
  BY DEF Consumed
<1>6. ASSUME a = tree \/ acked # Len(l) PROVE m[acked + 1][1] = tree
  <2>1. CASE acked < Len(l)
    BY <2>1, <1>2, <1>3, <1>5
  <2>2. CASE acked = Len(l)
    BY <2>2, <1>1, <1>2, <1>3, <1>6
  <2> QED BY <2>1, <2>2, <1>3, <1>5
<1>7. a = tree \/ acked # Len(l) => Consumed(m, acked, tree)
  BY <1>2, <1>3, <1>5, <1>6 DEF Consumed
<1> QED BY <1>2, <1>4, <1>7 DEF m, e

\* The log is empty at first.
LEMMA ReplayedInit == Init => Replayed
<1> SUFFICES ASSUME Init PROVE Replayed
  OBVIOUS
<1>1. layer = <<>> /\ wk.acked = 0 /\ scene.tree = 0 /\ pc = "idle"
  BY DEF Init, FreshWorker, Baseline
<1>2. <<>> \in Seq(Trees \X Trees) /\ Len(<<>>) = 0
  OBVIOUS
<1> QED BY <1>1, <1>2 DEF Replayed, Consumed, TreeOf, Busy, Solving

\* The acknowledged part of the log when a worker's state is published.
LEMMA AckedField ==
  ASSUME NEW w, NEW a, NEW f, NEW l, NEW p,
         Watermarks(w) = [acked |-> a, forcing |-> f, land |-> l, params |-> p]
  PROVE  w.acked = a /\ w.pforcing = f /\ w.pland = l /\ w.pparams = p
BY DEF Watermarks

\* Equal watermarks, field by field.
LEMMA SameMarks ==
  ASSUME NEW w, NEW v, Watermarks(w) = Watermarks(v)
  PROVE  /\ w.acked = v.acked /\ w.pforcing = v.pforcing
         /\ w.pland = v.pland /\ w.pparams = v.pparams
BY DEF Watermarks

\* Every step keeps the log.
LEMMA ReplayedStep ==
  ASSUME Shapes, Replayed, Overlays, Outcome, Document, Next
  PROVE  Replayed'
<1>0. layer \in Seq(Trees \X Trees) /\ Tree = TreeOf(layer) /\ TreeOf(layer) \in Trees
  BY TreeFacts DEF Replayed
<1>1. CASE \E b \in Batches : Refuse(b) \/ ExecuteNoop(b)
  <2>1. PICK b \in Batches : Refuse(b) \/ ExecuteNoop(b)
    BY <1>1
  <2>2. pc = "idle" /\ UNCHANGED <<pc, layer>> /\ Watermarks(wk') = Watermarks(wk)
    BY <2>1, StageOnly
  <2>3. wk'.acked = wk.acked
    BY <2>2, SameMarks
  <2>4. scene'.tree = scene.tree
    BY <2>1 DEF Refuse, ExecuteNoop, Asked, Over, ValueEqual
  <2> QED BY <2>2, <2>3, <2>4 DEF Replayed, Busy, Solving
<1>2. ASSUME NEW b \in Batches, Execute(b) PROVE Replayed'
  <2>1. /\ pc = "idle" /\ pc' = "dispatch" /\ UNCHANGED scene /\ job'.batch = b
        /\ job'.tree = <<Tree, b.tree>> /\ job'.marks = Watermarks(wk)
    BY <1>2, ExecuteFields
  <2>2. /\ Consumed(layer, wk.acked, scene.tree) /\ TreeOf(layer) = scene.tree
        /\ job'.marks.acked = wk.acked
    BY <2>1 DEF Replayed, Busy, Solving, Watermarks
  <2>3. CASE b.tree = Keep
    <3>1. layer' = layer
      BY <1>2, <2>3 DEF Execute
    <3> QED BY <2>1, <2>2, <2>3, <3>1, <1>0 DEF Replayed, Busy
  <2>4. CASE b.tree # Keep
    <3>1. layer' = Append(layer, <<scene.tree, b.tree>>) /\ b.tree # scene.tree
      BY <1>2, <2>2, <2>4, <1>0 DEF Execute, Executable
    <3>2. b.tree \in Trees /\ scene.tree \in Trees
      BY <2>2, <1>0 DEF Trees
    <3>3. /\ layer' \in Seq(Trees \X Trees) /\ TreeOf(layer') = b.tree
          /\ Consumed(layer', wk.acked, scene.tree) /\ wk.acked < Len(layer')
      <4> DEFINE o == scene.tree
                 n == b.tree
                 k == wk.acked
      <4>1. o \in Trees /\ n \in Trees /\ Consumed(layer, k, o)
        BY <3>2, <2>2
      <4> HIDE DEF o, n, k
      <4>2. /\ Append(layer, <<o, n>>) \in Seq(Trees \X Trees)
            /\ TreeOf(Append(layer, <<o, n>>)) = n
            /\ Consumed(Append(layer, <<o, n>>), k, o)
        BY <4>1, <1>0, AppendEdit
      <4>3. k < Len(Append(layer, <<o, n>>))
        BY <4>1, <1>0 DEF Consumed
      <4> QED BY <4>2, <4>3, <3>1 DEF o, n, k
    <3>4. job'.tree = <<scene'.tree, b.tree>>
      BY <2>1, <2>2, <1>0
    <3> QED BY <2>1, <2>2, <2>4, <3>1, <3>3, <3>4 DEF Replayed, Busy
  <2> QED BY <2>3, <2>4
<1>3. CASE Progress
  <2>1. /\ pc \in Busy /\ pc' \in Solving /\ UNCHANGED <<layer, scene>>
        /\ job'.batch = job.batch /\ job'.tree = job.tree /\ job'.marks = job.marks
    BY <1>3, ProgressAdvances DEF Advances
  <2> QED BY <2>1 DEF Replayed, Busy
<1>4. CASE Commit
  <2>1. /\ pc = "record" /\ pc' = "idle" /\ UNCHANGED layer
        /\ scene' = Asked(scene, job.batch) /\ job.route \in Routes
    BY <1>4, CommitFields DEF Outcome, Solving
  <2>2. /\ TreeOf(layer) = (IF job.batch.tree = Keep THEN scene.tree ELSE job.batch.tree)
        /\ job.marks.acked \in 0 .. Len(layer)
    BY <2>1 DEF Replayed, Consumed, Busy, Solving
  <2>3. scene'.tree = TreeOf(layer)
    BY <2>1, <2>2 DEF Asked, Over
  <2>4. Consumed(layer, wk'.acked, TreeOf(layer))
    <3>1. Len(layer) \in Nat
      BY <1>0
    <3>2. CASE job.route \in {"full", "local"}
      <4>1. ByWorker /\ pc \in Busy
        BY <2>1, <3>2 DEF ByWorker, Busy, Solving
      <4>2. Watermarks(wk) = [acked |-> Len(layer), forcing |-> wk.forcing,
                              land |-> wk.land, params |-> wk.params]
        BY <4>1 DEF Overlays
      <4>3. Watermarks(wk') = Watermarks(wk)
        BY <1>4, <3>2, CommitFields
      <4>4. wk'.acked = Len(layer)
        BY <4>2, <4>3, AckedField
      <4> QED BY <4>4, <3>1 DEF Consumed
    <3>3. CASE job.route \in {"fast", "warm", "chain"}
      <4>1. ~ByWorker /\ pc \in Busy
        BY <2>1, <3>3 DEF ByWorker, Busy, Solving
      <4>2. Watermarks(wk) = job.marks
        BY <4>1 DEF Overlays
      <4>3. wk.acked = job.marks.acked
        BY <4>2 DEF Watermarks
      <4>4. Watermarks(wk') =
              [acked |-> IF TreePending THEN Len(layer) ELSE job.marks.acked,
               forcing |-> wk.forcing, land |-> wk.land, params |-> wk.params]
        BY <1>4, <3>3, CommitFields
      <4>5. wk'.acked = IF TreePending THEN Len(layer) ELSE job.marks.acked
        BY <4>4, AckedField
      <4> QED BY <4>3, <4>5, <3>1, <2>2, <1>0 DEF Consumed, TreePending
    <3> QED BY <2>1, <3>2, <3>3 DEF Routes
  <2> QED BY <2>1, <2>3, <2>4, <1>0 DEF Replayed, Busy, Solving
<1>5. CASE Fail
  <2>1. /\ pc \in Busy /\ pc' = "idle" /\ UNCHANGED scene
        /\ Watermarks(wk') = [acked |-> job.marks.acked, forcing |-> job.marks.forcing,
                              land |-> job.marks.land, params |-> job.marks.params]
        /\ layer' = (IF job.batch.tree = Keep THEN layer
                     ELSE Append(layer, <<job.tree[2], job.tree[1]>>))
    BY <1>5, FailFields
  <2>2. wk'.acked = job.marks.acked
    BY <2>1, AckedField
  <2>3. CASE job.batch.tree = Keep
    BY <2>1, <2>2, <2>3 DEF Replayed, Busy, Solving
  <2>4. CASE job.batch.tree # Keep
    <3>1. /\ job.tree = <<scene.tree, job.batch.tree>>
          /\ Consumed(layer, job.marks.acked, scene.tree) /\ job.marks.acked < Len(layer)
      BY <2>1, <2>4 DEF Replayed
    <3>2. job.tree[1] = scene.tree /\ job.tree[2] = job.batch.tree
      BY <3>1
    <3>3. job.batch.tree \in Trees
      BY <2>1 DEF Shapes, Trees
    <3>4. scene.tree \in Trees
      <4>1. job.marks.acked + 1 \in 1 .. Len(layer)
        BY <3>1, <1>0 DEF Consumed
      <4>2. layer[job.marks.acked + 1] \in Trees \X Trees
        BY <4>1, <1>0
      <4> QED BY <3>1, <4>2 DEF Consumed
    <3>5. layer' = Append(layer, <<job.batch.tree, scene.tree>>)
      BY <2>1, <2>4, <3>2
    <3>6. /\ layer' \in Seq(Trees \X Trees) /\ TreeOf(layer') = scene.tree
          /\ Consumed(layer', job.marks.acked, scene.tree)
      <4> DEFINE o == scene.tree
                 n == job.batch.tree
                 k == job.marks.acked
      <4>1. o \in Trees /\ n \in Trees /\ Consumed(layer, k, o) /\ k # Len(layer)
        BY <3>1, <3>3, <3>4, <1>0 DEF Consumed
      <4> HIDE DEF o, n, k
      <4>2. /\ Append(layer, <<n, o>>) \in Seq(Trees \X Trees)
            /\ TreeOf(Append(layer, <<n, o>>)) = o
            /\ Consumed(Append(layer, <<n, o>>), k, o)
        BY <4>1, <1>0, AppendEdit
      <4> QED BY <4>2, <3>5 DEF o, n, k
    <3> QED BY <2>1, <2>2, <3>6 DEF Replayed, Busy, Solving
  <2> QED BY <2>3, <2>4
<1>6. CASE SaveMemo \/ SaveDocument
  <2>1. pc \notin Busy /\ pc' \notin Busy /\ UNCHANGED <<layer, wk, scene>>
    BY <1>6, SaveFields
  <2> QED BY <2>1 DEF Replayed
<1>7. CASE EndProcess
  <2>1. layer' = <<>> /\ wk'.acked = 0 /\ scene'.tree = 0 /\ pc' = "down"
    BY <1>7, EndFields DEF FreshWorker, Baseline
  <2>2. <<>> \in Seq(Trees \X Trees) /\ Len(<<>>) = 0
    OBVIOUS
  <2> QED BY <2>1, <2>2 DEF Replayed, Consumed, TreeOf, Busy, Solving
<1>8. CASE Restore
  <2> DEFINE d == dir.doc[1]
  <2>1. /\ pc' = "idle" /\ layer' = d.layer /\ scene' = d.scene /\ Sound(d, jobs \cup lost, disk)
        /\ Watermarks(wk') = [acked |-> d.acked, forcing |-> ex'.forcing,
                              land |-> ex'.land, params |-> ex'.params]
    BY <1>8, RestoreFields
  <2> HIDE DEF d
  <2>2. wk'.acked = d.acked
    BY <2>1, AckedField
  <2> QED BY <2>1, <2>2 DEF Replayed, Sound, Busy, Solving
<1>9. CASE RestoreRefused
  BY <1>9, RefusedFields DEF Replayed
<1> QED BY <1>1, <1>2, <1>3, <1>4, <1>5, <1>6, <1>7, <1>8, <1>9 DEF Next, Progress

-----------------------------------------------------------------------------
(* The overlays on the executor and on the worker.                         *)

\* Nothing is staged at first.
LEMMA OverlaysInit == Init => Overlays
BY DEF Init, Overlays, Paired, FreshWorker, FreshExecutor, Busy, Solving

\* Between batches the watermarks say that the worker and the executor are paired.
LEMMA PairedMarks ==
  ASSUME NEW a, Watermarks(wk') = [acked |-> a, forcing |-> ex'.forcing,
                                   land |-> ex'.land, params |-> ex'.params]
  PROVE  Paired'
BY AckedField DEF Paired

\* Every step keeps the overlays.
LEMMA OverlaysStep ==
  ASSUME Shapes, Overlays, Outcome, Document, Next
  PROVE  Overlays'
<1>1. CASE \E b \in Batches : Refuse(b) \/ ExecuteNoop(b)
  <2>1. PICK b \in Batches : Refuse(b) \/ ExecuteNoop(b)
    BY <1>1
  <2>2. pc = "idle" /\ UNCHANGED <<pc, ex>> /\ Watermarks(wk') = Watermarks(wk)
    BY <2>1, StageOnly
  <2>3. wk'.pforcing = wk.pforcing /\ wk'.pland = wk.pland /\ wk'.pparams = wk.pparams
    BY <2>2, SameMarks
  <2> QED BY <2>2, <2>3 DEF Overlays, Paired, Busy, Solving
<1>2. ASSUME NEW b \in Batches, Execute(b) PROVE Overlays'
  <2>1. /\ pc = "idle" /\ pc' = "dispatch" /\ job'.batch = b /\ SameOverlays
        /\ job'.marks = Watermarks(wk) /\ job'.fold = MassingFold(b)
        /\ wk' = StagedUpTo(b, 3)
    BY <1>2, ExecuteFields
  <2>2. /\ job'.marks.forcing = ex'.forcing /\ job'.marks.land = ex'.land
        /\ job'.marks.params = ex'.params
    BY <2>1 DEF Overlays, Paired, Busy, Solving, SameOverlays, Watermarks
  <2>3. /\ Watermarks(wk') = job'.marks
        /\ wk'.forcing = EffectiveForcing(b) /\ wk'.land = EffectiveLand(b)
        /\ wk'.params = EffectiveParams(b)
    BY <2>1, AllStaged DEF Shapes
  <2>4. /\ EffectiveForcing(job.batch)' = EffectiveForcing(b)
        /\ EffectiveLand(job.batch)' = EffectiveLand(b)
        /\ EffectiveParams(job.batch)' = EffectiveParams(b)
        /\ MassingFold(job.batch)' = MassingFold(b)
    BY <2>1 DEF SameOverlays, EffectiveForcing, EffectiveLand, EffectiveParams, MassingFold
  <2>5. ~ByWorker' /\ pc' \in Busy
    BY <2>1 DEF ByWorker, Busy
  <2> QED BY <2>1, <2>2, <2>3, <2>4, <2>5 DEF Overlays
<1>3. CASE Progress
  <2>1. /\ pc \in Busy /\ pc' \in Solving /\ pc' \in Busy /\ UNCHANGED <<ex, layer>>
        /\ job'.batch = job.batch /\ job'.marks = job.marks /\ job'.fold = job.fold
        /\ wk'.forcing = wk.forcing /\ wk'.land = wk.land /\ wk'.params = wk.params
    BY <1>3, ProgressAdvances DEF Advances, Busy
  <2>2. /\ EffectiveForcing(job.batch)' = EffectiveForcing(job.batch)
        /\ EffectiveLand(job.batch)' = EffectiveLand(job.batch)
        /\ EffectiveParams(job.batch)' = EffectiveParams(job.batch)
        /\ MassingFold(job.batch)' = MassingFold(job.batch)
    BY <2>1 DEF EffectiveForcing, EffectiveLand, EffectiveParams, MassingFold
  <2>3. /\ ~ByWorker' => Watermarks(wk)' = job'.marks
        /\ ByWorker' => Watermarks(wk)' = [acked |-> Len(layer'), forcing |-> wk'.forcing,
                                           land |-> wk'.land, params |-> wk'.params]
    <3>1. CASE SolveFast \/ SolveWarm \/ SolveChain \/ SolveFull \/ SolveLocal
      <4>1. pc = "dispatch" /\ pc' = "rename" /\ Watermarks(wk') = Watermarks(wk)
        BY <3>1, SolveSteps
      <4>2. ~ByWorker /\ ~ByWorker'
        BY <4>1 DEF ByWorker
      <4> QED BY <4>1, <4>2, <2>1 DEF Overlays
    <3>2. CASE Rename
      <4>1. pc = "rename" /\ UNCHANGED <<pc, wk>>
        BY <3>2, RenameFields DEF Rename
      <4>2. ~ByWorker /\ ~ByWorker'
        BY <4>1 DEF ByWorker
      <4> QED BY <4>1, <4>2, <2>1 DEF Overlays
    <3>3. CASE Published
      <4>1. /\ pc = "rename" /\ pc' = "record" /\ UNCHANGED job
            /\ job.route \in {"full", "local"} =>
                 Watermarks(wk') = [acked |-> Len(layer), forcing |-> wk.forcing,
                                    land |-> wk.land, params |-> wk.params]
            /\ job.route \notin {"full", "local"} => Watermarks(wk') = Watermarks(wk)
        BY <3>3, PublishedFields
      <4>2. ~ByWorker /\ (ByWorker' <=> job.route \in {"full", "local"})
        BY <4>1 DEF ByWorker
      <4> QED BY <4>1, <4>2, <2>1 DEF Overlays
    <3> QED BY <1>3, <3>1, <3>2, <3>3 DEF Progress
  <2> QED BY <2>1, <2>2, <2>3 DEF Overlays
<1>4. CASE Commit
  <2>1. /\ pc = "record" /\ pc' = "idle" /\ job.route \in Routes
        /\ ex'.forcing = wk.forcing /\ ex'.land = wk.land /\ ex'.params = wk.params
    BY <1>4, CommitFields DEF Outcome, Solving
  <2>2. CASE job.route \in {"full", "local"}
    <3>1. ByWorker /\ pc \in Busy /\ job.route \notin {"fast", "warm", "chain"}
      BY <2>1, <2>2 DEF ByWorker, Busy, Solving
    <3>2. Watermarks(wk') = [acked |-> Len(layer), forcing |-> ex'.forcing,
                             land |-> ex'.land, params |-> ex'.params]
      BY <1>4, <2>1, <3>1, CommitFields DEF Overlays
    <3>3. Paired'
      BY <3>2, PairedMarks
    <3> QED BY <2>1, <3>3 DEF Overlays, Busy, Solving
  <2>3. CASE job.route \in {"fast", "warm", "chain"}
    <3> DEFINE a == IF TreePending THEN Len(layer) ELSE job.marks.acked
    <3>1. Watermarks(wk') = [acked |-> a, forcing |-> ex'.forcing,
                             land |-> ex'.land, params |-> ex'.params]
      BY <1>4, <2>1, <2>3, CommitFields
    <3> HIDE DEF a
    <3>2. Paired'
      BY <3>1, PairedMarks
    <3> QED BY <2>1, <3>2 DEF Overlays, Busy, Solving
  <2> QED BY <2>1, <2>2, <2>3 DEF Routes
<1>5. CASE Fail
  <2>1. /\ pc \in Busy /\ pc' = "idle" /\ SameOverlays
        /\ Watermarks(wk') = [acked |-> job.marks.acked, forcing |-> job.marks.forcing,
                              land |-> job.marks.land, params |-> job.marks.params]
    BY <1>5, FailFields
  <2>2. Watermarks(wk') = [acked |-> job.marks.acked, forcing |-> ex'.forcing,
                           land |-> ex'.land, params |-> ex'.params]
    BY <2>1 DEF Overlays, SameOverlays
  <2>3. Paired'
    BY <2>2, PairedMarks
  <2> QED BY <2>1, <2>3 DEF Overlays, Busy, Solving
<1>6. CASE SaveMemo \/ SaveDocument
  <2>1. pc \notin Busy /\ pc' \notin Busy /\ UNCHANGED <<ex, wk>>
    BY <1>6, SaveFields
  <2> QED BY <2>1 DEF Overlays, Paired
<1>7. CASE EndProcess
  <2>1. ex' = FreshExecutor /\ wk' = FreshWorker /\ pc' = "down"
    BY <1>7, EndFields
  <2> QED BY <2>1 DEF Overlays, Paired, FreshWorker, FreshExecutor, Busy, Solving
<1>8. CASE Restore
  <2>1. /\ pc' = "idle"
        /\ Watermarks(wk') = [acked |-> dir.doc[1].acked, forcing |-> ex'.forcing,
                              land |-> ex'.land, params |-> ex'.params]
    BY <1>8, RestoreFields
  <2>2. Paired'
    BY <2>1, PairedMarks
  <2> QED BY <2>1, <2>2 DEF Overlays, Busy, Solving
<1>9. CASE RestoreRefused
  BY <1>9, RefusedFields DEF Overlays, Paired, Busy, Solving
<1> QED BY <1>1, <1>2, <1>3, <1>4, <1>5, <1>6, <1>7, <1>8, <1>9 DEF Next, Progress

\* A batch is dispatched right after it was staged.
LEMMA StagedStep ==
  ASSUME Shapes, Document, Next
  PROVE  Staged'
<1>1. ASSUME NEW b \in Batches, Execute(b) PROVE Staged'
  <2>1. /\ job'.batch = b /\ job'.full = PromisesFull(b) /\ SameOverlays
        /\ wk' = StagedUpTo(b, 3)
    BY <1>1, ExecuteFields
  <2>2. wk'.stroke = (b.paint # Keep)
    BY <2>1, AllStaged DEF Shapes
  <2>3. ~ValueEqual(b)
    BY <1>1 DEF Execute
  <2>4. ValueEqual(job.batch)' = ValueEqual(b)
    BY <2>1 DEF SameOverlays, ValueEqual, EffectiveForcing, EffectiveLand, EffectiveParams
  <2>5. PromisesFull(job.batch)' = PromisesFull(b)
    BY <2>1 DEF PromisesFull, HasForcing, FastShape, OnlyForcing
  <2> QED BY <2>1, <2>2, <2>3, <2>4, <2>5 DEF Staged
<1>2. ASSUME ~\E b \in Batches : Execute(b) PROVE pc' # "dispatch"
  <2>1. CASE \E b \in Batches : Refuse(b) \/ ExecuteNoop(b)
    BY <2>1, StageOnly
  <2>2. CASE Progress
    BY <2>2, ProgressAdvances DEF Advances, Solving
  <2>3. CASE Commit \/ Fail
    BY <2>3, CommitFields, FailFields
  <2>4. CASE SaveMemo \/ SaveDocument
    BY <2>4, SaveFields
  <2>5. CASE EndProcess
    BY <2>5, EndFields
  <2>6. CASE Restore
    BY <2>6, RestoreFields
  <2>7. CASE RestoreRefused
    BY <2>7, RefusedFields
  <2> QED BY <1>2, <2>1, <2>2, <2>3, <2>4, <2>5, <2>6, <2>7 DEF Next, Progress
<1> QED BY <1>1, <1>2 DEF Staged

-----------------------------------------------------------------------------
(* What the batch in progress asks for.                                    *)

\* What the fold of the batch's overlays over the scenario's depicts.
Target(e, f, l, s, b) ==
  [wind |-> Resolved(f.wind), rad |-> Resolved(f.rad), params |-> Over(b.params, e.params),
   building |-> Over(Over(b.building, e.massing), 0), tree |-> Over(b.tree, s.tree),
   class |-> l.class]

\* A batch asks for the fold of its overlays over the executor's.
LEMMA AskedIsTarget ==
  ASSUME NEW b, Accumulated(ex, scene)
  PROVE  Asked(scene, b) = Target(ex, EffectiveForcing(b), EffectiveLand(b), scene, b)
<1>1. /\ scene.wind = Resolved(ex.forcing.wind) /\ scene.rad = Resolved(ex.forcing.rad)
      /\ scene.params = ex.params /\ scene.building = Over(ex.massing, 0)
      /\ scene.class = ex.land.class
  BY DEF Accumulated
<1>2. /\ Resolved(EffectiveForcing(b).wind) = [t \in Times |-> Lookup(b.wind, t, scene.wind[t])]
      /\ Resolved(EffectiveForcing(b).rad) = [t \in Times |-> Lookup(b.rad, t, scene.rad[t])]
  BY <1>1, ResolvedFold DEF EffectiveForcing
<1>3. Over(b.params, scene.params) = Over(b.params, ex.params)
  BY <1>1
<1>4. Over(b.building, scene.building) = Over(Over(b.building, ex.massing), 0)
  BY <1>1 DEF Over
<1>5. Over(b.paint, scene.class) = EffectiveLand(b).class
  BY <1>1 DEF Over, EffectiveLand
<1> QED BY <1>2, <1>3, <1>4, <1>5 DEF Asked, Target

\* Committing what was staged keeps the scenario accumulated.
LEMMA CommitAccumulates ==
  ASSUME NEW e, NEW b, Accumulated(ex, scene), e.forcing = EffectiveForcing(b),
         e.land = EffectiveLand(b), e.params = EffectiveParams(b),
         e.massing = MassingFold(b)
  PROVE  Accumulated(e, Asked(scene, b))
<1>1. Asked(scene, b) = Target(ex, e.forcing, e.land, scene, b)
  BY AskedIsTarget
<1>2. e.land.painted \in BOOLEAN /\ (~e.land.painted => e.land.class = 0)
  <2>1. CASE b.paint = Keep
    BY <2>1 DEF EffectiveLand, Accumulated
  <2>2. CASE b.paint # Keep
    BY <2>2 DEF EffectiveLand
  <2> QED BY <2>1, <2>2
<1>3. /\ e.params = Over(b.params, ex.params)
      /\ Over(e.massing, 0) = Over(Over(b.building, ex.massing), 0)
  BY DEF EffectiveParams, MassingFold
<1>4. Target(ex, e.forcing, e.land, scene, b).tree = Over(b.tree, scene.tree)
  BY DEF Target
<1> QED BY <1>1, <1>2, <1>3, <1>4 DEF Accumulated, Target

\* A batch that folds value-equal to the scenario asks for nothing new.
LEMMA NoopAsksNothing ==
  ASSUME NEW b, Accumulated(ex, scene), ex.memo = ex.land.class, ValueEqual(b)
  PROVE  Asked(scene, b) = scene
<1>1. /\ b.tree = Keep /\ b.building = Keep /\ EffectiveForcing(b) = ex.forcing
      /\ EffectiveLand(b).class = ex.land.class /\ EffectiveParams(b) = ex.params
  BY DEF ValueEqual
<1>2. Asked(scene, b) = Target(ex, ex.forcing, EffectiveLand(b), scene, b)
  BY <1>1, AskedIsTarget
<1>3. /\ Over(b.params, ex.params) = ex.params /\ Over(b.building, ex.massing) = ex.massing
      /\ Over(b.tree, scene.tree) = scene.tree
  BY <1>1 DEF EffectiveParams, Over
<1> QED BY <1>1, <1>2, <1>3 DEF Target, Accumulated

\* The worker's inputs are what the batch asks for, on the chain with the
\* accumulated buildings and elsewhere without any.
LEMMA InputsWanted ==
  ASSUME Replayed, Overlays, Depicted, pc \in Busy
  PROVE  /\ job.fold # Keep => Inputs(job.fold) = Wanted
         /\ job.fold = Keep => Inputs(0) = Wanted
         /\ Inputs(0).wind = Wanted.wind /\ Inputs(0).rad = Wanted.rad
<1> DEFINE b == job.batch
<1>1. /\ wk.forcing = EffectiveForcing(b) /\ wk.land = EffectiveLand(b)
      /\ wk.params = EffectiveParams(b) /\ job.fold = MassingFold(b)
  BY DEF Overlays
<1>2. Wanted = Target(ex, wk.forcing, wk.land, scene, b)
  BY <1>1, AskedIsTarget DEF Wanted, Depicted
<1>3. Tree = Over(b.tree, scene.tree)
  <2>1. Tree = TreeOf(layer)
    BY TreeFacts DEF Replayed
  <2> QED BY <2>1 DEF Replayed, Over
<1>4. wk.params = Over(b.params, ex.params) /\ job.fold = Over(b.building, ex.massing)
  BY <1>1 DEF EffectiveParams, MassingFold
<1>5. \A g : g = Over(job.fold, 0) => Inputs(g) = Wanted
  BY <1>2, <1>3, <1>4 DEF Inputs, Target
<1>6. Inputs(0).wind = Wanted.wind /\ Inputs(0).rad = Wanted.rad
  BY <1>2 DEF Inputs, Target
<1>7. job.fold # Keep => Over(job.fold, 0) = job.fold
  BY DEF Over
<1>8. job.fold = Keep => Over(job.fold, 0) = 0
  BY DEF Over
<1> QED BY <1>5, <1>6, <1>7, <1>8

\* Outside the changed steps the batch asks for no other forcing.
LEMMA UnchangedTimes ==
  ASSUME Replayed, Overlays, Depicted, pc \in Busy, NEW t \in Times, t \notin ChangedTimes
  PROVE  Wanted.wind[t] = scene.wind[t] /\ Wanted.rad[t] = scene.rad[t]
<1>1. Inputs(0).wind = Wanted.wind /\ Inputs(0).rad = Wanted.rad
  BY InputsWanted
<1>2. scene.wind = Resolved(ex.forcing.wind) /\ scene.rad = Resolved(ex.forcing.rad)
  BY DEF Depicted, Accumulated
<1> QED BY <1>1, <1>2 DEF ChangedTimes

\* A batch of forcing alone asks for nothing else.
LEMMA OnlyForcingWanted ==
  ASSUME OnlyForcing(job.batch)
  PROVE  /\ Wanted.params = scene.params /\ Wanted.building = scene.building
         /\ Wanted.tree = scene.tree /\ Wanted.class = scene.class
         /\ job.batch.params = Keep /\ job.batch.paint = Keep
         /\ job.batch.tree = Keep /\ job.batch.building = Keep
<1>1. /\ job.batch.params = Keep /\ job.batch.paint = Keep
      /\ job.batch.tree = Keep /\ job.batch.building = Keep
  BY DEF OnlyForcing
<1> QED BY <1>1 DEF Wanted, Asked, Over

\* Without radiation in the batch no step's radiation changes.
LEMMA NoRadiationWanted ==
  ASSUME job.batch.rad = Nothing, Accumulated(ex, scene)
  PROVE  Wanted.rad = scene.rad
<1>1. scene.rad = [t \in Times |-> scene.rad[t]]
  BY DEF Accumulated, Resolved
<1>2. Wanted.rad = [t \in Times |-> Lookup(job.batch.rad, t, scene.rad[t])]
  BY DEF Wanted, Asked
<1>3. \A t : Lookup(job.batch.rad, t, scene.rad[t]) = scene.rad[t]
  BY DEF Lookup, Nothing
<1> QED BY <1>1, <1>2, <1>3

\* Radiation up to t, the parameters and what the region reads determine a plane.
LEMMA PlaneReads ==
  ASSUME NEW s, NEW v, NEW t \in Times, NEW r \in Regions,
         \A i \in 0 .. t : s.rad[i] = v.rad[i],
         s.params = v.params, s.building = v.building,
         r = "tree" => s.tree = v.tree, r = "paint" => s.class = v.class
  PROVE  /\ Tmrt(s, t, r) = Tmrt(v, t, r)
         /\ Plane(s, "tmrt", t, r) = Plane(v, "tmrt", t, r)
         /\ s.wind[t] = v.wind[t] => \A p \in Products : Plane(s, p, t, r) = Plane(v, p, t, r)
<1>1. [i \in 0 .. t |-> s.rad[i]] = [i \in 0 .. t |-> v.rad[i]]
  OBVIOUS
<1>2. /\ (IF r = "tree" THEN s.tree ELSE 0) = (IF r = "tree" THEN v.tree ELSE 0)
      /\ (IF r = "paint" THEN s.class ELSE 0) = (IF r = "paint" THEN v.class ELSE 0)
  OBVIOUS
<1>3. Tmrt(s, t, r) = Tmrt(v, t, r)
  BY <1>1, <1>2 DEF Tmrt
<1> QED BY <1>3 DEF Plane, Utci

-----------------------------------------------------------------------------
(* What each route writes.                                                 *)

\* A patch carries its steps and regions, and their planes.
LEMMA PatchFacts ==
  ASSUME NEW s, NEW T, NEW R, NEW p, NEW t, NEW r
  PROVE  /\ Carries(Patch(s, T, R), p, t, r) <=> p \in Requested /\ t \in T /\ r \in R
         /\ Carries(Patch(s, T, R), p, t, r) => Patch(s, T, R)[p][t][r] = Plane(s, p, t, r)
BY DEF Carries, Patch, Requested

\* The fast patch carries the comfort product of the changed steps.
LEMMA FastPatchFacts ==
  ASSUME NEW p, NEW t, NEW r
  PROVE  /\ Carries(FastPatch, p, t, r) <=>
              p = "utci" /\ t \in ChangedTimes /\ r \in Regions
         /\ Carries(FastPatch, p, t, r) =>
              FastPatch[p][t][r] = Utci(store["tmrt"][t][r], Inputs(0), t)
BY DEF Carries, FastPatch

\* A cell of the fast patch is behind only where the radiation it read is.
LEMMA FastLeft ==
  ASSUME NEW p \in Products, NEW t \in Times, NEW r \in Regions,
         <<p, t, r>> \notin Left({FastPatch}, "fast"), Carries(FastPatch, p, t, r)
  PROVE  <<"tmrt", t, r>> \notin behind
<1> DEFINE c == <<p, t, r>>
<1>1. c \in Products \X Times \X Regions /\ c[1] = p /\ c[2] = t /\ c[3] = r
  OBVIOUS
<1>2. Carried({FastPatch}, c[1], c[2], c[3])
  BY <1>1 DEF Carried
<1> HIDE DEF c
<1> QED BY <1>1, <1>2 DEF Left, c

\* Where a solve writes no plane of a product and leaves none behind, it writes no
\* plane at all; and what was behind before is left behind until it is written.
LEMMA SolveLeft ==
  ASSUME NEW Q, NEW route, NEW p \in Products, NEW t \in Times, NEW r \in Regions,
         <<p, t, r>> \notin Left(Q, route), \A q \in Q : ~Carries(q, p, t, r)
  PROVE  /\ <<p, t, r>> \notin behind
         /\ route # "fast" => \A q \in Q : ~Carries(q, "utci", t, r)
<1> DEFINE c == <<p, t, r>>
<1>1. c \in Products \X Times \X Regions /\ c[1] = p /\ c[2] = t /\ c[3] = r
  OBVIOUS
<1>2. ~Carried(Q, c[1], c[2], c[3])
  BY <1>1 DEF Carried
<1> HIDE DEF c
<1>3. c \notin behind /\ (route # "fast" => ~Carried(Q, "utci", c[2], c[3]))
  BY <1>1, <1>2 DEF Left, c
<1> QED BY <1>1, <1>3 DEF Carried, c

\* What the batch leaves behind, by its patches and its route.
LEMMA FallenIsLeft == FallenBehind = Left(ToSet(job.patches), job.route)
BY DEF FallenBehind, Left, Written, Carried

\* Planes of the scenario the batch asks for are right wherever they are written.
LEMMA PatchRight ==
  ASSUME NEW s, NEW T, NEW R, NEW away
  PROVE  Right(Patch(s, T, R), s, away)
BY PatchFacts DEF Right

\* The fast route reuses published radiation that the batch does not change.
LEMMA FastRight ==
  ASSUME Replayed, Overlays, Depicted, pc \in Busy, MetRouted, FastPath
  PROVE  /\ Right(FastPatch, Wanted, Left({FastPatch}, "fast"))
         /\ Complete({FastPatch}, Wanted, scene, Left({FastPatch}, "fast"))
<1> DEFINE away == Left({FastPatch}, "fast")
<1>1. OnlyForcing(job.batch) /\ job.batch.rad = Nothing
  BY DEF FastPath, FastShape
<1>2. /\ Wanted.params = scene.params /\ Wanted.building = scene.building
      /\ Wanted.tree = scene.tree /\ Wanted.class = scene.class
  BY <1>1, OnlyForcingWanted
<1>3. Wanted.rad = scene.rad
  BY <1>1, NoRadiationWanted DEF Depicted
<1>4. \A t \in Times, r \in Regions : Tmrt(Wanted, t, r) = Tmrt(scene, t, r)
  <2> SUFFICES ASSUME NEW t \in Times, NEW r \in Regions
               PROVE  Tmrt(Wanted, t, r) = Tmrt(scene, t, r)
    OBVIOUS
  <2> QED BY <1>2, <1>3, PlaneReads
<1>5. Inputs(0).wind = Wanted.wind
  BY InputsWanted
<1>6. Right(FastPatch, Wanted, away)
  <2> SUFFICES ASSUME NEW p \in Products, NEW t \in Times, NEW r \in Regions,
                      <<p, t, r>> \notin away, Carries(FastPatch, p, t, r)
               PROVE  FastPatch[p][t][r] = Plane(Wanted, p, t, r)
    BY DEF Right
  <2>1. /\ p = "utci" /\ t \in ChangedTimes
        /\ FastPatch[p][t][r] = Utci(store["tmrt"][t][r], Inputs(0), t)
    BY FastPatchFacts
  <2>2. store["tmrt"][t][r] # Nothing
    BY <2>1 DEF FastPath, Covered
  <2>3. store["tmrt"][t][r] = Plane(scene, "tmrt", t, r)
    <3>1. "tmrt" \in Products /\ Shows(store, behind, scene)
      BY DEF Products, Depicted
    <3>2. <<"tmrt", t, r>> \notin behind
      BY FastLeft
    <3> QED BY <2>2, <3>1, <3>2 DEF Shows
  <2>4. store["tmrt"][t][r] = Tmrt(Wanted, t, r)
    BY <2>3, <1>4 DEF Plane
  <2> QED BY <2>1, <2>4, <1>5 DEF Plane, Utci
<1>7. Complete({FastPatch}, Wanted, scene, away)
  <2> SUFFICES ASSUME NEW p \in Products, NEW t \in Times, NEW r \in Regions,
                      ~Carries(FastPatch, p, t, r)
               PROVE  Plane(Wanted, p, t, r) = Plane(scene, p, t, r)
    BY DEF Complete
  <2>1. CASE p = "tmrt"
    BY <2>1, <1>4 DEF Plane
  <2>2. CASE p = "utci"
    <3>1. t \notin ChangedTimes
      BY <2>2, FastPatchFacts
    <3>2. Wanted.wind[t] = scene.wind[t]
      BY <3>1, UnchangedTimes
    <3> QED BY <2>2, <3>2, <1>4 DEF Plane, Utci
  <2> QED BY <2>1, <2>2 DEF Products
<1> QED BY <1>6, <1>7

\* The warm route leaves the steps before the first changed one.
LEMMA WarmRight ==
  ASSUME Replayed, Overlays, Depicted, pc \in Busy, MetRouted, WarmPath
  PROVE  /\ Right(Patch(Inputs(0), Suffix, Regions), Wanted,
                  Left({Patch(Inputs(0), Suffix, Regions)}, "warm"))
         /\ Complete({Patch(Inputs(0), Suffix, Regions)}, Wanted, scene,
                     Left({Patch(Inputs(0), Suffix, Regions)}, "warm"))
<1>1. OnlyForcing(job.batch) /\ job.fold = Keep
  BY DEF WarmPath, MetRouted, ChainRouted
<1>2. /\ Wanted.params = scene.params /\ Wanted.building = scene.building
      /\ Wanted.tree = scene.tree /\ Wanted.class = scene.class
  BY <1>1, OnlyForcingWanted
<1>3. Inputs(0) = Wanted
  BY <1>1, InputsWanted
<1> DEFINE q == Patch(Inputs(0), Suffix, Regions)
           away == Left({q}, "warm")
<1>4. Right(q, Wanted, away)
  BY <1>3, PatchRight
<1>5. Complete({q}, Wanted, scene, away)
  <2> SUFFICES ASSUME NEW p \in Products, NEW t \in Times, NEW r \in Regions,
                      <<p, t, r>> \notin away, ~Carries(q, p, t, r)
               PROVE  Plane(Wanted, p, t, r) = Plane(scene, p, t, r)
    BY DEF Complete
  <2>0. ~Carries(q, "utci", t, r)
    <3> HIDE DEF q
    <3> QED BY SolveLeft
  <2>1. t \notin Suffix
    BY <2>0, PatchFacts DEF Requested
  <2>2. \A i \in 0 .. t : i \in Times /\ i \notin ChangedTimes
    <3>1. Steps \in Nat
      BY ExecutorAssumption
    <3>2. \A i \in 0 .. t : i \in Times /\ i <= t
      BY <3>1 DEF Times
    <3> QED BY <2>1, <3>2 DEF Suffix
  <2>3. \A i \in 0 .. t : Wanted.rad[i] = scene.rad[i] /\ Wanted.wind[i] = scene.wind[i]
    BY <2>2, UnchangedTimes
  <2>4. t \in 0 .. t
    BY ExecutorAssumption DEF Times
  <2> QED BY <2>3, <2>4, <1>2, PlaneReads
<1> QED BY <1>4, <1>5

\* A patch of every step and region leaves nothing.
LEMMA WholeRight ==
  ASSUME NEW s, NEW old, NEW route, route # "fast"
  PROVE  /\ Right(Patch(s, Times, Regions), s, Left({Patch(s, Times, Regions)}, route))
         /\ Complete({Patch(s, Times, Regions)}, s, old,
                     Left({Patch(s, Times, Regions)}, route))
<1> DEFINE q == Patch(s, Times, Regions)
           away == Left({q}, route)
<1>1. Right(q, s, away)
  BY PatchRight
<1>2. Complete({q}, s, old, away)
  <2> SUFFICES ASSUME NEW p \in Products, NEW t \in Times, NEW r \in Regions,
                      <<p, t, r>> \notin away, ~Carries(q, p, t, r)
               PROVE  FALSE
    BY DEF Complete
  <2>1. ~Carries(q, "utci", t, r)
    <3> HIDE DEF q
    <3> QED BY SolveLeft
  <2> QED BY <2>1, PatchFacts DEF Requested
<1> QED BY <1>1, <1>2

\* What is pending when a batch is dispatched: its tree edit, and each family of
\* overlays that its fold changes.
LEMMA DispatchPending ==
  ASSUME Replayed, Overlays, pc = "dispatch"
  PROVE  /\ wk.pforcing = ex.forcing /\ wk.pland = ex.land /\ wk.pparams = ex.params
         /\ job.batch.tree # Keep => TreePending
<1>1. pc \in Busy /\ ~ByWorker
  BY DEF Busy, ByWorker
<1>2. /\ Watermarks(wk) = job.marks /\ job.marks.forcing = ex.forcing
      /\ job.marks.land = ex.land /\ job.marks.params = ex.params
  BY <1>1 DEF Overlays
<1>3. /\ wk.pforcing = ex.forcing /\ wk.pland = ex.land /\ wk.pparams = ex.params
      /\ wk.acked = job.marks.acked
  BY <1>2 DEF Watermarks
<1>4. ASSUME job.batch.tree # Keep PROVE TreePending
  <2>1. /\ job.batch.tree # scene.tree /\ TreeOf(layer) = job.batch.tree
        /\ Consumed(layer, job.marks.acked, scene.tree) /\ job.marks.acked < Len(layer)
    BY <1>1, <1>4 DEF Replayed
  <2>2. Tree = job.batch.tree
    BY <2>1, TreeFacts DEF Replayed
  <2> QED BY <2>1, <2>2, <1>3 DEF TreePending, Consumed
<1> QED BY <1>3, <1>4

\* The local route leaves the regions that nothing the batch changes reaches.
LEMMA LocalRight ==
  ASSUME Replayed, Overlays, Staged, Depicted, pc = "dispatch", ~ChainRouted,
         Dirty # Regions
  PROVE  /\ \A away : \A r \in Dirty : Right(Patch(Inputs(0), Times, {r}), Wanted, away)
         /\ Complete({Patch(Inputs(0), Times, {r}) : r \in Dirty}, Wanted, scene,
                     Left({Patch(Inputs(0), Times, {r}) : r \in Dirty}, "local"))
<1> DEFINE b == job.batch
<1>0. pc \in Busy /\ job.fold = Keep
  BY DEF Busy, ChainRouted
<1>1. Inputs(0) = Wanted
  BY <1>0, InputsWanted
<1>2. \A away : \A r \in Dirty : Right(Patch(Inputs(0), Times, {r}), Wanted, away)
  BY <1>1, PatchRight
<1>3. ~ForcingPending /\ ~ParamsPending
  BY DEF Dirty
<1>4. /\ wk.forcing = EffectiveForcing(b) /\ wk.land = EffectiveLand(b)
      /\ wk.params = EffectiveParams(b) /\ job.fold = MassingFold(b)
  BY <1>0 DEF Overlays
<1>5. EffectiveForcing(b) = ex.forcing /\ EffectiveParams(b) = ex.params
  BY <1>3, <1>4, DispatchPending DEF ForcingPending, ParamsPending
<1>6. b.building = Keep
  BY <1>0, <1>4 DEF MassingFold, Over
<1>7. /\ Wanted.wind = scene.wind /\ Wanted.rad = scene.rad /\ Wanted.params = scene.params
      /\ Wanted.building = scene.building
  <2>1. Wanted = Target(ex, ex.forcing, wk.land, scene, b)
    BY <1>4, <1>5, AskedIsTarget DEF Wanted, Depicted
  <2>2. Over(b.params, ex.params) = ex.params /\ Over(b.building, ex.massing) = ex.massing
    BY <1>5, <1>6 DEF EffectiveParams, Over
  <2> QED BY <2>1, <2>2 DEF Target, Depicted, Accumulated
<1>8. ("tree" \notin Dirty => Wanted.tree = scene.tree)
  <2> SUFFICES ASSUME "tree" \notin Dirty PROVE Wanted.tree = scene.tree
    OBVIOUS
  <2>1. ~TreePending
    BY <1>3 DEF Dirty
  <2>2. b.tree = Keep
    BY <2>1, DispatchPending
  <2> QED BY <2>2 DEF Wanted, Asked, Over
<1>9. ("paint" \notin Dirty => Wanted.class = scene.class)
  <2> SUFFICES ASSUME "paint" \notin Dirty PROVE Wanted.class = scene.class
    OBVIOUS
  <2>1. ~wk.stroke
    BY <1>3 DEF Dirty, LandDirty
  <2>2. b.paint = Keep
    BY <2>1 DEF Staged
  <2> QED BY <2>2 DEF Wanted, Asked, Over
<1> DEFINE Q == {Patch(Inputs(0), Times, {r}) : r \in Dirty}
           away == Left(Q, "local")
<1>10. Complete(Q, Wanted, scene, away)
  <2> SUFFICES ASSUME NEW p \in Products, NEW t \in Times, NEW r \in Regions,
                      <<p, t, r>> \notin away,
                      \A q \in Q : ~Carries(q, p, t, r)
               PROVE  Plane(Wanted, p, t, r) = Plane(scene, p, t, r)
    BY DEF Complete
  <2>0. \A q \in Q : ~Carries(q, "utci", t, r)
    <3> HIDE DEF Q
    <3> QED BY SolveLeft
  <2>1. r \notin Dirty
    <3>1. Carries(Patch(Inputs(0), Times, {r}), "utci", t, r)
      BY PatchFacts DEF Requested
    <3> QED BY <2>0, <3>1
  <2>2. /\ r = "tree" => Wanted.tree = scene.tree
        /\ r = "paint" => Wanted.class = scene.class
    BY <2>1, <1>8, <1>9
  <2>3. Wanted.wind[t] = scene.wind[t] /\ \A i \in 0 .. t : Wanted.rad[i] = scene.rad[i]
    BY <1>7
  <2> QED BY <2>2, <2>3, <1>7, PlaneReads
<1> QED BY <1>2, <1>10

-----------------------------------------------------------------------------
(* The outcome of a batch: its scope, its planes, and why it is never      *)
(* refused for what was left by an earlier one.                            *)

\* The regions a set of patches writes.
WroteBy(Q) == UNION {DOMAIN q["utci"][t] : q \in Q, t \in Times \cap
                       UNION {DOMAIN x["utci"] : x \in Q}}

\* A patch of every step writes its regions.
LEMMA WroteFacts ==
  ASSUME NEW Q, NEW s, NEW R, Patch(s, Times, R) \in Q
  PROVE  R \subseteq WroteBy(Q)
<1> DEFINE q == Patch(s, Times, R)
<1>1. DOMAIN q["utci"] = Times /\ \A t \in Times : DOMAIN q["utci"][t] = R
  BY DEF Patch, Requested
<1>2. 0 \in Times
  BY ExecutorAssumption DEF Times
<1> HIDE DEF q
<1>3. 0 \in Times \cap UNION {DOMAIN x["utci"] : x \in Q}
  BY <1>1, <1>2 DEF q
<1>4. R \in {DOMAIN x["utci"][t] : x \in Q, t \in Times \cap
               UNION {DOMAIN x["utci"] : x \in Q}}
  BY <1>1, <1>2, <1>3 DEF q
<1> QED BY <1>4 DEF WroteBy

\* Every route covers what the plan of the batch promised.
LEMMA SolveReconciles ==
  ASSUME Shapes, Replayed, Overlays, Staged,
         SolveFast \/ SolveWarm \/ SolveChain \/ SolveFull \/ SolveLocal
  PROVE  Reconciled' /\ job'.route \in Routes
<1> DEFINE b == job.batch
           Q == ToSet(job'.patches)
           need == (IF b.tree # Keep THEN {"tree"} ELSE {})
                     \cup (IF b.paint # Keep THEN {"paint"} ELSE {})
<1>1. /\ pc = "dispatch" /\ job'.batch = b /\ job'.full = job.full
      /\ TakesFast \/ TakesWarm \/ TakesChain \/ TakesFull \/ TakesLocal
  BY SolveSteps DEF Advances
<1>2. job.full = PromisesFull(b) /\ wk.stroke = (b.paint # Keep)
  BY <1>1 DEF Staged
<1>3. need \subseteq {"tree", "paint"} /\ {"tree", "paint"} \subseteq Regions
  BY DEF Regions
<1> SUFFICES /\ job.full => job'.route \in {"full", "warm", "chain"}
             /\ need \subseteq WroteBy(Q) /\ job'.route \in Routes
  BY <1>1 DEF Reconciled, Wrote, WroteBy
<1>4. CASE TakesFast
  <2>1. OnlyForcing(b) /\ b.rad = Nothing /\ FastShape(b) /\ job'.route = "fast"
    BY <1>4 DEF TakesFast, FastPath, FastShape
  <2>2. b.params = Keep /\ b.paint = Keep /\ b.tree = Keep /\ b.building = Keep
    BY <2>1, OnlyForcingWanted
  <2>3. ~job.full
    BY <1>2, <2>1, <2>2 DEF PromisesFull
  <2>4. need = {}
    BY <2>2
  <2> QED BY <2>1, <2>3, <2>4 DEF Routes
<1>5. CASE TakesWarm
  <2>1. OnlyForcing(b) /\ job'.route = "warm"
    BY <1>5 DEF TakesWarm, WarmPath
  <2>2. b.paint = Keep /\ b.tree = Keep
    BY <2>1, OnlyForcingWanted
  <2>3. need = {}
    BY <2>2
  <2> QED BY <2>1, <2>3 DEF Routes
<1>6. CASE TakesChain
  <2>1. Patch(Inputs(job.fold), Times, Regions) \in Q /\ job'.route = "chain"
    BY <1>6 DEF TakesChain
  <2>2. Regions \subseteq WroteBy(Q)
    BY <2>1, WroteFacts
  <2> QED BY <2>1, <2>2, <1>3 DEF Routes
<1>7. CASE TakesFull
  <2>1. Patch(Inputs(0), Times, Regions) \in Q /\ job'.route = "full"
    BY <1>7 DEF TakesFull
  <2>2. Regions \subseteq WroteBy(Q)
    BY <2>1, WroteFacts
  <2> QED BY <2>1, <2>2, <1>3 DEF Routes
<1>8. CASE TakesLocal
  <2>1. /\ Q = {Patch(Inputs(0), Times, {r}) : r \in Dirty} /\ job'.route = "local"
        /\ ~job.full /\ Dirty # Regions
    BY <1>8 DEF TakesLocal
  <2>2. b.tree # Keep => "tree" \in Dirty
    BY <1>1, <2>1, DispatchPending DEF Dirty, Regions
  <2>3. b.paint # Keep => "paint" \in Dirty
    BY <1>2, <2>1 DEF Dirty, LandDirty, Regions
  <2> HIDE DEF Q
  <2>4. \A r \in Dirty : r \in WroteBy(Q)
    <3> SUFFICES ASSUME NEW r \in Dirty PROVE {r} \subseteq WroteBy(Q)
      OBVIOUS
    <3>1. Patch(Inputs(0), Times, {r}) \in Q
      BY <2>1
    <3> QED BY <3>1, WroteFacts
  <2> QED BY <2>1, <2>2, <2>3, <2>4 DEF Routes
<1> QED BY <1>1, <1>4, <1>5, <1>6, <1>7, <1>8

\* Every route's patches depict what the batch asks for.
LEMMA SolveRight ==
  ASSUME Shapes, Replayed, Overlays, Staged, Depicted,
         SolveFast \/ SolveWarm \/ SolveChain \/ SolveFull \/ SolveLocal
  PROVE  /\ \A q \in ToSet(job'.patches) :
              Right(q, Wanted, Left(ToSet(job'.patches), job'.route))
         /\ Complete(ToSet(job'.patches), Wanted, scene,
                     Left(ToSet(job'.patches), job'.route))
<1>1. /\ pc = "dispatch" /\ pc \in Busy
      /\ TakesFast \/ TakesWarm \/ TakesChain \/ TakesFull \/ TakesLocal
  BY SolveSteps DEF Busy
<1>2. CASE TakesFast
  BY <1>1, <1>2, FastRight DEF TakesFast
<1>3. CASE TakesWarm
  <2> DEFINE q == Patch(Inputs(0), Suffix, Regions)
  <2>1. /\ Right(q, Wanted, Left({q}, "warm"))
        /\ Complete({q}, Wanted, scene, Left({q}, "warm"))
    BY <1>1, <1>3, WarmRight DEF TakesWarm
  <2>2. ToSet(job'.patches) = {q} /\ job'.route = "warm"
    BY <1>3 DEF TakesWarm
  <2> HIDE DEF q
  <2> QED BY <2>1, <2>2
<1>4. CASE TakesChain
  <2> DEFINE q == Patch(Wanted, Times, Regions)
  <2>1. Inputs(job.fold) = Wanted
    BY <1>1, <1>4, InputsWanted DEF TakesChain, ChainRouted
  <2>2. ToSet(job'.patches) = {q} /\ job'.route = "chain"
    BY <1>4, <2>1 DEF TakesChain
  <2>3. /\ Right(q, Wanted, Left({q}, "chain"))
        /\ Complete({q}, Wanted, scene, Left({q}, "chain"))
    BY WholeRight
  <2> HIDE DEF q
  <2> QED BY <2>2, <2>3
<1>5. CASE TakesFull
  <2> DEFINE q == Patch(Wanted, Times, Regions)
  <2>1. Inputs(0) = Wanted
    BY <1>1, <1>5, InputsWanted DEF TakesFull, ChainRouted
  <2>2. ToSet(job'.patches) = {q} /\ job'.route = "full"
    BY <1>5, <2>1 DEF TakesFull
  <2>3. /\ Right(q, Wanted, Left({q}, "full"))
        /\ Complete({q}, Wanted, scene, Left({q}, "full"))
    BY WholeRight
  <2> HIDE DEF q
  <2> QED BY <2>2, <2>3
<1>6. CASE TakesLocal
  <2> DEFINE Q == {Patch(Inputs(0), Times, {r}) : r \in Dirty}
  <2>1. /\ \A away : \A r \in Dirty : Right(Patch(Inputs(0), Times, {r}), Wanted, away)
        /\ Complete(Q, Wanted, scene, Left(Q, "local"))
    BY <1>1, <1>6, LocalRight DEF TakesLocal
  <2>2. ToSet(job'.patches) = Q /\ job'.route = "local"
    BY <1>6 DEF TakesLocal
  <2>3. \A q \in Q : Right(q, Wanted, Left(Q, "local"))
    <3> SUFFICES ASSUME NEW r \in Dirty
                 PROVE  Right(Patch(Inputs(0), Times, {r}), Wanted, Left(Q, "local"))
      OBVIOUS
    <3> HIDE DEF Q
    <3> QED BY <2>1
  <2> HIDE DEF Q
  <2> QED BY <2>1, <2>2, <2>3
<1> QED BY <1>1, <1>2, <1>3, <1>4, <1>5, <1>6

\* Every step keeps the outcome of the batch in progress.
LEMMA OutcomeStep ==
  ASSUME Shapes, Replayed, Overlays, Staged, Depicted, Outcome, Document, Next
  PROVE  Outcome'
<1>1. CASE SolveFast \/ SolveWarm \/ SolveChain \/ SolveFull \/ SolveLocal
  <2> DEFINE Q == ToSet(job'.patches)
             left == Left(Q, job'.route)
  <2>1. Wanted' = Wanted /\ scene' = scene /\ behind' = behind
    <3>1. job'.batch = job.batch /\ scene' = scene /\ behind' = behind
      BY <1>1, SolveSteps DEF Advances
    <3> QED BY <3>1 DEF Wanted, Asked
  <2>2. Reconciled' /\ job'.route \in Routes
    BY <1>1, SolveReconciles
  <2>3. /\ \A q \in Q : Right(q, Wanted, left)
        /\ Complete(Q, Wanted, scene, left)
    BY <1>1, SolveRight
  <2>4. FallenBehind' = left
    BY <2>1 DEF FallenBehind, Left, Written, Carried
  <2> HIDE DEF left
  <2>5. /\ \A q \in ToSet(job.patches)' : Right(q, Wanted', FallenBehind')
        /\ Complete(ToSet(job.patches)', Wanted', scene', FallenBehind')
    BY <2>1, <2>3, <2>4
  <2>6. /\ (\A q \in ToSet(job.patches) : Right(q, Wanted, FallenBehind))'
        /\ Complete(ToSet(job.patches), Wanted, scene, FallenBehind)'
    BY <2>5 DEF Right, Complete
  <2> QED BY <2>2, <2>6 DEF Outcome
<1>2. CASE Rename \/ Published
  <2>1. /\ pc \in Solving /\ job'.batch = job.batch /\ job'.full = job.full
        /\ job'.route = job.route /\ job'.patches = job.patches /\ scene' = scene
        /\ behind' = behind
    BY <1>2, RenameFields, PublishedFields DEF Advances, Solving, Rename
  <2>2. Wanted' = Wanted
    BY <2>1 DEF Wanted, Asked
  <2>3. Reconciled' = Reconciled
    BY <2>1 DEF Reconciled, Wrote
  <2>4. FallenBehind' = FallenBehind
    BY <2>1 DEF FallenBehind, Written
  <2> QED BY <2>1, <2>2, <2>3, <2>4 DEF Outcome
<1>3. CASE \E b \in Batches : Refuse(b) \/ ExecuteNoop(b)
  BY <1>3, StageOnly DEF Outcome, Solving
<1>4. CASE \E b \in Batches : Execute(b)
  BY <1>4, ExecuteFields DEF Outcome, Solving
<1>5. CASE Commit \/ Fail
  BY <1>5, CommitFields, FailFields DEF Outcome, Solving
<1>6. CASE SaveMemo \/ SaveDocument
  BY <1>6, SaveFields DEF Outcome, Busy
<1>7. CASE EndProcess
  BY <1>7, EndFields DEF Outcome, Solving
<1>8. CASE Restore
  BY <1>8, RestoreFields DEF Outcome, Solving
<1>9. CASE RestoreRefused
  BY <1>9, RefusedFields DEF Outcome, Solving
<1> QED BY <1>1, <1>2, <1>3, <1>4, <1>5, <1>6, <1>7, <1>8, <1>9 DEF Next

\* A batch that is no value no-op leaves the worker something to do.
LEMMA DispatchDirty ==
  ASSUME Replayed, Overlays, Staged, Depicted, pc = "dispatch", ~ChainRouted
  PROVE  Pending /\ Dirty # {}
<1> DEFINE b == job.batch
<1>1. pc \in Busy /\ job.fold = Keep
  BY DEF Busy, ChainRouted
<1>2. /\ wk.forcing = EffectiveForcing(b) /\ wk.land = EffectiveLand(b)
      /\ wk.params = EffectiveParams(b) /\ job.fold = MassingFold(b)
  BY <1>1 DEF Overlays
<1>3. /\ wk.pforcing = ex.forcing /\ wk.pland = ex.land /\ wk.pparams = ex.params
      /\ b.tree # Keep => TreePending
  BY DispatchPending
<1>4. b.building = Keep
  BY <1>1, <1>2 DEF MassingFold, Over
<1>5. CASE TreePending
  BY <1>5 DEF Pending, Dirty, Regions
<1>6. CASE ForcingPending \/ ParamsPending
  BY <1>6 DEF Pending, Dirty, Regions
<1>7. CASE ~TreePending /\ ~ForcingPending /\ ~ParamsPending
  <2>1. EffectiveForcing(b) = ex.forcing /\ EffectiveParams(b) = ex.params /\ b.tree = Keep
    BY <1>2, <1>3, <1>7 DEF ForcingPending, ParamsPending
  <2>2. EffectiveLand(b).class # ex.land.class
    BY <2>1, <1>4 DEF Staged, ValueEqual, Depicted
  <2>3. b.paint # Keep
    BY <2>2 DEF EffectiveLand
  <2>4. wk.stroke /\ LandPending
    BY <2>2, <2>3, <1>2, <1>3 DEF Staged, LandPending
  <2> QED BY <2>4, <1>7 DEF Pending, Dirty, LandDirty, Regions
<1> QED BY <1>5, <1>6, <1>7

\* A batch fails for a reason of its own, never because nothing was pending or
\* because the scope was undercut.
LEMMA FailsForReason ==
  ASSUME Replayed, Overlays, Staged, Depicted, Outcome
  PROVE  Reason = "failed"
<1>1. ~(WorkerRoute /\ (~Pending \/ Dirty = {}))
  BY DispatchDirty DEF WorkerRoute
<1>2. ~(pc = "record" /\ ~Reconciled)
  BY DEF Outcome, Solving
<1> QED BY <1>1, <1>2 DEF Reason

\* Every step keeps the scenario from being wedged.
LEMMA NeverWedgedStep ==
  ASSUME Shapes, Replayed, Overlays, Staged, Depicted, Outcome, Document, NeverWedged, Next
  PROVE  NeverWedged'
<1>1. CASE Fail
  <2>1. error' = "failed"
    BY <1>1, FailFields, FailsForReason
  <2> QED BY <2>1 DEF NeverWedged
<1>2. CASE \E b \in Batches : Refuse(b) \/ ExecuteNoop(b)
  <2>1. error' \in {"refused", error}
    BY <1>2 DEF Refuse, ExecuteNoop
  <2> QED BY <2>1 DEF NeverWedged
<1>3. CASE \E b \in Batches : Execute(b)
  BY <1>3, ExecuteFields DEF NeverWedged
<1>4. CASE Progress
  BY <1>4, ProgressAdvances DEF Advances, NeverWedged
<1>5. CASE Commit
  BY <1>5, CommitFields DEF NeverWedged
<1>6. CASE SaveMemo \/ SaveDocument
  BY <1>6, SaveFields DEF NeverWedged
<1>7. CASE EndProcess
  BY <1>7, EndFields DEF NeverWedged
<1>8. CASE Restore
  BY <1>8, RestoreFields DEF NeverWedged
<1>9. CASE RestoreRefused
  BY <1>9, RefusedFields DEF NeverWedged
<1> QED BY <1>1, <1>2, <1>3, <1>4, <1>5, <1>6, <1>7, <1>8, <1>9 DEF Next, Progress

-----------------------------------------------------------------------------
(* The scenario, what is served, and what is saved.                        *)

\* A fresh process depicts the baseline.
LEMMA FreshDepicts ==
  /\ Accumulated(FreshExecutor, Baseline) /\ FreshExecutor.memo = FreshExecutor.land.class
  /\ Shows(FreshStore, {}, Baseline)
<1>1. /\ FreshExecutor.land.painted = FALSE /\ FreshExecutor.land.class = 0
      /\ FreshExecutor.memo = 0 /\ FreshExecutor.params = 0 /\ FreshExecutor.massing = Keep
      /\ FreshExecutor.forcing.wind = Nothing /\ FreshExecutor.forcing.rad = Nothing
  BY DEF FreshExecutor, NoForcing, NoLand
<1>2. Over(Keep, 0) = 0 /\ Baseline.tree = 0
  BY DEF Over, Baseline
<1>3. Accumulated(FreshExecutor, Baseline)
  BY <1>1, <1>2 DEF Accumulated, Baseline
<1>4. \A p \in Products, t \in Times, r \in Regions : FreshStore[p][t][r] = Nothing
  BY DEF FreshStore
<1>5. Shows(FreshStore, {}, Baseline)
  BY <1>4 DEF Shows
<1> QED BY <1>1, <1>3, <1>5

\* The initial state depicts the baseline.
LEMMA DepictedInit == Init => Depicted
BY FreshDepicts DEF Init, Depicted

\* Recording a right and complete outcome depicts what the batch asked for.
LEMMA RecordedShows ==
  ASSUME NEW s, NEW old, Shows(store, behind, old),
         \A q \in ToSet(job.patches) : Right(q, s, FallenBehind),
         Complete(ToSet(job.patches), s, old, FallenBehind)
  PROVE  Shows(Recorded, FallenBehind, s)
<1> SUFFICES ASSUME NEW p \in Products, NEW t \in Times, NEW r \in Regions,
                    <<p, t, r>> \notin FallenBehind
             PROVE  (IF Recorded[p][t][r] = Nothing THEN Plane(Baseline, p, t, r)
                     ELSE Recorded[p][t][r]) = Plane(s, p, t, r)
  BY DEF Shows
<1> DEFINE C == {q \in ToSet(job.patches) : Carries(q, p, t, r)}
<1>1. Recorded[p][t][r] = IF C = {} THEN store[p][t][r] ELSE (CHOOSE q \in C : TRUE)[p][t][r]
  BY DEF Recorded
<1>2. CASE C = {}
  <2>1. \A q \in ToSet(job.patches) : ~Carries(q, p, t, r)
    BY <1>2
  <2>2. Plane(s, p, t, r) = Plane(old, p, t, r)
    BY <2>1 DEF Complete
  <2>3. (IF store[p][t][r] = Nothing THEN Plane(Baseline, p, t, r) ELSE store[p][t][r])
          = Plane(old, p, t, r)
    <3>1. <<p, t, r>> \notin behind
      BY <2>1, SolveLeft, FallenIsLeft
    <3> QED BY <3>1 DEF Shows
  <2> QED BY <1>1, <1>2, <2>2, <2>3
<1>3. CASE C # {}
  <2>1. (CHOOSE q \in C : TRUE) \in C
    BY <1>3
  <2>2. PICK q \in C : Recorded[p][t][r] = q[p][t][r]
    BY <1>1, <1>3, <2>1
  <2>3. q[p][t][r] = Plane(s, p, t, r)
    BY DEF Right
  <2> QED BY <2>2, <2>3, PlaneIsEntry
<1> QED BY <1>2, <1>3

\* The scenario and the store change together.
LEMMA DepictedStep ==
  ASSUME Shapes, Overlays, Depicted, Outcome, Document, Next
  PROVE  Depicted'
<1>1. CASE \E b \in Batches : Refuse(b) \/ ExecuteNoop(b)
  <2>1. PICK b \in Batches : Refuse(b) \/ ExecuteNoop(b)
    BY <1>1
  <2>2. UNCHANGED <<ex, store, behind>>
    BY <2>1, StageOnly
  <2>3. scene' = scene
    <3>1. CASE Refuse(b)
      BY <3>1 DEF Refuse
    <3>2. CASE ExecuteNoop(b)
      BY <3>2, NoopAsksNothing DEF ExecuteNoop, Depicted
    <3> QED BY <2>1, <3>1, <3>2
  <2> QED BY <2>2, <2>3 DEF Depicted, Accumulated
<1>2. CASE \E b \in Batches : Execute(b)
  <2>1. SameOverlays /\ UNCHANGED <<store, behind, scene>>
    BY <1>2, ExecuteFields
  <2> QED BY <2>1 DEF Depicted, Accumulated, SameOverlays
<1>3. CASE Progress
  <2>1. UNCHANGED <<ex, store, behind, scene>>
    BY <1>3, ProgressAdvances DEF Advances
  <2> QED BY <2>1 DEF Depicted, Accumulated
<1>4. CASE Commit
  <2>1. /\ pc \in Busy /\ pc \in Solving /\ ex'.forcing = wk.forcing /\ ex'.land = wk.land
        /\ ex'.params = wk.params /\ ex'.massing = job.fold /\ ex'.memo = wk.land.class
        /\ store' = Recorded /\ behind' = FallenBehind /\ scene' = Wanted
    BY <1>4, CommitFields DEF Busy, Solving, Wanted
  <2>2. /\ wk.forcing = EffectiveForcing(job.batch) /\ wk.land = EffectiveLand(job.batch)
        /\ wk.params = EffectiveParams(job.batch) /\ job.fold = MassingFold(job.batch)
    BY <2>1 DEF Overlays
  <2>3. Accumulated(ex', scene')
    <3>1. Accumulated(ex, scene)
      BY DEF Depicted
    <3> DEFINE e == ex'
               b == job.batch
    <3>2. /\ e.forcing = EffectiveForcing(b) /\ e.land = EffectiveLand(b)
          /\ e.params = EffectiveParams(b) /\ e.massing = MassingFold(b)
      BY <2>1, <2>2
    <3> HIDE DEF e, b
    <3>3. Accumulated(e, Asked(scene, b))
      BY <3>1, <3>2, CommitAccumulates
    <3> QED BY <2>1, <3>3 DEF e, b, Wanted
  <2>4. Shows(store', behind', scene')
    <3>1. Shows(Recorded, FallenBehind, Wanted)
      BY <2>1, RecordedShows DEF Outcome, Depicted
    <3> QED BY <2>1, <3>1
  <2>5. ex'.memo = ex'.land.class
    BY <2>1
  <2> QED BY <2>3, <2>4, <2>5 DEF Depicted
<1>5. CASE Fail
  <2>1. SameOverlays /\ UNCHANGED <<store, behind, scene>>
    BY <1>5, FailFields
  <2> QED BY <2>1 DEF Depicted, Accumulated, SameOverlays
<1>6. CASE SaveMemo \/ SaveDocument
  <2>1. UNCHANGED <<ex, store, behind, scene>>
    BY <1>6, SaveFields
  <2> QED BY <2>1 DEF Depicted, Accumulated
<1>7. CASE EndProcess
  <2>1. /\ ex' = FreshExecutor /\ store' = FreshStore /\ behind' = {}
        /\ scene' = Baseline
    BY <1>7, EndFields
  <2> QED BY <2>1, FreshDepicts DEF Depicted
<1>8. CASE Restore
  <2> DEFINE d == dir.doc[1]
  <2>1. /\ Readable /\ Sound(d, jobs \cup lost, disk) /\ store' = d.store /\ scene' = d.scene
        /\ behind' = d.behind /\ ex'.forcing = d.ex.forcing /\ ex'.land = d.ex.land /\ ex'.params = d.ex.params
        /\ ex'.massing = d.ex.massing
        /\ ex'.memo = (IF d.memo = Nothing THEN 0 ELSE dir.memo[1])
    BY <1>8, RestoreFields
  <2>2. d.memo \in {Nothing, dir.memo}
    BY <2>1 DEF Readable
  <2> HIDE DEF d
  <2>3. /\ Accumulated(d.ex, d.scene) /\ Shows(d.store, d.behind, d.scene)
        /\ d.memo = IF d.ex.land.painted THEN <<d.ex.land.class>> ELSE Nothing
    BY <2>1 DEF Sound
  <2>4. Accumulated(ex', scene') /\ Shows(store', behind', scene')
    BY <2>1, <2>3 DEF Accumulated
  <2>5. ex'.memo = d.ex.land.class
    <3>1. CASE d.ex.land.painted
      <4>1. d.memo = <<d.ex.land.class>> /\ d.memo # Nothing
        BY <2>3, <3>1 DEF Nothing
      <4>2. dir.memo = <<d.ex.land.class>>
        BY <4>1, <2>2
      <4> QED BY <4>1, <4>2, <2>1
    <3>2. CASE ~d.ex.land.painted
      BY <2>1, <2>3, <3>2 DEF Accumulated
    <3> QED BY <3>1, <3>2
  <2> QED BY <2>1, <2>4, <2>5 DEF Depicted
<1>9. CASE RestoreRefused
  BY <1>9, RefusedFields DEF Depicted, Accumulated
<1> QED BY <1>1, <1>2, <1>3, <1>4, <1>5, <1>6, <1>7, <1>8, <1>9 DEF Next, Progress

\* The directory is empty at first.
LEMMA DocumentInit == Init => Document
BY DEF Init, Document

\* No step forgets a batch or removes the patches of one that published.
LEMMA NothingForgotten ==
  ASSUME Shapes, Ledger, Root, Document, Next
  PROVE  /\ jobs \cup lost \subseteq jobs' \cup lost'
         /\ \A x \in disk : x[1] \in jobs \cup lost => x \in disk'
<1>1. CASE \E b \in Batches : Refuse(b) \/ ExecuteNoop(b)
  BY <1>1, StageOnly
<1>2. CASE \E b \in Batches : Execute(b)
  BY <1>2, ExecuteFields
<1>3. CASE Progress
  <2>1. UNCHANGED <<jobs, lost>>
    BY <1>3, ProgressAdvances DEF Advances
  <2>2. disk \subseteq disk'
    BY <1>3, SolveSteps, PublishedFields DEF Progress, Rename
  <2> QED BY <2>1, <2>2
<1>4. CASE Commit
  BY <1>4, CommitFields
<1>5. CASE Fail
  <2>1. pc \in Busy /\ disk' = Discarded /\ UNCHANGED <<jobs, lost>>
    BY <1>5, FailFields
  <2>2. job.id \notin jobs \cup lost
    <3>1. Submitted \in Nat
      BY SubmittedFacts DEF Ledger
    <3> QED BY <2>1, <3>1 DEF Ledger
  <2>3. \A x \in Results(job.renamed) : x[1] = job.id
    BY DEF Results
  <2> QED BY <2>1, <2>2, <2>3 DEF Discarded
<1>6. CASE SaveMemo \/ SaveDocument
  BY <1>6, SaveFields
<1>7. CASE EndProcess
  BY <1>7, EndFields
<1>8. CASE Restore
  <2>1. jobs = {} /\ jobs' = dir.doc[1].jobs /\ lost' = lost \ dir.doc[1].jobs /\ UNCHANGED disk
    BY <1>8, RestoreFields DEF Ledger
  <2> QED BY <2>1
<1>9. CASE RestoreRefused
  BY <1>9, RefusedFields
<1> QED BY <1>1, <1>2, <1>3, <1>4, <1>5, <1>6, <1>7, <1>8, <1>9 DEF Next, Progress

\* A document that is sound stays so.
LEMMA SoundStays ==
  ASSUME Shapes, Ledger, Root, Document, Next, NEW d, Sound(d, jobs \cup lost, disk)
  PROVE  Sound(d, jobs' \cup lost', disk')
<1>1. /\ jobs \cup lost \subseteq jobs' \cup lost'
      /\ \A x \in disk : x[1] \in jobs \cup lost => x \in disk'
  BY NothingForgotten
<1>2. d.jobs \subseteq jobs \cup lost /\ \A j \in d.jobs : \E x \in disk : x[1] = j
  BY DEF Sound
<1>3. d.jobs \subseteq jobs' \cup lost' /\ \A j \in d.jobs : \E x \in disk' : x[1] = j
  BY <1>1, <1>2
<1> QED BY <1>3 DEF Sound

\* A save writes a sound document.
LEMMA SavedIsSound ==
  ASSUME Shapes, Ledger, Root, Replayed, Depicted, SaveDocument
  PROVE  Sound(dir'.doc[1], jobs' \cup lost', disk')
<1> DEFINE e == [ex EXCEPT !.memo = 0]
           d == [ex |-> e, acked |-> wk.acked, layer |-> layer, store |-> store,
                 entry |-> entry, behind |-> behind, memo |-> MemoOf(ex), scene |-> scene, jobs |-> jobs]
<1>1. pc = "saving" /\ pc \notin Busy /\ UNCHANGED <<jobs, lost, disk>>
  BY DEF SaveDocument, Busy, Solving, history, results
<1>2. dir' = [dir EXCEPT !.doc = <<d>>]
  BY DEF SaveDocument
<1>3. dir'.doc[1] = d
  <2>1. HasFields(dir, {"doc", "memo"})
    BY DEF Shapes
  <2> HIDE DEF d
  <2> QED BY <1>2, <2>1 DEF HasFields
<1>4. /\ HasFields(e, ExecutorFields) /\ e.rev = ex.rev /\ e.forcing = ex.forcing
      /\ e.land = ex.land /\ e.params = ex.params /\ e.massing = ex.massing
  BY DEF Shapes, HasFields, ExecutorFields
<1> HIDE DEF e
<1>5. /\ d.ex = e /\ d.acked = wk.acked /\ d.layer = layer /\ d.store = store
      /\ d.behind = behind
      /\ d.memo = MemoOf(ex) /\ d.scene = scene /\ d.jobs = jobs
  OBVIOUS
<1> HIDE DEF d
<1>6. e.rev = Cardinality(jobs)
  BY <1>1, <1>4 DEF Ledger
<1>7. /\ layer \in Seq(Trees \X Trees) /\ Consumed(layer, wk.acked, scene.tree)
      /\ TreeOf(layer) = scene.tree
  BY <1>1 DEF Replayed
<1>8. Accumulated(e, scene) /\ Shows(store, behind, scene)
  BY <1>4 DEF Depicted, Accumulated
<1>9. MemoOf(ex) = IF e.land.painted THEN <<e.land.class>> ELSE Nothing
  BY <1>4 DEF MemoOf, Depicted
<1>10. \A j \in jobs : \E x \in disk : x[1] = j
  BY DEF Root
<1>11. Sound(d, jobs \cup lost, disk)
  BY <1>4, <1>5, <1>6, <1>7, <1>8, <1>9, <1>10 DEF Sound
<1>12. Sound(d, jobs' \cup lost', disk')
  BY <1>1, <1>11 DEF Sound
<1> QED BY <1>3, <1>12

\* Every step keeps the document sound.
LEMMA DocumentStep ==
  ASSUME Shapes, Ledger, Root, Replayed, Depicted, Document, Next
  PROVE  Document'
<1>1. CASE SaveDocument
  BY <1>1, SavedIsSound DEF Document
<1>2. CASE ~SaveDocument
  <2>1. dir'.doc = dir.doc
    <3>1. CASE \E b \in Batches : Refuse(b) \/ ExecuteNoop(b)
      BY <3>1, StageOnly
    <3>2. CASE \E b \in Batches : Execute(b)
      BY <3>2, ExecuteFields
    <3>3. CASE Progress
      BY <3>3, ProgressAdvances DEF Advances
    <3>4. CASE Commit \/ Fail
      BY <3>4, CommitFields, FailFields
    <3>5. CASE SaveMemo
      <4> DEFINE m == MemoOf(ex)
      <4>1. dir' = [dir EXCEPT !.memo = m] \/ dir' = dir
        BY <3>5 DEF SaveMemo
      <4> HIDE DEF m
      <4> QED BY <4>1 DEF Shapes, HasFields
    <3>6. CASE EndProcess
      BY <3>6, EndFields
    <3>7. CASE Restore
      BY <3>7, RestoreFields
    <3>8. CASE RestoreRefused
      BY <3>8, RefusedFields
    <3> QED BY <1>2, <3>1, <3>2, <3>3, <3>4, <3>5, <3>6, <3>7, <3>8 DEF Next, Progress
  <2>2. ASSUME dir'.doc # Nothing PROVE Sound(dir'.doc[1], jobs' \cup lost', disk')
    <3> DEFINE d == dir.doc[1]
    <3>1. Sound(d, jobs \cup lost, disk) /\ dir'.doc[1] = d
      BY <2>1, <2>2 DEF Document
    <3> HIDE DEF d
    <3> QED BY <3>1, SoundStays
  <2> QED BY <2>2 DEF Document
<1> QED BY <1>1, <1>2

-----------------------------------------------------------------------------
(* The theorems.                                                           *)

\* The initial states satisfy the invariant.
LEMMA InitIInv == Init => IInv
<1> SUFFICES ASSUME Init PROVE IInv
  OBVIOUS
<1>1. Staged /\ Outcome /\ NeverWedged
  BY DEF Init, Staged, Outcome, NeverWedged, Solving
<1> QED BY <1>1, ShapesInit, LedgerInit, RootInit, ReplayedInit, OverlaysInit,
           DepictedInit, DocumentInit DEF IInv

\* A stuttering step keeps the invariant.
LEMMA Stutter == IInv /\ UNCHANGED vars => IInv'
<1> SUFFICES ASSUME IInv, UNCHANGED vars PROVE IInv'
  OBVIOUS
<1>1. /\ pc' = pc /\ ex' = ex /\ wk' = wk /\ layer' = layer /\ job' = job /\ store' = store
      /\ behind' = behind
      /\ disk' = disk /\ dir' = dir /\ scene' = scene /\ jobs' = jobs /\ lost' = lost
      /\ fails' = fails /\ error' = error
  BY DEF vars, history, results
<1>2. Shapes'
  BY <1>1 DEF IInv, Shapes
<1>3. Ledger'
  BY <1>1 DEF IInv, Ledger, Submitted
<1>4. Root'
  BY <1>1 DEF IInv, Root, Results
<1>5. Replayed'
  BY <1>1 DEF IInv, Replayed
<1>6. Overlays'
  <2>1. /\ EffectiveForcing(job.batch)' = EffectiveForcing(job.batch)
        /\ EffectiveLand(job.batch)' = EffectiveLand(job.batch)
        /\ EffectiveParams(job.batch)' = EffectiveParams(job.batch)
        /\ MassingFold(job.batch)' = MassingFold(job.batch)
    BY <1>1 DEF EffectiveForcing, EffectiveLand, EffectiveParams, MassingFold
  <2> QED BY <1>1, <2>1 DEF IInv, Overlays, Paired, ByWorker
<1>7. Staged'
  <2>1. ValueEqual(job.batch)' = ValueEqual(job.batch)
    BY <1>1 DEF ValueEqual, EffectiveForcing, EffectiveLand, EffectiveParams
  <2> QED BY <1>1, <2>1 DEF IInv, Staged
<1>8. Depicted'
  BY <1>1 DEF IInv, Depicted, Accumulated
<1>9. Outcome'
  <2>1. Wanted' = Wanted
    BY <1>1 DEF Wanted
  <2>2. Reconciled' = Reconciled
    BY <1>1 DEF Reconciled, Wrote
  <2>3. FallenBehind' = FallenBehind
    BY <1>1 DEF FallenBehind, Written
  <2> QED BY <1>1, <2>1, <2>2, <2>3 DEF IInv, Outcome
<1>10. Document'
  BY <1>1 DEF IInv, Document
<1>11. NeverWedged'
  BY <1>1 DEF IInv, NeverWedged
<1> QED BY <1>2, <1>3, <1>4, <1>5, <1>6, <1>7, <1>8, <1>9, <1>10, <1>11 DEF IInv

\* Every step keeps the invariant.
LEMMA NextIInv == IInv /\ [Next]_vars => IInv'
<1> SUFFICES ASSUME IInv, Next PROVE IInv'
  BY Stutter
<1>1. /\ Shapes /\ Ledger /\ Root /\ Replayed /\ Overlays /\ Staged
      /\ Depicted /\ Outcome /\ Document /\ NeverWedged
  BY DEF IInv
<1>2. Shapes' /\ Ledger' /\ Root'
  BY <1>1, ShapesStep, LedgerStep, RootStep
<1>3. Replayed' /\ Overlays' /\ Staged'
  BY <1>1, ReplayedStep, OverlaysStep, StagedStep
<1>4. Depicted' /\ Outcome' /\ Document' /\ NeverWedged'
  BY <1>1, DepictedStep, OutcomeStep, DocumentStep, NeverWedgedStep
<1> QED BY <1>2, <1>3, <1>4 DEF IInv

\* The invariant holds in every reachable state.
THEOREM Invariance == Spec => []IInv
<1>1. Init => IInv
  BY InitIInv
<1>2. IInv /\ [Next]_vars => IInv'
  BY NextIInv
<1> QED BY <1>1, <1>2, PTL DEF Spec

\* Between batches every plane that is served depicts exactly the scenario the
\* accepted batches ask for, whatever route each took, whatever failed and
\* whenever the process ended (PlanExecutor.execute, restore_into_executor).
THEOREM ScenarioServed == Spec => []ServedIsScenario
<1>1. IInv => ServedIsScenario
  BY DEF IInv, Depicted, Shows, ServedIsScenario, Served
<1> QED BY <1>1, Invariance, PTL

\* Between batches the worker's watermarks are the executor's overlays, no tree
\* edit is pending and the revision counts the batches that published: the
\* pairing a snapshot asserts always holds (rollback_pending, adopt_published).
THEOREM WorkerIsPaired == Spec => []WorkerPaired
<1>1. IInv => WorkerPaired
  <2> SUFFICES ASSUME IInv, pc = "idle"
               PROVE  /\ Watermarks(wk) = [acked |-> wk.acked, forcing |-> ex.forcing,
                                           land |-> ex.land, params |-> ex.params]
                      /\ ~TreePending
                      /\ ex.rev = Cardinality(jobs)
                      /\ Tree = scene.tree
    BY DEF WorkerPaired
  <2>1. pc \notin Busy
    BY DEF Busy, Solving
  <2>2. Watermarks(wk) = [acked |-> wk.acked, forcing |-> ex.forcing,
                          land |-> ex.land, params |-> ex.params]
    BY <2>1 DEF IInv, Overlays, Paired, Watermarks
  <2>3. ex.rev = Cardinality(jobs)
    BY <2>1 DEF IInv, Ledger
  <2>4. Tree = scene.tree /\ Consumed(layer, wk.acked, scene.tree)
    BY <2>1, TreeFacts DEF IInv, Replayed
  <2>5. ~TreePending
    BY <2>4 DEF TreePending, Consumed
  <2> QED BY <2>2, <2>3, <2>4, <2>5
<1> QED BY <1>1, Invariance, PTL

\* No batch is refused because nothing is pending or because the published scope
\* undercuts the plan, whatever failed before it (ExactWorker.run,
\* _reconcile_scope): a failed batch can be retried.
THEOREM NotWedged == Spec => []NeverWedged
<1>1. IInv => NeverWedged
  BY DEF IInv
<1> QED BY <1>1, Invariance, PTL

\* Between batches the results root holds the patches of the published batches
\* and of those an end of the process took, no others (_discard_patches).
THEOREM RootHasNoOrphans == Spec => []NoOrphans
<1>1. IInv => NoOrphans
  <2> SUFFICES ASSUME IInv, pc = "idle" PROVE {d[1] : d \in disk} \ lost = jobs
    BY DEF NoOrphans
  <2>1. pc \notin Busy
    BY DEF Busy, Solving
  <2>2. /\ \A d \in disk : d[1] \in jobs \cup lost
        /\ \A j \in jobs : \E d \in disk : d[1] = j
    BY <2>1 DEF IInv, Root
  <2>3. jobs \cap lost = {}
    BY DEF IInv, Ledger
  <2> QED BY <2>2, <2>3
<1> QED BY <1>1, Invariance, PTL

\* No edit of a log changes nothing, a batch has at most one patch per region, and
\* the root holds patches of submitted batches.
Edits(l) == \A i \in 1 .. Len(l) : l[i][1] # l[i][2]
TypeInv ==
  /\ Edits(layer) /\ (dir.doc # Nothing => Edits(dir.doc[1].layer))
  /\ disk \subseteq (1 .. MaxBatches) \X (1 .. Cardinality(Regions))
  /\ pc \in Solving => Len(job.patches) <= Cardinality(Regions)

\* Appending an edit that changes the tree.
LEMMA AppendChange ==
  ASSUME NEW T, NEW l \in Seq(T \X T), Edits(l), NEW a \in T, NEW b \in T, a # b
  PROVE  Edits(Append(l, <<a, b>>))
<1> DEFINE e == <<a, b>>
           m == Append(l, e)
<1>1. e \in T \X T /\ e[1] # e[2]
  OBVIOUS
<1> HIDE DEF e
<1>2. /\ Len(m) = Len(l) + 1 /\ Len(l) \in Nat /\ m[Len(l) + 1] = e
      /\ \A i \in 1 .. Len(l) : m[i] = l[i]
  BY <1>1
<1> HIDE DEF m
<1>3. ASSUME NEW i \in 1 .. Len(m) PROVE m[i][1] # m[i][2]
  <2>1. i \in 1 .. Len(l) \/ i = Len(l) + 1
    BY <1>2
  <2> QED BY <2>1, <1>1, <1>2 DEF Edits
<1>4. Edits(m)
  BY <1>3 DEF Edits
<1> QED BY <1>4 DEF m, e

\* Every step keeps the edits and the sizes.
LEMMA TypeInvStep ==
  ASSUME IInv, TypeInv, Next
  PROVE  TypeInv'
<1>0. /\ Shapes /\ Ledger /\ Root /\ Replayed /\ Overlays /\ Staged
      /\ Depicted /\ Outcome /\ Document
  BY DEF IInv
<1>a. /\ Edits(layer) /\ (dir.doc # Nothing => Edits(dir.doc[1].layer))
      /\ disk \subseteq (1 .. MaxBatches) \X (1 .. Cardinality(Regions))
      /\ pc \in Solving => Len(job.patches) <= Cardinality(Regions)
      /\ layer \in Seq(Trees \X Trees) /\ Tree = TreeOf(layer) /\ TreeOf(layer) \in Trees
  BY <1>0, TreeFacts DEF TypeInv, Replayed
<1>1. CASE \E b \in Batches : Refuse(b) \/ ExecuteNoop(b)
  <2>1. UNCHANGED <<pc, layer, dir, disk, job>>
    BY <1>0, <1>1, StageOnly
  <2> QED BY <2>1, <1>a DEF TypeInv
<1>2. ASSUME NEW b \in Batches, Execute(b) PROVE TypeInv'
  <2>1. pc' = "dispatch" /\ UNCHANGED <<dir, disk>>
    BY <1>0, <1>2, ExecuteFields
  <2>2. Edits(layer')
    <3>1. CASE b.tree = Keep
      BY <1>2, <3>1, <1>a DEF Execute
    <3>2. CASE b.tree # Keep
      <4> DEFINE o == Tree
                 n == b.tree
      <4>1. layer' = Append(layer, <<o, n>>) /\ o # n /\ o \in Trees /\ n \in Trees
        BY <1>2, <3>2, <1>a DEF Execute, Executable, Trees
      <4> HIDE DEF o, n
      <4> QED BY <4>1, <1>a, AppendChange
    <3> QED BY <3>1, <3>2
  <2> QED BY <2>1, <2>2, <1>a DEF TypeInv, Solving
<1>3. CASE SolveFast \/ SolveWarm \/ SolveChain \/ SolveFull \/ SolveLocal
  <2>1. UNCHANGED <<layer, dir, disk>> /\ Len(job'.patches) <= Cardinality(Regions)
    BY <1>0, <1>3, SolveSteps DEF Advances
  <2> QED BY <2>1, <1>a DEF TypeInv
<1>4. CASE Rename
  <2>1. /\ pc = "rename" /\ UNCHANGED <<layer, dir>> /\ job'.patches = job.patches
        /\ job.renamed < Len(job.patches) /\ disk' = disk \cup Results(job.renamed + 1)
    BY <1>0, <1>4, RenameFields DEF Advances, Rename
  <2>2. pc \in Busy /\ pc \in Solving
    BY <2>1 DEF Busy, Solving
  <2>3. job.id \in 1 .. MaxBatches
    <3>1. Submitted \in Nat /\ MaxBatches \in Nat
      BY <1>0, SubmittedFacts, ExecutorAssumption DEF Ledger
    <3> QED BY <2>2, <3>1, <1>0 DEF Ledger
  <2>4. /\ job.renamed \in Nat /\ Len(job.patches) \in Nat /\ Cardinality(Regions) = 3
        /\ Len(job.patches) <= Cardinality(Regions)
    BY <2>2, <1>0, <1>a, RegionCount DEF Root
  <2>5. \A k \in 1 .. job.renamed + 1 : k \in 1 .. Cardinality(Regions)
    BY <2>1, <2>4
  <2>6. Results(job.renamed + 1) \subseteq (1 .. MaxBatches) \X (1 .. Cardinality(Regions))
    BY <2>3, <2>5 DEF Results
  <2> QED BY <2>1, <2>2, <2>6, <1>a DEF TypeInv
<1>5. CASE Published
  <2>1. pc = "rename" /\ UNCHANGED <<layer, dir, disk, job>>
    BY <1>0, <1>5, PublishedFields DEF Advances
  <2> QED BY <2>1, <1>a DEF TypeInv, Solving
<1>6. CASE Commit
  <2>1. pc' = "idle" /\ UNCHANGED <<layer, dir, disk>>
    BY <1>0, <1>6, CommitFields
  <2> QED BY <2>1, <1>a DEF TypeInv, Solving
<1>7. CASE Fail
  <2>1. /\ pc \in Busy /\ pc' = "idle" /\ UNCHANGED dir /\ disk' = Discarded
        /\ layer' = (IF job.batch.tree = Keep THEN layer
                     ELSE Append(layer, <<job.tree[2], job.tree[1]>>))
    BY <1>0, <1>7, FailFields
  <2>2. Edits(layer')
    <3>1. CASE job.batch.tree = Keep
      BY <2>1, <3>1, <1>a
    <3>2. CASE job.batch.tree # Keep
      <4> DEFINE o == scene.tree
                 n == job.batch.tree
      <4>1. /\ job.tree = <<o, n>> /\ n # o /\ TreeOf(layer) = n
            /\ Consumed(layer, job.marks.acked, o) /\ job.marks.acked < Len(layer)
        BY <2>1, <3>2, <1>0 DEF Replayed
      <4>2. o \in Trees
        <5>1. job.marks.acked + 1 \in 1 .. Len(layer)
          BY <4>1, <1>a DEF Consumed
        <5>2. layer[job.marks.acked + 1] \in Trees \X Trees
          BY <5>1, <1>a
        <5> QED BY <4>1, <5>2 DEF Consumed
      <4>3. layer' = Append(layer, <<n, o>>) /\ n \in Trees
        <5>1. job.tree[1] = o /\ job.tree[2] = n
          BY <4>1
        <5> QED BY <5>1, <2>1, <3>2, <4>1, <1>a
      <4> HIDE DEF o, n
      <4> QED BY <4>1, <4>2, <4>3, <1>a, AppendChange
    <3> QED BY <3>1, <3>2
  <2> QED BY <2>1, <2>2, <1>a DEF TypeInv, Solving, Discarded
<1>8. CASE SaveMemo
  <2>1. /\ pc' \notin Busy /\ UNCHANGED <<layer, disk>>
    BY <1>0, <1>8, SaveFields
  <2>2. dir'.doc = dir.doc
    <3> DEFINE m == MemoOf(ex)
    <3>1. dir' = [dir EXCEPT !.memo = m] \/ dir' = dir
      BY <1>8 DEF SaveMemo
    <3> HIDE DEF m
    <3> QED BY <3>1, <1>0 DEF Shapes, HasFields
  <2> QED BY <2>1, <2>2, <1>a DEF TypeInv, Busy
<1>9. CASE SaveDocument
  <2>1. /\ pc' \notin Busy /\ UNCHANGED <<layer, disk>>
    BY <1>0, <1>9, SaveFields
  <2>2. dir'.doc[1].layer = layer
    <3> DEFINE e == [ex EXCEPT !.memo = 0]
               d == [ex |-> e, acked |-> wk.acked, layer |-> layer, store |-> store,
                     entry |-> entry, behind |-> behind, memo |-> MemoOf(ex), scene |-> scene, jobs |-> jobs]
    <3>1. dir' = [dir EXCEPT !.doc = <<d>>]
      BY <1>9 DEF SaveDocument
    <3> HIDE DEF e
    <3>2. d.layer = layer
      OBVIOUS
    <3> HIDE DEF d
    <3> QED BY <3>1, <3>2, <1>0 DEF Shapes, HasFields
  <2> QED BY <2>1, <2>2, <1>a DEF TypeInv, Busy
<1>10. CASE EndProcess
  <2>1. pc' = "down" /\ layer' = <<>> /\ UNCHANGED <<dir, disk>>
    BY <1>10, EndFields
  <2>2. Edits(<<>>)
    BY DEF Edits
  <2> QED BY <2>1, <2>2, <1>a DEF TypeInv, Solving
<1>11. CASE Restore
  <2>1. /\ pc' = "idle" /\ dir.doc # Nothing /\ layer' = dir.doc[1].layer
        /\ UNCHANGED <<dir, disk>>
    BY <1>0, <1>11, RestoreFields
  <2> QED BY <2>1, <1>a DEF TypeInv, Solving
<1>12. CASE RestoreRefused
  <2>1. UNCHANGED <<pc, layer, disk, dir>>
    BY <1>12, RefusedFields
  <2>2. pc' \notin Busy
    BY <1>12, RefusedFields DEF Busy, Solving
  <2> QED BY <2>1, <2>2, <1>a DEF TypeInv, Solving, Busy
<1> QED BY <1>1, <1>2, <1>3, <1>4, <1>5, <1>6, <1>7, <1>8, <1>9, <1>10, <1>11, <1>12 DEF Next

\* Types: the revision and the results root stay within the batches submitted, the
\* worker never acknowledges beyond the layer's log, and the log holds no edit that
\* changes nothing (ExactWorker, TreeLayer).
THEOREM TypeCorrect == Spec => []TypeOK
<1>1. Init => TypeInv
  BY DEF Init, TypeInv, Edits, Solving
<1>2. IInv /\ TypeInv /\ [Next]_vars => TypeInv'
  <2>1. IInv /\ TypeInv /\ Next => TypeInv'
    BY TypeInvStep
  <2>2. TypeInv /\ UNCHANGED vars => TypeInv'
    BY DEF TypeInv, vars
  <2> QED BY <2>1, <2>2
<1>3. IInv /\ TypeInv => TypeOK
  <2> SUFFICES ASSUME IInv, TypeInv PROVE TypeOK
    OBVIOUS
  <2>1. pc \in {"idle", "dispatch", "rename", "record", "saving", "down"}
    BY DEF IInv, Shapes, Busy, Solving
  <2>2. /\ Cardinality(jobs) \in Nat /\ Submitted \in Nat /\ Cardinality(jobs) <= Submitted
        /\ MaxBatches \in Nat
    BY SubmittedFacts, ExecutorAssumption DEF IInv, Ledger
  <2>3. ex.rev \in 0 .. MaxBatches
    BY <2>2 DEF IInv, Ledger
  <2>4. wk.acked \in 0 .. Len(layer)
    <3>1. CASE pc \notin Busy
      BY <3>1 DEF IInv, Replayed, Consumed
    <3>2. CASE pc \in Busy
      <4>1. job.marks.acked \in 0 .. Len(layer) /\ Len(layer) \in Nat
        BY <3>2 DEF IInv, Replayed, Consumed
      <4>2. wk.acked \in {job.marks.acked, Len(layer)}
        BY <3>2 DEF IInv, Overlays, Watermarks
      <4> QED BY <4>1, <4>2
    <3> QED BY <3>1, <3>2
  <2>5. \A e \in ToSet(layer) : e[1] # e[2]
    <3>1. DOMAIN layer = 1 .. Len(layer)
      BY DEF IInv, Replayed
    <3> QED BY <3>1 DEF TypeInv, Edits, ToSet
  <2>6. pc \in {"idle", "saving", "down"} <=> job = NoJob
    <3>1. CASE pc \in Busy
      <4>1. job.id # 0
        BY <3>1, <2>2 DEF IInv, Ledger
      <4> QED BY <3>1, <4>1 DEF NoJob, Busy, Solving
    <3>2. CASE pc \notin Busy
      BY <3>2 DEF IInv, Shapes
    <3> QED BY <3>1, <3>2
  <2> QED BY <2>1, <2>3, <2>4, <2>5, <2>6 DEF TypeOK, TypeInv
<1> QED BY <1>1, <1>2, <1>3, Invariance, PTL DEF Spec
=============================================================================
