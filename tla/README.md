# SOLWEIG Studio realtime plane: TLA+ specifications

This directory models SOLWEIG Studio: the server (`solweig_gpu/server/`) and
browser client (`studio/`) that let several people edit one thermal-comfort
scenario at once, and the plan executor (`solweig_gpu/incremental/`) that turns
their edits into results. TLC checks the modules on
small instances; the safety properties of every module but the reducer also have
machine-checked proofs for every instance. `PROJECT.json` maps each definition to the
lines it models.

## 1. The system

Paths are relative to the repository root.

| Component | State it keeps | Operations |
|---|---|---|
| Operation ledger and epoch rows (`server/store.py`) | `realtime_operations`, `realtime_epochs`, `realtime_canonical_state`, `scenarios.scene_version` in SQLite | `append_operations`, `mark_epoch_status`, `commit_epoch_reduction`, reads |
| Epoch scheduler (`server/realtime/epochs.py`) | a daemon thread, its generation, the window | `start`/`recover`, `run_once` per tick, `close_epoch`, `_publish` |
| Broadcast hub and SSE route (`server/realtime/broadcast.py`, `routes_realtime.py`) | subscribers, per-stream queue and lag flags, presence refcounts | `_publish`, `send_heartbeats`, `subscribe`, `unsubscribe`, `close`, `get_events` |
| Realtime client (`studio/realtime_client.mjs`) | per workspace: EventSource, gap fence, buffer, watermark, revision, reconnect flags, pending acks | `subscribeWorkspace`, stream events and errors, missed-events recovery, reconnect cycle, catch-up, `submitOperations` |
| Fast lane (`server/realtime/scheduler.py`, `qualification.py`, `compensated.py`) | pending map, `fast_revision` | `on_epoch_closed`, discovery scan, `_publish_fast` |
| Exact lane and job runner (`server/jobs.py`, `routes_jobs.py`) | job rows, result rows, the runner's queue, churn guard, daily attempts | tick, dispatch, supersede, cancel, finalise, idle reconcile, recovery |
| Executor bridge (`server/executor_bridge.py`) | staged snapshot, generations, coverage sidecar | route, replay, stage, adopt, collect |
| Plan executor and worker (`incremental/executor.py`, `worker.py`, `store.py`) | applied overlays, tree layer, staged edits, patches, temporal store, thermal checkpoints | `execute`, four solve routes, publish, record, commit, roll back |
| Publish fence (`server/realtime/publish_fence.py`) | a lease on a running job | check, publish |
| Admission (`server/realtime/admission.py`) | reservations, burst buckets | admit, release |
| Reducer (`server/realtime/reducer.py`) | none (pure) | last-writer-wins fold of operations |
| Legacy edit plane (`server/routes_scenarios.py`, `store.py`) | scenario rows, events | `commit_edits`, reset |
| Studio exact session and API client (`studio/exact_session.mjs`, `api_client.mjs`) | mutation queue, held backlog, last attempt and its key, poll generation, awaited version | `connect`, `commitEdit`, conflict recovery, `retryLast`, `reset`, polling |
| Selected-time streaming, telemetry, server wiring, studio app | counters, configuration, views | - |
| Edit planner, incremental solver, numeric core, CUDA kernels, batch physics | arrays | numeric computation |

How they interact. A client POSTs operations; the route appends them to the
ledger, into the workspace's open epoch, and answers. The scheduler thread closes
an epoch when its window has elapsed: it marks the row, reads the operations,
reads the latest canonical state, folds, commits the fold under the next workspace
revision, and hands a `canonical_revision` event to the hub. The hub puts the
frame, via the event loop, into the bounded queue of each SSE stream. The client
applies it, and fetches `GET operations?since=` when it was told that it missed
events, when its stream broke, and right after subscribing. The fast and the
exact lane read assigned epochs and move the row's status on: the fast lane within
a deadline, with a frame that may be provisional; the exact lane by a job that
solves the operations since the last settled revision and publishes a result for
the version it targeted, under a lease. A legacy edit or reset bumps the same
version and mints a job of its own. A job goes through the executor bridge, which
restores the last adopted snapshot, replays the edits the snapshot lacks and lets
the plan executor solve them; the studio's session polls the job and shows its
result.

What is hard here:

- every store method is atomic but `close_epoch` is seven of them, and a second
  driver (a thread that outlived `stop()`'s timeout), an append, a lane or a crash
  may come between any two;
- the hub is called from the scheduler thread and works on the event loop: frames,
  heartbeats, registrations and resets of the lag flag interleave freely;
- the client has three asynchronous activities (join catch-up, missed-events
  recovery, reconnect cycle) that share one gap fence, one buffer, one watermark
  and one badge, and each resumes after an `await` into a state the others changed;
- a job is read, judged current, run, published and finished in separate
  transactions, against cancels, newer revisions, resets and restarts; what it must
  fold is computed from rows read earlier;
- the snapshot a job stages becomes the baseline of the next one by a rename and a
  sidecar flip, either of which may be the last thing the process does;
- the executor stages edits on the worker before it solves, takes one of four
  shortcuts, and must undo everything when any of it fails;
- queues overflow, requests fail or answer late, streams break, tabs are closed
  and reopened, the process restarts.

What makes each component correct: no accepted operation is lost or folded twice
and no revision moves (ledger, scheduler); every subscriber gets the newest
revision, or learns that it missed something, at bounded cost (hub); whatever
fails, the client ends up live with the newest revision or says that it failed
(client); every committed epoch gets a fast frame and is settled by an exact job that
folded it, and no outcome is overwritten (lanes); a result shows exactly the edits in
effect (bridge, executor); the canonical state depends on the log and not on where
its epochs were cut (reducer); no edit is committed twice and only the awaited result
is shown (session).

## 2. The modules

| Module | Models |
|---|---|
| `RevisionLog` | abstract specification: what the operation plane promises |
| `EpochPlane` | ledger, epoch rows and scheduler, with racing drivers, failing calls and restarts |
| `EpochPlaneProofs` | theorems about `EpochPlane`, and that it implements `RevisionLog` |
| `StreamQueue` | `Subscription._enqueue`: the bounded queue, used by the next two |
| `BroadcastHub` | the hub and the events route |
| `RealtimeClient` | one subscribed browser client against a server that commits, drops frames and answers late |
| `ExactLane` | job rows, runner, publish fence, cancel route, idle reconcile, with restarts |
| `FastLane` | fast-lane scheduler, its pending map and discovery scan, admission's gate, the revision triple |
| `ExecutorState` | executor bridge: durable snapshot, coverage sidecar, ledger replay and retention |
| `PlanExecutor` | one scenario's plan executor and exact worker |
| `Reducer` | the fold of operations into the canonical state, its deltas and conflicts |
| `ExactSession` | the studio's exact session over HTTP |
| `BroadcastHubProofs`, `RealtimeClientProofs`, `ExactLaneProofs`, `FastLaneProofs`, `ExecutorStateProofs`, `PlanExecutorProofs`, `ExactSessionProofs` | theorems about those components, see section 4 |
| `MCEpochPlane`, `MCBroadcastHub`, `MCReducer`, `MCPlanExecutor` | instances for TLC |

### EpochPlane

One workspace. An operation is its `server_sequence`, the index in `log`; a
canonical state is the set of operations folded into it (`folded`), since what
matters about a fold here is which operations it contains. `status`, `revision`,
`first`, `last` are the columns of `realtime_epochs`; `rows` are the revisions that
have a `realtime_canonical_state` row; `sceneVersion` is the workspace revision.
`pc`, `todo`, `cur`, `readOps`, `baseRev`, `baseOps` and `attempt` are what a driver
carries between two store calls. `acked` and `broadcasts` remember what clients
were told.

Actions: `AcceptBatch` is `post_operations` with `append_operations` (a conflicting
retry or a refused family rolls the batch back: no step); the scheduler's passes
are `Recover`, `ListStranded`, `ListOpen`, `EndPass`; `close_epoch` is `GetEpoch`,
`MarkClosed`, `RereadEpoch`, `ReadOperations`, `ReadBaseline`, then one of
`CommitAgain`, `CommitStale`, `CommitReduction`, then `Publish`. `Fail` makes any of
these calls raise and follows the `except` clauses; `Crash` loses everything that
is not in SQLite. The other writers of the same rows are `LegacyCommit` and `Reset`,
which raise `scene_version` without an epoch; `DerivePin` and `InsertPin`, the two steps in
which the exact lane's bootstrap reads the legacy ledger and inserts the canonical row of
revision 0 (the pin), which a reset deletes again (`VoidedRows`); `ConsumeExactEpoch`,
`ReadFastEpoch` and `PlanFastEpoch`. Of the legacy ledger only `legacy` is kept: whether it
has events since the last reset. `RevisionLog` lets the pin come and go beside the history,
whose rows only grow. The status
`fast_published` is in the vocabulary of the code but nothing writes it.

### StreamQueue and BroadcastHub

`pub` is the scheduler thread, `callbacks` the loop's pending
`call_soon_threadsafe` calls, `at` where each stream's route is. The two store reads
of `get_events` and the registration between them are three actions, because the
scheduler thread may commit and fan out between them; nothing else of the loop
can (`LoopFree`). `heartbeat_payload` is three actions (read flag and count, reset the
flag, reset the count), because it runs on the scheduler thread while `_enqueue`
runs on the loop. A stream that ends is unsubscribed twice, by
`Subscription.events()` and by the route's own `finally` (`EndStream`,
`CloseAgain`). `owed` remembers which streams lost a frame and were not told.

### RealtimeClient

`client` is the workspace record of the client: stream, state (the badge), gap fence,
buffer, watermark, revision, applied operations, reconnect flags, and the requests it
awaits (`gets`, each with its owner). Synchronous helpers are functions of that
record, in the order the code calls them; an action runs from one `await` to the
next. `cycle = "abandoned"` is `reconnectCycle` left true by a coroutine that
returned or will never resume. The server is reduced to what the client can see:
`Accept`, `CommitEpoch` (which fans out), `Heartbeat`, `Register` (the stream is
subscribed some time after the EventSource was created) and `AnswerGet`. A heartbeat
without a notice does nothing when flushed and is not put in the buffer.

The promises of the two coroutines have a `.catch`. `OpenThrows` (no EventSource can be
made), `ReconnectThrows` and `RecoverThrows` (a handler of the application throws after any
number of the buffered events) take it. The reconnect's does not lower the fence
(`Rejected`): `orphan` marks a fence so left, until the next attempt or recovery takes it
over. Left out: a throw in the dispatch of a live event or in `#status`, which leave the
fence as it was, a throw between two operations of one event, and the constructor of the
first subscription's stream, which throws to the caller.

### ExactLane

One workspace; an epoch carries one operation. `sceneVersion`, `exactVersion`, `rev`,
`settled`, `status`, `spec` and `results` are rows; `attempted` is the churn guard,
`attempts` the daily count of the idle reconcile. One store transaction is one step,
on the runner thread or on the route thread that commits a legacy edit. What the
solver does is its outcome (success, a typed refusal, an exception, a state that
cannot be used) and the set of operations its span resolves to. `Publish` repeats the
checks of `publish_result` inside its transaction; the lease's own earlier reads are
merged with it, since a refusal by either discards the result in the same way. The
scans before and after the runner's sleep are one step (`Take`), the write of
`_exact_attempted` is part of the mint, and grace, throttle and backoff timers only
delay, so they are steps that may happen whenever they are due. `NewDay` waits until
every logged epoch has committed, so that the daily budget cannot be spent on days in
which nothing happened.

`RunnerRaises` is what `_run_loop` catches: a dispatch or a finalisation raises outside the
solver, at any of its steps, and the runner goes on without the job; `dropped` are the rows
so left. A boot is `Start` (requeue and enqueue, on the route thread), the tick, `Started`,
and, when the workspace is the shared world (`SharedWorld`), `Heal` and `Reopen`: its newest
job, if it failed or was cancelled and nothing was ever published, goes back to the queue.
The runner already works at that time; requests, streams and cancels wait for `Serving`.
The workspace starts with its baseline job in the queue or, with `BaselineServed`, with the
baseline already published.

### FastLane

Two workspaces share one lane with a pending map of `MaxPending` places. `version`,
`exact`, `fast` are the revision triple; `pubs` and `frame` the latest publication in
memory and the latest one subscribers saw. Ingest, the epoch scheduler (`Closer`), the
lane (`Lane`) and the writers of the exact revision interleave at lock regions and
transactions. The kernels, the deadline gate and the qualification of a result are a
choice of class. Deadlines only order the items of a pass, so a pass takes them in any
order.

### ExecutorState

A tree edit adds a tree, named by its sequence in the ledger; a family edit paints the one
cell or puts it back (`on`, `off`), so a batch can leave the scene as it is. A scene is the
set of places that differ from the baseline. `sidecar`, `gens` and `pending` are the files
of `executor_bridge.py`; each rename, flip, collection and transaction is a step and `Crash`
may come between any two. A snapshot can be restored only by the lane that wrote it (the
lanes differ in `full_recompute_fraction`).

A solve computes a window of its choice that has every place its batch writes and every
tree its fresh base still owes a solve; the result is the latest one, overwritten there
(`Compose`). A batch that changes nothing, or a span that maps to no command, is
`ExecuteNoop`: it stages a snapshot but computes nothing, and the runner serves the latest
result again at the job's version (`Reserve`), completes at once if it is there already, or
fails if there is none. Such a job publishes without acknowledging the ledger. `own` says of
a result that no result it goes back to was served again by a job that had started from
another scene than that result's (another snapshot, a rebuild, or seeded trees not yet
solved): there the code has nothing to compare, and what it then serves is
`ReservedSceneIsExact` in section 5. `Publish` of an existing version is idempotent for the
same result (the re-run after a crash) and `PublishRefused` otherwise. Edits and deletions
of a tree, several cells and the seeding from the realtime fold are left out.

### PlanExecutor

The executor runs in one thread; the hard part is failure. A product plane is the tuple
of inputs the physics read for it, so a plane that misses an edit differs from the
plane of the scenario. The tile has three regions (trees, paint, rest), forcing has one
variable that enters only the comfort step and one that enters the radiation, whose
thermal state is carried from step to step. A batch requests products (`vars`; utci always),
and a patch carries those only: `behind` are the planes a batch changed without requesting
their product, which the store keeps as they were. `entry` is the identity under which the
store holds a plane, one per patch: the windows of a local job have one each. `Execute` stages a batch; `SolveFast`,
`SolveWarm`, `SolveChain`, `SolveFull` and `SolveLocal` are the routes; `Rename`,
`Published` and `Commit` follow; `Fail` (refusal, exception, supersession) may replace any
of them. `SaveMemo` and `SaveDocument` are the two file replacements of a save
(`scenario_state.py`); `EndProcess` may come at any step, and `Restore` builds a fresh
executor from the directory; `RestoreRefused` leaves the process down when the document's memo
hash does not match, or when the store refuses the saved entries because two of them share a
revision and not a job (`Replayable`). `lost` are the batches an end of the process cut short or took back (the bridge
replays them from the ledger, see `ExecutorState`). Left out: view-only batches, whole-series forcing edits as distinct from one
step's, batches with several trees, the choice of a checkpoint, and failures of the
rollback's best-effort discards and of the tree layer's undo.

### Reducer

A payload is its meaning (fields, window and cells, interval and values, selection); the
payload grammar and the stripping of identity keys are left out. Operations are appended
to a log and an epoch may close after any of them, so that all splits of all logs of a
pool are explored. Conflicts are a set of records; their order is layout. The reference
definitions after `Next` say over the whole log, without a fold, what the result must be.

### ExactSession

An action is a stretch of JavaScript from one `await` to the next, or the server serving
one request; requests, answers, timers and downloads are in flight until a step takes
them, in any order. The edit, reset, job and result routes are external: a replay of a
known key comes first, then the site check, then the base version. Which edits a
conflict recovery applies again is a choice (the caller's policy), and the rate gate may
answer 429 at any time. `RetryLast` is taken from the failure display only, where the
studio offers it. A job ends complete, failed or superseded, the last with or without a
newer version; the session drops a superseded one without a word (`exact_session.mjs:971-976`).

## 3. The runs

Bounds are named constants, given in the cfg.

| Run | Checks | What it shows |
|---|---|---|
| `drivers` | `TypeOK`, `NoLostFold`, `AssignedOnce`, `ImplementsRevisionLog` | two drivers over two epochs, two legacy commits or resets and the pin of revision 0 coming and going in between: stale baselines, double closes, re-drives of committed epochs |
| `restart` | `BroadcastComplete`, `EpochSpansPartitionLog`, `AcksTruthful`, `EventuallyCanonical` | two failing calls, two restarts, a legacy bump, batches of two with retries, reused ids and a refused family |
| `hub` | `TypeOK`, `NoStranding`, `GrowthOnlyByHeartbeats`, `NoGhostActors`, `ShutdownEndsStreams` | two tabs of one actor come and go while a revision commits, queues overflow and the hub closes |
| `client` | `FenceOwned`, `OneReconnectCycle`, `ReconnectSettles`, `RevisionConverges` | two errors (of the stream, a request, its constructor, or a handler in a flush) and a re-subscription at any await: one cycle, a fence with an owner unless a reconnect was rejected, and every reconnect ends |
| `lane_faults` | `TypeOK`, `SingleFlight`, `CompleteIsSettled`, `NoJobIsLost`, `OutcomeStands`, `PublishIsFenced` | the shared world with its first job still queued; two epochs (in either order), a legacy edit, a reset, a cancel, a failed solve or a dispatch that raises, and a restart that may reopen the baseline, at any step |
| `lane_live` | `EventuallySettled` | every committed epoch is settled, through refusals, supersession, a legacy edit, a moving audience and a restart |
| `lane_span` | violates `ZeroLoss` | see section 5 |
| `exec_crash` | `ServedSceneIsSound`, `CoverageIsDurable` | three edits or resets, four jobs of two lanes, batches that change nothing, a cancel, sweeps without an audit tail, a restart at any step |
| `fast_lane` | `FramesNeverRegress`, `EventuallyFast`, `QualifiedRetires` | two workspaces and one place in the queue; a failed store call, an exact publication or reset, a restart |
| `session` | `AtMostOnce`, `AppliedIsAwaited`, `EventuallySettled` | two edits and any two of: lost message, 429, another editor, reset, retry, swapped site |
| `reducer` | `LastWriterWins`, `SegmentsCanonical`, `DeltaIsNetChange`, `ContestedWritesDisclosed` | every log of four operations of two actors, per kind of family, in every split into epochs |
| `executor` | `ServedIsScenario`, `WorkerPaired`, `NeverWedged`, `NoOrphans` | three batches of every family, some of which request utci only, one of which may be refused, fail or be superseded at any point, two saves and a restart |

The remaining modules' `TypeOK` holds on the same instances (add `INVARIANT TypeOK` to
the cfg).

Why the bounds are enough to be interesting. Two drivers and two epochs give a
stale baseline and a retry on a fresh one; two bumps put a reset between a derived pin and
its insert, and another after it.
`MaxBatch = 2` puts a batch on both sides of a close. The queue holds 256 frames in
the code and one or two here: only "full" and "not full" differ, and two is the
least capacity the snapshot and its correction fit in. The client retries three
times in the code, once or twice here: first, middle and last attempt are told apart
with two. Three jobs let one be superseded, one be cancelled or fail and one
complete; the span and the churn guard need two epochs. The queue of the fast lane is
at its limit with the second workspace. Segments are carved, split and merged with
three timesteps and an open end; the horizon is beyond both. Three batches
are one to accumulate on, one that fails and its retry, or two saves that differ in
their memo and a batch after the restore; the theorems of section 4 cover any number of
batches, failures and saves. `EventTail = 0`
makes the sweep delete as early as it may. `lane_live` has no failing solve: after one
the churn guard waits for a newer revision by design; nor a dispatch that raises, after which
the row of an exact job stays live, and holds off every mint for its revision, until the
next restart (`jobs.py:1682-1684` says so of the runner). The client's server accepts one
operation: the runs check fences and cycles, the order of several revisions is left to
`hub` and `drivers` (two operations do not fit the time of a run). Deadlock is not checked: every bound (operations, errors, restarts) lets
an instance run out of work, and an idle server is no error.

Fairness. `EpochPlane!Fairness`: the scheduler is a daemon thread whose loop catches
every exception and ticks again, and time passes, so windows elapse; clients,
lanes, failures and crashes are never forced. `BroadcastHub!Fairness`: the event
loop runs its callbacks and resumes its routes, and a connected client reads; needed
only for the end of streams. `RealtimeClient!Fairness`: connections are made,
requests settle, timers fire, the browser dispatches events, and the server's thread
closes epochs and sends heartbeats. Errors are bounded by `MaxErrors` and never
forced: a client whose network fails for ever ends in `failed`, which both
liveness properties admit. `ExactLane!Fairness`: runner and route threads go on, days
pass, a committed fold follows a closed epoch, and a reconcile that comes due again and
again is minted (strong fairness: the runner's other work disables it in between).
`FastLane!FairSpec`: the lane and the epoch scheduler are looping threads; nothing about
clients or the exact lane. `ExactSession!FairSpec`: timers fire, requests are served and
answered or fail, jobs end; the user is never forced.

Each property is shown to be sensitive to the code by a variation of a modelled
definition (commented "Variation of ..." next to it) under which TLC finds the
property violated.

## 4. What is proved

Eight modules `*Proofs` hold theorems that TLAPS checks to the last step, for every value
of the constants: any number of operations, drivers, streams, tabs, workspaces, jobs,
edits, batches, timesteps, failures, saves and crashes. The only assumptions are the named `ASSUME` of each component
(the bounds are naturals, sizes that the code requires to be positive are), and one
hypothesis, at `QueueGrowth`.

| Module | Theorems and the properties they state |
|---|---|
| `EpochPlaneProofs` | `TypeCorrect`, `NoFoldIsLost` (`NoLostFold`), `BroadcastsAreComplete` (`BroadcastComplete`), `RevisionsAreAssignedOnce` (`AssignedOnce`), `AcksStayTruthful` (`AcksTruthful`), `SpansPartitionTheLog` (`EpochSpansPartitionLog`), `Refinement` (`ImplementsRevisionLog`) |
| `BroadcastHubProofs` | `TypeCorrect`, `NoGhosts` (`NoGhostActors`), `NobodyStranded` (`NoStranding`), `QueueGrowth` (`GrowthOnlyByHeartbeats`) |
| `RealtimeClientProofs` | `TypeCorrect`, `FenceHasAnOwner` (`FenceOwned`), `ReconnectIsSingle` (`OneReconnectCycle`) |
| `ExactLaneProofs` | `TypeCorrect`, `ExactIsSingleFlight` (`SingleFlight`), `CompleteMeansSettled` (`CompleteIsSettled`), `LiveJobsAreKept` (`NoJobIsLost`), `OutcomesStand` (`OutcomeStands`), `PublicationIsFenced` (`PublishIsFenced`) |
| `FastLaneProofs` | `TypeCorrect`, `FramesAreMonotone` (`FramesNeverRegress`) |
| `ExecutorStateProofs` | `ServedSceneSound` (`ServedSceneIsSound`), `CoverageDurable` (`CoverageIsDurable`) |
| `PlanExecutorProofs` | `TypeCorrect`, `ScenarioServed` (`ServedIsScenario`), `WorkerIsPaired` (`WorkerPaired`), `NotWedged` (`NeverWedged`), `RootHasNoOrphans` (`NoOrphans`) |
| `ExactSessionProofs` | `EditsApplyOnce` (`AtMostOnce`), `OnlyTheAwaitedIsShown` (`AppliedIsAwaited`) |

Each module proves `Invariance == Spec => []IInv` for an inductive invariant `IInv`, one
lemma per action or group of actions, and derives its theorems from it; `AssignedOnce`,
`OutcomeStands`, `PublishIsFenced`, `FramesNeverRegress` and `AppliedIsAwaited` are action
properties, proved of one step from `IInv`. Each `IInv` was checked with TLC as an invariant
of the component before it was proved.

### EpochPlane

None of the properties is inductive by itself: `NoLostFold` says nothing about the
baseline a driver holds when it commits. `IInv == TypeOK /\ StoreOK /\ DriverOK /\
FastOK` adds what is missing:

- `EpochRowsOK`: only the newest epoch is open, and an assigned epoch is not open,
  so an append never joins an epoch that has a revision or that a driver has read;
- `RowsOK`: assigned revisions have rows, rows are bounded by `sceneVersion` and have a
  largest element, so a commit writes a new row above all others;
- `DriverOK`: the operations a driver read are still all operations of its epoch, and
  the baseline it holds is the stored fold of the row it names;
- `FastOK`: the fast lane plans existing epochs only.

The step that matters is `CommitReduction`: the guard says that the driver's baseline
row is still the latest, so by `NoLostFold` the baseline is the set of all operations
of assigned epochs, and with the operations of its own epoch (unassigned, hence
disjoint) the new row is again. `Refinement` uses `IInv` for the same step: it maps to
`RevisionLog!Publish`, every append to `Accept`, `InsertPin` and `Reset` to `Pin` and
`Unpin`, and everything else to a stutter. The pin holds no operation of the log, so it is
in no fold's way, and a baseline of revision 0 is the empty one with or without it.

A second invariant, `LedgerOK`, is about what only a batch writes: operation ids are
unique in the log, the spans are laid end to end and the last one ends where the log
does. A retry then finds the one row its first attempt left, and an epoch's operations
are an interval.

### BroadcastHub

`Routes` says what both threads know of a stream at each stage of `get_events`; `Roster`
that an actor is counted at most once for each live stream (unsubscribing twice can only
lower the count, and the membership test makes the second one a no-op). `Coverage` carries
`NoStranding`: a fan-out that skips a stream skips one that has the revision already, and
the last event waiting for a stream is of the newest published revision. The proof needs
no exception for streams that lost a frame: a queue drops its oldest frame for a newer
one. `QueueGrowth` counts, per stream, the heartbeats still to arrive (`Due`). It assumes
`QueueSize >= 2` (the code's default is 256): the corrective snapshot bypasses the capacity,
and in a queue of one, behind the first snapshot, it exceeds it before any heartbeat.

### RealtimeClient

`Sound` is about the requests in flight: the fence is up only if one of them is not a
join's or a rejected reconnect left it (`orphan`), one is a reconnect's exactly while the cycle waits for its catch-up, and no second
one is. Every synchronous helper is shown to keep it, and an action is a composition of
helpers. `Flush` delivers the buffer frame by frame; that it keeps `Sound` for every
buffer is shown with a least counterexample (a non-empty set of naturals has a least
member), since the prover cannot use the library's induction theorems.

### ExactLane

`JobsOK` says that rows are inserted in order, that only the runner's current row and the
rows it dropped run, and that the runner lets go of it only once it has ended or was dropped; `VersionsOK` that
`exact_result_version` is the newest version with a result; `EndingOK` that completion is
claimed only of a version that has one. With these, `CompleteIsSettled` survives a crash
between the publication and the settlement, because the row is still running then, and a
dispatch that raises there. `BootOK` says what is at rest while the process starts: the runner
has nothing in hand that a reopened row could meet, and the row `Heal` picked is the newest.
`OneFlight` is stronger than `SingleFlight`: of two exact jobs for one revision the older one
has ended, so that reopening the newest row brings no second one to life.

### FastLane

The fast and exact revisions, what is queued and what is published stay behind the
workspace revision, and the item in hand knows at each stage what was true when it was
read: `fast_exact` only for a revision the exact lane had covered, recorded with the fast
revision it was advanced to. A provisional publication is the last frame sent, so its
supersession repeats the frame's numbers.

### ExecutorState

`Types`, `Rows`, `Order` and `Runner` say that jobs are numbered and run in order with growing
marks, and that a job is for the current version only while the ledger ends at its mark;
`CarriesFamilies` that the tree-only solver gets a job only while no family edit is in
effect. `Faithful` is what a snapshot must be for a mark: every tree, no other but those its
job seeded and still owes a solve, the cell as the ledger has it if only one lane worked.
`Shown` is what a result must be: no tree that does not stand, and, if it is the job's `own`,
every tree. They differ because a no-op stages the scene it found and serves one it did not
look at.

`Snapshots`: generations are faithful and belong to complete jobs; the staged snapshot is
faithful if its job completed or is still current (a snapshot of an overtaken job need not
be, and is never adopted). `Sidecar`: it names a generation that exists at every step of the
promotion. `Shelf` orders the results: the latest one is behind no reset, no
acknowledgement and no completed job, so a tree the latest result lacks is above every
floor from which a window starts. `Published` and `Outcome` say that what is served, and what
the job in hand has computed or would serve again, is shown.

`WindowFacts` and `StagedIsFaithful` are about the base: in each of the three ways of `Window`
(restored snapshot, void after a reset, tree list), the base and the replayed edits are
together faithful, whatever was pruned, because the completeness guard and the last visible
reset leave no gap. `ExecutedIsShown` composes: outside the window of the solve the latest
result has what the ledger has, since every place that changed is written or owed.
`NoopIsShown` is the re-served result: when the base is the latest result's own snapshot and
owes nothing, a batch that changes nothing leaves the ledger's scene what it was.

### PlanExecutor

The batches may be any set: no assumption on `Batches` is needed. The properties speak of
the executor between two batches; the invariant says what holds in each step of one, so
that `Fail` and `EndProcess` may strike anywhere.

- `Ledger` and `Root`: batches are numbered, and the root holds the patches of published
  and lost batches and, of the batch in progress, those renamed so far. The discard of a
  failed batch removes exactly the last ones, which gives `NoOrphans`.
- `Replayed`: the tree edits after the acknowledged ones start at the tree they end with.
  This is stronger than "nothing is pending" and is what the rollback needs: it appends
  an undo after the edit it undoes, and the pair cancels for every later batch.
- `Overlays`: during a batch the worker holds the batch's overlays as staged, and its
  watermarks are still the executor's; only a worker job (full or local) moves them before
  the executor adopts the overlays. With `Replayed` this gives `WorkerPaired`.
- `Staged` with the lemma `DispatchDirty`: the batch is no value no-op, hence what a route
  finds dirty is what the batch changes and the plan promised; this gives `NeverWedged`,
  which is itself a conjunct of `IInv`, as a refusal would leave a state in `error`.
- `Depicted`: the scenario is the executor's accumulated overlays and the store shows it.
  `Outcome`: a patch of the batch in progress is `Right` where it writes, and the patches
  are `Complete`: a plane that none of them writes is the same before and after the batch.
  One lemma per route establishes it (`FastRight`: comfort planes only, since wind does not
  enter the radiation; `WarmRight`: from the first changed step on;
  `WholeRight`: everything, for the chain and the full solve; `LocalRight`: the dirty
  regions). Recording patches that are right and complete makes the store show the new
  scenario, whatever the order of the patches: this is `ServedIsScenario`.
- `Document`: a saved document is of a moment between two batches, its jobs are known and
  their patches are in the root, and its memo is the one it names, so that `Restore`
  re-establishes all of the above.
- `Left` says what the patches of a batch leave behind, given what was behind before. `Depicted`
  and `Outcome` are relative to it, and `FallenIsLeft` says that recording them leaves `behind`
  just that: a plane outside it is right, however many batches requested utci alone.

`EffectiveForcing` folds overlays with the module's own `Merged` instead of the `@@` of the
module TLC, which the prover can not expand.

### ExactSession

`KeyRemembers`: an accepted edit is remembered under the key its attempt holds;
`NewKeyOnlyIfUnserved`: an attempt that will get a new key was not accepted under the old
one. Together they keep the log free of duplicates. `DownloadsAwaited` ties a download of
the current poll generation to the version awaited. (The site is swapped at most once,
`ExactSessionAssumption`.)

### Only model-checked

- Liveness (`EventuallyCanonical`, `ShutdownEndsStreams`, `ReconnectSettles`,
  `RevisionConverges`, `EventuallySettled`, `EventuallyFast`, `QualifiedRetires`): out of
  the prover's reach.
- `Reducer` (`LastWriterWins`, `SegmentsCanonical`, `DeltaIsNetChange`,
  `ContestedWritesDisclosed`): what its fold computes for every log needs induction over
  the log, which the prover does not do.
- The properties of section 5, which the code violates.

## 5. Disagreements between the code and what it says

`lane_span`, the finding in `PROJECT.json`: the tick (`_exact_lane_tick_workspace`) reads the epoch rows (`jobs.py:1360`)
and fixes the target version in a later transaction (`1413`). An epoch that commits in
between is at or below the target and outside the span; the job folds the span,
completes, and settles the epoch without having folded it. `executor_bridge.py:1565`
says that every accepted operation folds exactly once.

Further disagreements. TLC finds a counterexample to the named property with the named
cfg (module name before the underscore), or, where it says "under the bounds of", with that
cfg and the property in place of its own.

Epoch plane and hub:

- `PinIsCurrent` under the bounds of `MCEpochPlane_drivers.cfg`: the bootstrap derives the pin
  and inserts it in two transactions (`jobs.py:780-883`); a reset in between finds no row to
  delete, and the insert then pins the history it voided (`store.py:2189-2195` says that the
  pin folds voided history and goes with it). Later calls see the row and derive nothing.
- `MCEpochPlane_order.cfg`, `EpochOrderIsRevisionOrder`: a re-drive that fails again
  (`epochs.py:435`) lets a later epoch take the lower revision (`epochs.py:40-43` says
  that the orders keep matching).
- `MCEpochPlane_bcast.cfg`, `EventuallyBroadcast`: when a store read of `_publish` raises
  after the commit, `run_once` skips the epoch (it has a revision), and its operations are
  broadcast only after a restart (`epochs.py:27-28` says each lands in a broadcast).
- `MCEpochPlane_terminal.cfg`, `TerminalIsFinal`: `_publish_fast` marks `fast_planned` on a
  status it read earlier and can overwrite `exact_targeted` (`operations.py:63`).
- `MCBroadcastHub_notice.cfg`, `MissedEventsAnnounced`: the lag flag is consumed when a
  heartbeat is built (`broadcast.py:120`); the frame that carries it can be replaced by
  the next heartbeat or dropped (`95-96` says the notice must be delivered).
- `MCBroadcastHub_roster.cfg`, `RosterTruthful`: the second unsubscribe of a closing tab
  (`broadcast.py:342`) takes the actor's other tab off the roster (`215-216`).
- `MCBroadcastHub_bloat.cfg`, `QueueBounded`: a full queue drops one frame per frame added,
  so the room a privileged heartbeat took is never given back; once that heartbeat has
  been rotated out the next one makes the queue longer again (`broadcast.py:22-23`).
  `GrowthOnlyByHeartbeats` is the bound that does hold.

Realtime client (`studio/realtime_client.mjs`):

- `RealtimeClient_replay.cfg`, `MissedOperationsReplayed`: frames newer than a dropped one
  move the watermark past it before the notice arrives, and the catch-up (`935`) skips the
  dropped operation (`studio/README.md:260-263` says everything applies exactly once).
- `RealtimeClient_zombie.cfg`, `BrokenStreamPickedUp`: unsubscribing during the backoff
  leaves `reconnectCycle` set (`670`); after a re-subscription a broken stream is never
  replaced (`969-970`).
- `RealtimeClient_between.cfg`, `NothingFallsInBetween`: the catch-up may be answered before
  the replacement stream is registered; an epoch closed in between is in neither
  (`1010-1012`).
- `RealtimeClient_gap.cfg`, `GapHoldsEvents`: a recovery that a reconnect superseded takes
  down the reconnect's fence (`716-717`).
- `EventsAreFlushed` under the bounds of `RealtimeClient_client.cfg`: a reconnect is rejected
  with its fence up, the page unsubscribes and subscribes again, and the `gap` flag of the
  record outlives both: every event of the new stream is buffered (`715-720`), and none is
  applied until the stream breaks or a notice arrives.
- `RealtimeClient_badge.cfg`, `LiveMeansConnected`: a recovery that outlives a refused
  reconnect flushes its buffer and returns the badge to live without a stream
  (`792-793`, `816`).

Lanes and bridge:

- `ExactLane_wedge.cfg`, `EventuallySettled` with a reset: the reset supersedes the job of a
  committed epoch, whose revision the churn guard (`jobs.py:1380-1389`) already counts as
  attempted; the scenario's exact version is current again, so the idle reconcile is not
  due either, and the epoch stays unsettled until a newer one commits.
- `ExecutorState_lanes.cfg`, `RebuildLosesNothing`: a lane that may not restore another
  lane's snapshot rebuilds without it but still starts its replay after the snapshot's
  coverage (`executor_bridge.py:1087`); trees are in the authoritative list, edits of the
  other families that only the snapshot held are lost. `ServedSceneIsSound` states what
  holds.
- `ReservedSceneIsExact` under the bounds of `ExecutorState_crash.cfg`: a no-op compares with
  the scene the executor was rebuilt from, and what is served again is the latest result
  (`jobs.py:2141`, `store.py:2772` says that the two are equal). A tree and an edit that
  restores the baseline are committed: the base is a rebuild that has the tree seeded and
  unsolved, the batch is a no-op over it, and the re-served result has no tree. Or a paint is
  published and its job cancelled before it finishes, so its snapshot is dropped; erasing the
  paint is then a no-op, and the painted result is served again.
- `ReplayFits` under the same bounds: a no-op has re-served its result when the process dies;
  a tree is committed and its job cancelled before the restart. The job runs again over the
  present tree list, which has the later tree, and completes because its result is there
  already (`jobs.py:2157-2171` has no test that the version is current); the snapshot adopted
  for its mark has a tree above that mark, and every later job is refused for adding it
  again (`executor.py:2155`) until a reset.
- `MCPlanExecutor_restart.cfg`'s bounds, `SavedIsReplayable`: a local job with two disjoint
  windows publishes under the job ids `job-w0` and `job-w1` (`worker.py:1632`); on restore they
  are two groups of one revision (`scenario_state.py:846`) and the store refuses the second
  (`store.py:368-378` of `incremental/`), although the docstring says that the guards resolve
  exactly as they did live. The bridge catches no `StoreError`: every later job of the
  scenario ends as `job_failed`.
- `FastLane_strand.cfg`, `ReservationsClear`: the test against a re-broadcast
  (`scheduler.py:317-329`) uses keys that a restart forgets, so the boot re-drive of an
  epoch that already has its fast frame takes a place no pass ever frees.
- `FastLane_canonical.cfg`, `CanonicalBeforeFast`: the scan's one-pass grace can end before
  the epoch scheduler broadcasts (`scheduler.py:53-59`, `564-573`).
- `FastLane_triple.cfg`, `TripleOrdered`: a reset raises the workspace and the exact revision
  and leaves the fast one behind (`store.py:733` states the order as maintained).

Exact session (`studio/exact_session.mjs`):

- `SupersededIsOvertaken` under the bounds of `ExactSession_races.cfg` (`972`: "a newer edit owns
  the result"): a job of the current version ends superseded with nothing after it, on a
  typed refusal for instance (`jobs.py:2276-2283`); the session stops polling, `awaitingVersion`
  stays set and nothing tells the user.
- `ExactSession_null.cfg`, `NullMeansExact` (`116`): the download of a reset's baseline ends
  after a newer edit was committed and clears the version that edit awaits; if its job
  fails, the session awaits nothing and shows an older scene.
- `ExactSession_regress.cfg`, `ShownNeverRegresses` (`10-12`): the rate-limit retry of one
  edit is answered after a newer edit's result was shown, and the session goes back to
  awaiting and showing the older version.
- `ExactSession_chain.cfg`, `NoSelfConflict` (`523`): the retry after a 429 does not go through
  the mutation queue and races the next commit into a conflict.
- `ExactSession_zombie.cfg`, `NoZombiePost` (`655-656`): a mutation queued before the site
  mismatch was known is posted after it.

Reducer (both also seen by running `reduce_epoch`) and executor:

- `MCReducer_owner.cfg`, `SegmentOverwritesDisclosed`: merging equal neighbours keeps one
  owner (`reducer.py:390-392`), so an overwrite of the other actor's part goes unrecorded
  (`36-38`).
- `MCReducer_field.cfg`, `LastWriterWins` when two segment families share a field name: the
  owners are keyed by field alone (`reducer.py:418`, `336`) and the `zip` with them drops
  segments. The `reducer` run uses distinct names, as the documented fields do.
- `UtciIsCurrent` under the bounds of `MCPlanExecutor_restart.cfg`: after a full publication, a
  tree edit that requests utci only leaves the entry of tmrt behind; a wind batch then finds
  tmrt covered (`executor.py:1652`) and computes utci from it (`1664-1666` says that a retained
  cell carries its newest value). The bridge requests both products for commands of the
  families (`executor_bridge.py:1222-1228`) but only the job's own for tree replays (`1267`).
- `MCPlanExecutor_capture.cfg`, `CaptureServesItsRevision`: a capture left by a failed full or
  warm solve is committed by a later chain or fast publication, since only `run` clears
  it (`worker.py:1476-1487` says that a capture is never committed under a revision it did
  not serve).

## 6. What is not modelled, and the plan

The repository has some 86,000 lines of implementation; most of them are numeric
kernels (`solweig_core/`, `incremental/solver.py`, `solweig.py`, CUDA), GIS preparation,
window geometry, validation, rendering, load-test scripts, telemetry, configuration and encoding. They
are floating-point computation or have no state machine worth checking, so the share of
all lines that the map covers stays small however completely the coordination code is
modelled.

`exact_progress` frames (`jobs.py:1646-1657`) share the drop-oldest queue of the hub and are
not modelled: they carry no revision, and a frame they displace raises the same lag notice as
one displaced by a revision. Of the coordination code, not modelled: `submitOperations` of the realtime client (ack
fence, retries, reconciliation); selected-time streaming; the anchored backfill and the
command translation of the bridge; the planner, the rebase of a moved results root and
the choice of checkpoints in `incremental/`; the cost prediction and burst buckets of
admission; capabilities, `createView` and `awaitJob` of the API client. Several workspaces
are independent in most tables (the operation id is unique across workspaces; a clash is a
fingerprint conflict like any other), so one is modelled except in the fast lane, where
they share a queue.

What is left to prove: every safety property that a passing run checks is a theorem, except
those of the reducer; they need an induction over the log and stay with TLC.
