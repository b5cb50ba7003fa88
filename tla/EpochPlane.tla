----------------------------- MODULE EpochPlane -----------------------------
(***************************************************************************)
(* The realtime operation plane of one workspace: the durable operation    *)
(* log and epoch rows (solweig_gpu/server/store.py) and the epoch          *)
(* scheduler that closes epochs and assigns canonical revisions            *)
(* (solweig_gpu/server/realtime/epochs.py).                                *)
(*                                                                         *)
(* Every store method is one SQLite transaction under the store's lock, so *)
(* one method is one atomic step; a driver of the close pipeline may be    *)
(* interleaved with anything between two store calls.  An operation is     *)
(* known by its server_sequence (its index in log); a canonical state is   *)
(* the set of operations folded into it.                                   *)
(***************************************************************************)
EXTENDS Integers, Sequences, FiniteSets

CONSTANTS Op,           \* operation ids clients may submit
          Content,      \* operation contents (family, entity, verb, payload)
          Unsupported,  \* the contents whose source family is refused
          Driver,       \* threads that run the close pipeline
          MaxEpoch,     \* bound: epoch ids are 0 .. MaxEpoch
          MaxRevision,  \* bound: scene_version never exceeds it
          MaxBumps,     \* bound: legacy commits and resets
          MaxBatch,     \* bound: new operations in one batch (128 in the code)
          MaxFailures,  \* bound: store or hub calls that raise
          MaxCrashes    \* bound: process restarts

ASSUME ConstantsAssumption ==
  /\ Unsupported \subseteq Content
  /\ MaxEpoch \in Nat /\ MaxRevision \in Nat
  /\ MaxBumps \in Nat /\ MaxBatch \in Nat
  /\ MaxFailures \in Nat /\ MaxCrashes \in Nat

VARIABLES log,          \* realtime_operations, in server_sequence order
          acked,        \* the records returned to clients so far
          epochs,       \* number of realtime_epochs rows (ids 0 .. epochs-1)
          status,       \* status of each epoch row
          revision,     \* workspace_revision of each epoch row, NULL if none
          first, last,  \* first_sequence and last_sequence of each epoch row
          elapsed,      \* open epochs whose window has elapsed
          fastRead,     \* the epoch the fast lane has read as reducing, or NULL
          pinning,      \* the exact lane has derived a revision-0 row to insert
          sceneVersion, \* scenarios.scene_version, the workspace revision
          legacy,       \* a legacy edit has been committed since the last reset
          rows,         \* revisions with a realtime_canonical_state row
          folded,       \* the logged operations folded into each of those rows
          broadcasts    \* canonical_revision events handed to the hub

VARIABLES pc, phase, todo,          \* where each driver is in its pass
          cur, readOps,             \* the epoch it closes, the operations read
          baseRev, baseOps, attempt \* the baseline it folded, the retry count

VARIABLES failures, crashes

storeVars  == <<log, acked, epochs, status, revision, first, last,
                sceneVersion, legacy, rows, folded>>
driverVars == <<pc, phase, todo, cur, readOps, baseRev, baseOps, attempt>>
faultVars  == <<failures, crashes>>
vars       == <<storeVars, elapsed, fastRead, pinning, broadcasts, driverVars,
                faultVars>>

NULL     == -1
EpochId  == 0 .. MaxEpoch
Revision == 0 .. MaxRevision
Item     == [op : Op, content : Content]
Record   == [op : Op, content : Content, epoch : EpochId]
Status   == {"absent", "open", "closed", "reducing", "fast_planned",
             "exact_targeted"}
Terminal == {"fast_published", "exact_targeted"}

\* The steps of close_epoch that make a store or hub call.
Pipeline == {"mark", "reread", "ops", "baseline", "commit", "publish",
             "republish"}

EpochOps(e) == {i \in DOMAIN log : log[i].epoch = e}

\* Variation of Assigned: a closed epoch is taken for an assigned one.
AssignedByStatus == {e \in EpochId : status[e] \notin {"absent", "open"}}

Assigned == {e \in EpochId : revision[e] # NULL}

Logged(op) == \E i \in DOMAIN log : log[i].op = op

\* SELECT MAX(workspace_revision) FROM realtime_canonical_state, 0 if no row.
LatestRow == CHOOSE r \in rows \cup {0} : \A s \in rows : s <= r

Init ==
  /\ log = <<>> /\ acked = {} /\ epochs = 0
  /\ status   = [e \in EpochId |-> "absent"]
  /\ revision = [e \in EpochId |-> NULL]
  /\ first    = [e \in EpochId |-> 0]
  /\ last     = [e \in EpochId |-> 0]
  /\ elapsed = {} /\ fastRead = NULL /\ sceneVersion = 0 /\ broadcasts = {}
  /\ pinning = FALSE /\ legacy = FALSE
  /\ rows = {} /\ folded = [r \in Revision |-> {}]
  /\ pc       = [d \in Driver |-> "down"]
  /\ phase    = [d \in Driver |-> "recover"]
  /\ todo     = [d \in Driver |-> {}]
  /\ cur      = [d \in Driver |-> 0]
  /\ readOps  = [d \in Driver |-> {}]
  /\ baseRev  = [d \in Driver |-> 0]
  /\ baseOps  = [d \in Driver |-> {}]
  /\ attempt  = [d \in Driver |-> 0]
  /\ failures = 0 /\ crashes = 0

-----------------------------------------------------------------------------
(* The store's operation ledger: append_operations.                        *)

\* Variation of OpenOrCreateEpoch: only a terminal epoch refuses operations.
NewestNonTerminalEpoch ==
  IF epochs > 0 /\ status[epochs - 1] \notin Terminal THEN epochs - 1 ELSE epochs

\* The open epoch, else the id of the epoch the next accepted batch opens.
OpenOrCreateEpoch ==
  IF epochs > 0 /\ status[epochs - 1] = "open" THEN epochs - 1 ELSE epochs

\* What the response tells the client about an item it submitted.
AckOf(item, i, e) ==
  [op |-> item.op, content |-> item.content, sequence |-> i, epoch |-> e]

\* A retried item is answered from its row, a new one from the row it becomes.
RetryAcks(retried) ==
  {AckOf(p[1], p[2], log[p[2]].epoch) :
     p \in {q \in retried \X DOMAIN log : log[q[2]].op = q[1].op}}

FreshAcks(fresh, e) == {AckOf(fresh[i], Len(log) + i, e) : i \in DOMAIN fresh}

\* Variation of SameContent: a reused id always replays.
AnyContent(i, item) == TRUE

SameContent(i, item) == log[i].content = item.content

\* Variation of FirstSequence: every batch restarts the epoch's span.
RestartedSpan(e) == Len(log) + 1

\* COALESCE(first_sequence, ?): the first batch of an epoch starts its span.
FirstSequence(e) == IF first[e] = 0 THEN Len(log) + 1 ELSE first[e]

\* The routes answer only once the lifespan start-up (recovery) is over.
Serving ==
  \A d \in Driver : pc[d] # "down" /\ (phase[d] = "recover" => pc[d] = "idle")

\* A batch is its new items, in batch order, and the items it retries.  One
\* conflicting retry (other content under a used id) or one unsupported new
\* item rolls the whole batch back, which is no step at all.
AppendOperations(fresh, retried) ==
  LET e == OpenOrCreateEpoch
      n == Len(log)
      new == [i \in 1 .. Len(fresh) |->
                [op |-> fresh[i].op, content |-> fresh[i].content, epoch |-> e]]
  IN
  /\ Serving
  /\ \A i \in DOMAIN fresh : ~Logged(fresh[i].op)
                             /\ fresh[i].content \notin Unsupported
  /\ \A i, j \in DOMAIN fresh : i # j => fresh[i].op # fresh[j].op
  /\ \A item \in retried : \E i \in DOMAIN log :
        log[i].op = item.op /\ SameContent(i, item)
  /\ fresh # <<>> => e <= MaxEpoch
  /\ log' = log \o new
  /\ acked' = acked \cup RetryAcks(retried) \cup FreshAcks(fresh, e)
  /\ IF fresh = <<>>
     THEN UNCHANGED <<epochs, status, first, last>>
     ELSE /\ epochs' = IF e = epochs THEN epochs + 1 ELSE epochs
          /\ status' = IF e = epochs THEN [status EXCEPT ![e] = "open"] ELSE status
          /\ first' = [first EXCEPT ![e] = FirstSequence(e)]
          /\ last' = [last EXCEPT ![e] = n + Len(fresh)]
  /\ UNCHANGED <<revision, elapsed, fastRead, pinning, sceneVersion, legacy,
                 rows, folded, broadcasts, driverVars, faultVars>>

AcceptBatch ==
  \E fresh \in UNION {[1 .. n -> Item] : n \in 0 .. MaxBatch},
     retried \in {{}} \cup {{item} : item \in Item} :
    AppendOperations(fresh, retried)

-----------------------------------------------------------------------------
(* Other writers of the same rows.                                         *)

\* A legacy commit or a reset bumps scene_version without an epoch.
Bump ==
  /\ Serving
  /\ sceneVersion - Cardinality(Assigned) < MaxBumps
  /\ sceneVersion < MaxRevision
  /\ sceneVersion' = sceneVersion + 1
  /\ UNCHANGED <<log, acked, epochs, status, revision, first, last, elapsed,
                 fastRead, pinning, folded, broadcasts, driverVars, faultVars>>

\* commit_edits: the edit is in the legacy ledger, and (as yet) nowhere else.
LegacyCommit ==
  /\ Bump
  /\ legacy' = TRUE
  /\ UNCHANGED rows

\* Variation of VoidedRows: the WHERE clause names the workspace only.
VoidedAll == rows

\* The canonical rows a reset deletes: the exact lane's pin, and no other.
VoidedRows == rows \cap {0}

\* reset_scenario: the legacy history is void, and so is the pin that folds it.
Reset ==
  /\ Bump
  /\ legacy' = FALSE
  /\ rows' = rows \ VoidedRows

\* ensure_exact_lane_bootstrap, up to its insert: the workspace has operations,
\* no revision-0 row, and legacy events since its last reset.  (Events whose
\* mirrored operation is in the log already do not count; the funnel mirrors
\* them some time after their commit, or never.)
DerivePin ==
  /\ ~pinning /\ 0 \notin rows /\ log # <<>> /\ legacy
  /\ pinning' = TRUE
  /\ UNCHANGED <<storeVars, elapsed, fastRead, broadcasts, driverVars,
                 faultVars>>

\* INSERT OR IGNORE of the revision-0 row.  It folds legacy edits only.
InsertPin ==
  /\ pinning
  /\ pinning' = FALSE
  /\ rows' = rows \cup {0}
  /\ UNCHANGED <<log, acked, epochs, status, revision, first, last, elapsed,
                 fastRead, sceneVersion, legacy, folded, broadcasts, driverVars,
                 faultVars>>

\* The exact lane consumes an epoch whose revision its job has reached; marking
\* a row it read as non-terminal twice changes nothing.
ConsumeExactEpoch(e) ==
  /\ revision[e] # NULL
  /\ status[e] \notin Terminal
  /\ status' = [status EXCEPT ![e] = "exact_targeted"]
  /\ UNCHANGED <<log, acked, epochs, revision, first, last, elapsed, fastRead,
                 pinning, sceneVersion, legacy, rows, folded, broadcasts,
                 driverVars, faultVars>>

\* The fast lane reads an epoch the scheduler has just reduced ...
ReadFastEpoch(e) ==
  /\ fastRead = NULL /\ status[e] = "reducing"
  /\ fastRead' = e
  /\ UNCHANGED <<storeVars, elapsed, pinning, broadcasts, driverVars,
                 faultVars>>

\* ... and later marks it planned, without looking at the row again.
PlanFastEpoch ==
  /\ fastRead # NULL
  /\ status' = [status EXCEPT ![fastRead] = "fast_planned"]
  /\ fastRead' = NULL
  /\ UNCHANGED <<log, acked, epochs, revision, first, last, elapsed, pinning,
                 sceneVersion, legacy, rows, folded, broadcasts, driverVars,
                 faultVars>>

\* The window of an open epoch has fully elapsed (_epoch_due).
WindowElapses(e) ==
  /\ status[e] = "open" /\ e \notin elapsed
  /\ elapsed' = elapsed \cup {e}
  /\ UNCHANGED <<storeVars, fastRead, pinning, broadcasts, driverVars,
                 faultVars>>

-----------------------------------------------------------------------------
(* The scheduler's passes: recover() at boot, then run_once() per tick.    *)

Recoverable == {e \in EpochId : status[e] \notin Terminal \cup {"absent"}}
OpenEpochs  == {e \in EpochId : status[e] = "open"}

\* Variation of Stranded: only restarts recover a stranded epoch.
NoneStranded == {}

\* Closed epochs that have no revision yet.
Stranded == Recoverable \ (OpenEpochs \cup Assigned)

StartPass(d, from, name, list) ==
  /\ pc[d] = from
  /\ pc' = [pc EXCEPT ![d] = "next"]
  /\ phase' = [phase EXCEPT ![d] = name]
  /\ todo' = [todo EXCEPT ![d] = list]
  /\ UNCHANGED <<storeVars, elapsed, fastRead, pinning, broadcasts, cur,
                 readOps, baseRev, baseOps, attempt, faultVars>>

\* start(): everything non-terminal and non-open is driven once.
Recover(d) == StartPass(d, "down", "recover", Recoverable \ OpenEpochs)

\* run_once(), first loop: closed epochs without a revision.
ListStranded(d) == StartPass(d, "idle", "stranded", Stranded)

\* run_once(), second loop: the open epochs that are due.
ListOpen(d) ==
  /\ phase[d] = "stranded" /\ todo[d] = {}
  /\ StartPass(d, "next", "open", OpenEpochs \cap elapsed)

\* The pass is over; the thread waits for the next tick.
EndPass(d) ==
  /\ pc[d] = "next" /\ todo[d] = {} /\ phase[d] # "stranded"
  /\ pc' = [pc EXCEPT ![d] = "idle"]
  /\ UNCHANGED <<storeVars, elapsed, fastRead, pinning, broadcasts, phase, todo,
                 cur, readOps, baseRev, baseOps, attempt, faultVars>>

-----------------------------------------------------------------------------
(* close_epoch, one action per store call.                                 *)

Go(d, to) == pc' = [pc EXCEPT ![d] = to]

\* get_epoch of the oldest listed epoch, and the early returns after it.
GetEpoch(d) ==
  \E e \in todo[d] :
    /\ pc[d] = "next"
    /\ \A f \in todo[d] : e <= f
    /\ todo' = [todo EXCEPT ![d] = @ \ {e}]
    /\ cur' = [cur EXCEPT ![d] = e]
    /\ \/ status[e] \in Terminal /\ Go(d, "next")
       \/ status[e] = "open" /\ Go(d, "mark")
       \/ status[e] \notin Terminal \cup {"open"} /\ e \in Assigned
          /\ Go(d, "republish")
       \/ status[e] \notin Terminal \cup {"open"} /\ e \notin Assigned
          /\ Go(d, "ops")
    /\ UNCHANGED <<storeVars, elapsed, fastRead, pinning, broadcasts, phase,
                   readOps, baseRev, baseOps, attempt, faultVars>>

\* mark_epoch_status(..., "closed"): the update does not look at the row.
MarkClosed(d) ==
  /\ pc[d] = "mark"
  /\ status' = [status EXCEPT ![cur[d]] = "closed"]
  /\ Go(d, "reread")
  /\ UNCHANGED <<log, acked, epochs, revision, first, last, sceneVersion,
                 legacy, rows, folded, elapsed, fastRead, pinning, broadcasts,
                 phase, todo, cur, readOps, baseRev, baseOps, attempt,
                 faultVars>>

\* get_epoch again: a revision assigned meanwhile means re-broadcast only.
RereadEpoch(d) ==
  /\ pc[d] = "reread"
  /\ Go(d, IF cur[d] \in Assigned THEN "republish" ELSE "ops")
  /\ UNCHANGED <<storeVars, elapsed, fastRead, pinning, broadcasts, phase, todo,
                 cur, readOps, baseRev, baseOps, attempt, faultVars>>

\* operations_for_epoch; an empty epoch stays closed without a revision.
ReadOperations(d) ==
  /\ pc[d] = "ops"
  /\ readOps' = [readOps EXCEPT ![d] = EpochOps(cur[d])]
  /\ attempt' = [attempt EXCEPT ![d] = 0]
  /\ Go(d, IF EpochOps(cur[d]) = {} THEN "next" ELSE "baseline")
  /\ UNCHANGED <<storeVars, elapsed, fastRead, pinning, broadcasts, phase, todo,
                 cur, baseRev, baseOps, faultVars>>

\* latest_canonical_state, or the reducer's empty initial state.
ReadBaseline(d) ==
  /\ pc[d] = "baseline"
  /\ baseRev' = [baseRev EXCEPT ![d] = LatestRow]
  /\ baseOps' = [baseOps EXCEPT ![d] =
                    IF LatestRow \in rows THEN folded[LatestRow] ELSE {}]
  /\ Go(d, "commit")
  /\ UNCHANGED <<storeVars, elapsed, fastRead, pinning, broadcasts, phase, todo,
                 cur, readOps, attempt, faultVars>>

\* Variations: the re-drive check, respectively the baseline guard, is missing.
NeverAssigned(d) == FALSE
NeverStale(d) == FALSE

\* What commit_epoch_reduction finds inside its transaction.
AlreadyAssigned(d) == cur[d] \in Assigned
StaleBaseline(d) == baseRev[d] # LatestRow

\* commit_epoch_reduction of an epoch another driver has committed: the stored
\* bytes win and nothing is bumped.
CommitAgain(d) ==
  /\ pc[d] = "commit" /\ AlreadyAssigned(d)
  /\ Go(d, "publish")
  /\ UNCHANGED <<storeVars, elapsed, fastRead, pinning, broadcasts, phase, todo,
                 cur, readOps, baseRev, baseOps, attempt, faultVars>>

\* EpochBaselineStale: fold again on a fresh baseline, at most three attempts.
CommitStale(d) ==
  /\ pc[d] = "commit" /\ ~AlreadyAssigned(d) /\ StaleBaseline(d)
  /\ attempt' = [attempt EXCEPT ![d] = @ + 1]
  /\ Go(d, IF attempt[d] = 2 THEN "next" ELSE "baseline")
  /\ UNCHANGED <<storeVars, elapsed, fastRead, pinning, broadcasts, phase, todo,
                 cur, readOps, baseRev, baseOps, faultVars>>

\* commit_epoch_reduction: the canonical row, the epoch's revision and the
\* scene_version bump in one transaction.
CommitReduction(d) ==
  LET e == cur[d]
      r == sceneVersion + 1
  IN
  /\ pc[d] = "commit" /\ ~AlreadyAssigned(d) /\ ~StaleBaseline(d)
  /\ r <= MaxRevision
  /\ rows' = rows \cup {r}
  /\ folded' = [folded EXCEPT ![r] = baseOps[d] \cup readOps[d]]
  /\ sceneVersion' = r
  /\ revision' = [revision EXCEPT ![e] = r]
  /\ status' = [status EXCEPT ![e] = IF @ \in Terminal THEN @ ELSE "reducing"]
  /\ Go(d, "publish")
  /\ UNCHANGED <<log, acked, epochs, first, last, legacy, elapsed, fastRead,
                 pinning, broadcasts, phase, todo, cur, readOps, baseRev,
                 baseOps, attempt, faultVars>>

\* _publish: hand the canonical_revision event to the broadcast hub.  A
\* re-broadcast reads the operations afresh, the first one reuses its read.
Publish(d) ==
  LET ops == IF pc[d] = "republish" THEN EpochOps(cur[d]) ELSE readOps[d]
  IN
  /\ pc[d] \in {"publish", "republish"}
  /\ broadcasts' = broadcasts \cup
       {[epoch |-> cur[d], revision |-> revision[cur[d]], ops |-> ops]}
  /\ Go(d, "next")
  /\ UNCHANGED <<storeVars, elapsed, fastRead, pinning, phase, todo, cur,
                 readOps, baseRev, baseOps, attempt, faultVars>>

-----------------------------------------------------------------------------
(* Failures.                                                               *)

\* A store or hub call raises: in close_epoch the pass goes on with the next
\* epoch; in recover or run_once itself (listing epochs) the pass is abandoned.
Fail(d) ==
  /\ failures < MaxFailures
  /\ failures' = failures + 1
  /\ \/ pc[d] \in Pipeline /\ Go(d, "next") /\ UNCHANGED todo
     \/ /\ pc[d] = "next"
        /\ \E e \in todo[d] : /\ \A f \in todo[d] : e <= f
                              /\ todo' = [todo EXCEPT ![d] = @ \ {e}]
        /\ UNCHANGED pc
     \/ /\ pc[d] = "down" \/ (pc[d] = "next" /\ todo[d] = {} /\ phase[d] = "stranded")
        /\ Go(d, "idle") /\ UNCHANGED todo
  /\ UNCHANGED <<storeVars, elapsed, fastRead, pinning, broadcasts, phase, cur,
                 readOps, baseRev, baseOps, attempt, crashes>>

\* The server process dies between two transactions; what is durable stays.
Crash ==
  /\ crashes < MaxCrashes
  /\ \E d \in Driver : pc[d] # "down"
  /\ crashes' = crashes + 1
  /\ pc'      = [d \in Driver |-> "down"]
  /\ phase'   = [d \in Driver |-> "recover"]
  /\ todo'    = [d \in Driver |-> {}]
  /\ cur'     = [d \in Driver |-> 0]
  /\ readOps' = [d \in Driver |-> {}]
  /\ baseRev' = [d \in Driver |-> 0]
  /\ baseOps' = [d \in Driver |-> {}]
  /\ attempt' = [d \in Driver |-> 0]
  /\ fastRead' = NULL /\ pinning' = FALSE
  /\ UNCHANGED <<storeVars, elapsed, broadcasts, failures>>

-----------------------------------------------------------------------------

\* What the scheduler thread does by itself.
DriverStep(d) ==
  \/ Recover(d) \/ ListStranded(d) \/ ListOpen(d) \/ EndPass(d)
  \/ GetEpoch(d) \/ MarkClosed(d) \/ RereadEpoch(d) \/ ReadOperations(d)
  \/ ReadBaseline(d) \/ CommitAgain(d) \/ CommitStale(d)
  \/ CommitReduction(d) \/ Publish(d)

Next ==
  \/ AcceptBatch
  \/ LegacyCommit \/ Reset \/ DerivePin \/ InsertPin
  \/ \E e \in EpochId : ConsumeExactEpoch(e) \/ ReadFastEpoch(e)
                          \/ WindowElapses(e)
  \/ PlanFastEpoch
  \/ \E d \in Driver : DriverStep(d) \/ Fail(d)
  \/ Crash

Spec == Init /\ [][Next]_vars

\* The daemon thread keeps ticking and time passes; clients owe nothing.
Fairness ==
  /\ \A d \in Driver : WF_vars(DriverStep(d))
  /\ \A e \in EpochId : WF_vars(WindowElapses(e))

FairSpec == Spec /\ Fairness

-----------------------------------------------------------------------------
(* Properties.                                                             *)

\* Every variable has its type; a broadcast event always names a revision
\* (close_epoch never publishes an epoch that has none).
TypeOK ==
  /\ log \in Seq(Record)
  /\ acked \subseteq [op : Op, content : Content, sequence : Nat, epoch : EpochId]
  /\ epochs \in 0 .. MaxEpoch + 1
  /\ status \in [EpochId -> Status]
  /\ revision \in [EpochId -> Revision \cup {NULL}]
  /\ first \in [EpochId -> Nat] /\ last \in [EpochId -> Nat]
  /\ elapsed \subseteq EpochId /\ fastRead \in EpochId \cup {NULL}
  /\ sceneVersion \in Revision /\ rows \subseteq Revision
  /\ legacy \in BOOLEAN /\ pinning \in BOOLEAN
  /\ folded \in [Revision -> SUBSET Nat]
  /\ broadcasts \subseteq [epoch : EpochId, revision : Revision, ops : SUBSET Nat]
  /\ pc \in [Driver -> Pipeline \cup {"down", "idle", "next"}]
  /\ phase \in [Driver -> {"recover", "stranded", "open"}]
  /\ todo \in [Driver -> SUBSET EpochId] /\ cur \in [Driver -> EpochId]
  /\ readOps \in [Driver -> SUBSET Nat] /\ baseOps \in [Driver -> SUBSET Nat]
  /\ baseRev \in [Driver -> Revision] /\ attempt \in [Driver -> 0 .. 3]
  /\ failures \in 0 .. MaxFailures /\ crashes \in 0 .. MaxCrashes

\* No lost fold (STALE-BASELINE GUARD): the canonical state stored under a
\* revision holds exactly the operations of the epochs committed up to it,
\* whatever drivers raced between reading a baseline and committing.
NoLostFold ==
  \A r \in rows :
    folded[r] = {i \in DOMAIN log : /\ revision[log[i].epoch] # NULL
                                    /\ revision[log[i].epoch] <= r}

\* Zero loss: a canonical_revision event carries every operation ever accepted
\* into its epoch and the epoch's own revision; no append can join an epoch
\* once the close pipeline has read it.
BroadcastComplete ==
  \A b \in broadcasts : b.ops = EpochOps(b.epoch) /\ b.revision = revision[b.epoch]

\* The log is cut into consecutive epochs: the operations of an epoch are
\* exactly the span first_sequence .. last_sequence the exact lane folds.
EpochSpansPartitionLog ==
  \A e \in 0 .. epochs - 1 : EpochOps(e) # {} /\ EpochOps(e) = first[e] .. last[e]

\* Retry idempotency: whatever the server ever answered about an operation id,
\* first time or on a retry, is what the log says about it today.
AcksTruthful ==
  \A a \in acked : /\ a.sequence \in DOMAIN log
                    /\ log[a.sequence] = [op |-> a.op, content |-> a.content,
                                          epoch |-> a.epoch]

\* Idempotent re-drive: an epoch gets its revision once, and no re-drive,
\* rival driver or recovery ever moves it to another one.
AssignedOnce ==
  [][\A e \in EpochId : revision[e] # NULL => revision'[e] = revision[e]]_vars

\* Every accepted operation eventually is in a canonical state, through
\* transient failures between the closed-mark and the commit and through
\* restarts (stranded re-drive, boot recovery).
EventuallyCanonical ==
  \A i \in 1 .. Cardinality(Op) :
    (i \in DOMAIN log) ~> (\E r \in rows : i \in folded[r])

\* The abstract log of revisions this plane implements.
RL == INSTANCE RevisionLog WITH accepted <- DOMAIN log, state <- folded

\* The epoch plane implements the revision log: whatever the drivers do, what
\* the store shows is a growing history of immutable canonical states; only the
\* pin of revision 0, which no epoch commits, comes and goes with the legacy
\* history it folds (ensure_exact_lane_bootstrap, reset_scenario).
ImplementsRevisionLog == RL!Spec

\* epochs.py: "epoch-id order keeps matching revision order".
EpochOrderIsRevisionOrder ==
  \A e, f \in Assigned : e < f => revision[e] < revision[f]

\* store.py, reset_scenario: "the chain re-fold baseline may not carry
\* reset-deleted legacy objects".
PinIsCurrent == 0 \in rows => legacy

\* operations.py: "Terminal epoch statuses: no further transitions, no re-entry".
TerminalIsFinal ==
  [][\A e \in EpochId : status[e] \in Terminal => status'[e] = status[e]]_vars

\* epochs.py: "every durably accepted operation lands in exactly one epoch's
\* broadcast payload", read as something that eventually happens.
EventuallyBroadcast ==
  \A i \in 1 .. Cardinality(Op) :
    (i \in DOMAIN log) ~> (\E b \in broadcasts : i \in b.ops)

=============================================================================
