------------------------------ MODULE FastLane ------------------------------
(***************************************************************************)
(* The realtime fast lane (solweig_gpu/server/realtime/scheduler.py), the  *)
(* epoch close that wakes it (realtime/epochs.py), the revision triple of  *)
(* each workspace (server/store.py) and the ingest gate that sheds load    *)
(* when the lane's queue is full (realtime/admission.py).                  *)
(*                                                                         *)
(* Four threads: ingest, the epoch scheduler, the lane, and whoever raises *)
(* the exact revision (job runner, reset).  Each lock region and store     *)
(* transaction is a step.  An epoch is named by the revision its commit    *)
(* assigned.  The lane's deadline order does not change what it publishes, *)
(* so a pass serves its ready items in any order.                          *)
(***************************************************************************)
EXTENDS Integers, Sequences, FiniteSets

CONSTANTS Workspaces,
          MaxPending,   \* max_pending_workspaces
          Qualifies,    \* does the kernel offer fast_qualified results?
          MaxRevision,  \* bound: revisions of one workspace
          MaxEpochs,    \* bound: epoch commits of all workspaces
          MaxExact,     \* bound: exact publications and resets
          MaxFailures,  \* bound: store failures in a publish
          MaxCrashes    \* bound: process restarts

ASSUME FastLaneAssumption ==
  /\ IsFiniteSet(Workspaces) /\ Workspaces # {} /\ Qualifies \in BOOLEAN
  /\ MaxPending \in Nat \ {0} /\ MaxRevision \in Nat /\ MaxEpochs \in Nat
  /\ MaxExact \in Nat /\ MaxFailures \in Nat /\ MaxCrashes \in Nat

Revision == 1 .. MaxRevision
\* "view" is fast_exact for an epoch of view-only operations.
Class    == {"fast_exact", "view", "visual_pending", "fast_qualified"}

VARIABLES version, exact, fast, \* the revision triple of each workspace
          status,   \* realtime_epochs.status of the epoch at a revision
          told,     \* revisions whose canonical frame was broadcast
          open,     \* workspaces with accepted operations in an open epoch
          closer,   \* the epoch scheduler: stage, workspace, revision
          redrive   \* epochs the boot recovery has still to re-drive

VARIABLES lane,     \* where the lane's thread is
          pending,  \* _pending: revision (0 = absent) and from_scan
          keys,     \* last of _published_keys (0 = none in this process)
          grace,    \* _scan_grace (0 = absent)
          pubs,     \* latest publication of a workspace
          scanned,  \* what the scan read: target revision, or 0
          ready,    \* items of the pass still to publish
          item,     \* the item in hand and what its plan read
          frame,    \* the last fast frame subscribers were sent
          used      \* bounds spent

storeVars == <<version, exact, fast, status, told, open>>
closeVars == <<closer, redrive>>
laneVars  == <<lane, pending, keys, grace, pubs, scanned, ready, item>>
vars      == <<storeVars, closeVars, laneVars, frame, used>>

None   == 0
Absent == [rev |-> None, scan |-> FALSE]
NoPub  == [rev |-> None, fast |-> 0, class |-> "visual_pending", exact |-> 0]
NoItem == [ws |-> None, rev |-> None, status |-> "none", exact |-> 0,
           class |-> "visual_pending", fast |-> 0, floor |-> 0]
AtRest == [at |-> "idle", ws |-> None, rev |-> None]

MaxOf(S) == CHOOSE m \in S : \A x \in S : x <= m
Spend(name) == used' = [used EXCEPT ![name] = @ + 1]

Init ==
  /\ version = [w \in Workspaces |-> 0] /\ exact = version /\ fast = version
  /\ status = [w \in Workspaces |-> [r \in Revision |-> "none"]]
  /\ told = [w \in Workspaces |-> {}] /\ open = {}
  /\ closer = AtRest /\ redrive = <<>>
  /\ lane = "idle" /\ pending = [w \in Workspaces |-> Absent]
  /\ keys = version /\ grace = version /\ scanned = version
  /\ pubs = [w \in Workspaces |-> NoPub] /\ frame = pubs
  /\ ready = {} /\ item = NoItem
  /\ used = [epochs |-> 0, exact |-> 0, failures |-> 0, crashes |-> 0]

-----------------------------------------------------------------------------
(* Ingest.                                                                 *)

Waiting   == {w \in Workspaces : pending[w].rev # None}
Saturated == Cardinality(Waiting) >= MaxPending

\* POST operations: the gate, then the durable append.  A saturated lane
\* answers 503 before anything is accepted.
Submit(w) ==
  /\ lane # "off" /\ ~Saturated /\ w \notin open
  /\ used.epochs < MaxEpochs /\ version[w] + Cardinality(open) < MaxRevision
  /\ open' = open \cup {w}
  /\ UNCHANGED <<version, exact, fast, status, told, closeVars, laneVars, frame, used>>

-----------------------------------------------------------------------------
(* The epoch scheduler: commit, broadcast, tail hook.                      *)

\* commit_epoch_reduction assigns the revision.
CloseCommit(w) ==
  /\ closer = AtRest /\ redrive = <<>> /\ w \in open
  /\ used.epochs < MaxEpochs /\ version[w] < MaxRevision
  /\ version' = [version EXCEPT ![w] = @ + 1]
  /\ status' = [status EXCEPT ![w][version[w] + 1] = "reducing"]
  /\ open' = open \ {w}
  /\ closer' = [at |-> "publish", ws |-> w, rev |-> version[w] + 1]
  /\ Spend("epochs")
  /\ UNCHANGED <<exact, fast, told, redrive, laneVars, frame>>

\* Boot: a committed, non-terminal epoch is published again; a terminal one
\* is left alone.
Redrive ==
  /\ closer = AtRest /\ redrive # <<>>
  /\ LET e == Head(redrive) IN
       closer' = IF status[e.ws][e.rev] = "exact_targeted" THEN AtRest
                 ELSE [at |-> "publish", ws |-> e.ws, rev |-> e.rev]
  /\ redrive' = Tail(redrive)
  /\ UNCHANGED <<storeVars, laneVars, frame, used>>

\* broadcast_canonical.
CloseBroadcast ==
  /\ closer.at = "publish"
  /\ told' = [told EXCEPT ![closer.ws] = @ \cup {closer.rev}]
  /\ closer' = [closer EXCEPT !.at = "notify"]
  /\ UNCHANGED <<version, exact, fast, status, open, redrive, laneVars, frame, used>>

\* on_epoch_closed: skip what this process published, drop at the bound,
\* keep the newest revision.
Wake(w, rev) ==
  IF rev <= keys[w] \/ (w \notin Waiting /\ Saturated) \/ rev <= pending[w].rev
  THEN pending ELSE [pending EXCEPT ![w] = [rev |-> rev, scan |-> FALSE]]

CloseNotify ==
  /\ closer.at = "notify"
  /\ pending' = Wake(closer.ws, closer.rev)
  /\ closer' = AtRest
  /\ UNCHANGED <<storeVars, redrive, lane, keys, grace, pubs, scanned, ready, item,
                 frame, used>>

-----------------------------------------------------------------------------
(* The exact side: publish_result with _consume_exact_epochs, and reset.   *)

\* An exact result of the revision v is published.
ExactPublish(w, v) ==
  /\ v \in exact[w] + 1 .. version[w] /\ used.exact < MaxExact
  /\ exact' = [exact EXCEPT ![w] = v] /\ Spend("exact")
  /\ UNCHANGED <<version, fast, status, told, open, closeVars, laneVars, frame>>

\* The job settles the epochs its result covers, in later transactions.
ExactConsume(w, r) ==
  /\ r <= exact[w] /\ status[w][r] \in {"reducing", "fast_planned"}
  /\ status' = [status EXCEPT ![w][r] = "exact_targeted"]
  /\ UNCHANGED <<version, exact, fast, told, open, closeVars, laneVars, frame, used>>

\* reset_scenario raises the version and the exact revision together.
Reset(w) ==
  /\ lane # "off" /\ version[w] + Cardinality(open) < MaxRevision
  /\ used.exact < MaxExact
  /\ version' = [version EXCEPT ![w] = @ + 1]
  /\ exact' = [exact EXCEPT ![w] = version[w] + 1]
  /\ Spend("exact")
  /\ UNCHANGED <<fast, status, told, open, closeVars, laneVars, frame>>

-----------------------------------------------------------------------------
(* A pass of the lane: supersede, discover, publish.                       *)

\* Variation of Overtaken: equality does not count.
OvertakenStrictly(w) ==
  pubs[w].class = "fast_qualified" /\ exact[w] > pubs[w].rev

Overtaken(w) ==
  pubs[w].class = "fast_qualified" /\ exact[w] >= pubs[w].rev

\* Variation of Supersession: the anchor of the qualified frame stays.
SupersessionUnanchored(w) == [pubs[w] EXCEPT !.class = "fast_exact"]

\* _supersede_stale_qualified: the same revision again, as fast_exact.
Supersession(w) == [pubs[w] EXCEPT !.class = "fast_exact", !.exact = exact[w]]

Supersede ==
  /\ lane = "idle" /\ lane' = "scan"
  /\ pubs' = [w \in Workspaces |-> IF Overtaken(w) THEN Supersession(w) ELSE pubs[w]]
  /\ frame' = [w \in Workspaces |-> IF Overtaken(w) THEN Supersession(w) ELSE frame[w]]
  /\ keys' = [w \in Workspaces |-> IF Overtaken(w) THEN pubs[w].rev ELSE keys[w]]
  /\ UNCHANGED <<storeVars, closeVars, pending, grace, scanned, ready, item, used>>

\* The newest committed epoch the fast revision does not cover.
Due(w) ==
  {r \in Revision : status[w][r] # "none" /\ fast[w] < r /\ r <= version[w]}

Scan ==
  /\ lane = "scan" /\ lane' = "mirror"
  /\ scanned' = [w \in Workspaces |-> IF Due(w) = {} THEN None ELSE MaxOf(Due(w))]
  /\ UNCHANGED <<storeVars, closeVars, pending, keys, grace, pubs, ready, item, frame,
                 used>>

\* A hook that woke the lane for this very revision.
Hooked(w) == pending[w].rev = scanned[w] /\ ~pending[w].scan

\* Variation of Deferred: the spent grace is not looked up.
DeferredAgain(w) == ~Hooked(w)

\* Scan-discovered work waits one pass.
Deferred(w) == ~Hooked(w) /\ grace[w] # scanned[w]

\* The locked half of _discover: the queue mirrors the scan.
Mirror ==
  LET found == {w \in Workspaces : scanned[w] # None} IN
  /\ lane = "mirror"
  /\ pending' = [w \in Workspaces |->
                   IF w \in found /\ ~Hooked(w)
                   THEN [rev |-> scanned[w], scan |-> TRUE] ELSE pending[w]]
  /\ grace' = [w \in Workspaces |->
                 IF w \in found /\ ~Hooked(w) THEN scanned[w] ELSE grace[w]]
  /\ ready' = {w \in found : ~Deferred(w)}
  /\ lane' = IF ready' = {} THEN "idle" ELSE "plan"
  /\ UNCHANGED <<storeVars, closeVars, keys, pubs, scanned, item, frame, used>>

\* What the kernel, its deadline gate and the qualifier check come to.
KernelClass == {"view", "visual_pending"}
               \cup (IF Qualifies THEN {"fast_qualified"} ELSE {})

Plan(w) ==
  /\ lane = "plan" /\ w \in ready
  /\ \E c \in KernelClass :
       item' = [ws |-> w, rev |-> scanned[w], status |-> status[w][scanned[w]],
                exact |-> exact[w],
                class |-> IF c # "view" /\ exact[w] >= scanned[w]
                          THEN "fast_exact" ELSE c,
                fast |-> 0, floor |-> 0]
  /\ ready' = ready \ {w} /\ lane' = "mark"
  /\ UNCHANGED <<storeVars, closeVars, pending, keys, grace, pubs, scanned, frame, used>>

\* mark_epoch_status, unconditional, by the status the plan read.
MarkPlanned ==
  /\ lane = "mark" /\ lane' = "advance"
  /\ status' = IF item.status = "reducing"
               THEN [status EXCEPT ![item.ws][item.rev] = "fast_planned"] ELSE status
  /\ UNCHANGED <<version, exact, fast, told, open, closeVars, pending, keys, grace,
                 pubs, scanned, ready, item, frame, used>>

NewFast == MaxOf({fast[item.ws], item.rev, exact[item.ws], item.exact})

\* advance_fast_revision, one transaction.
Advance ==
  /\ lane = "advance" /\ lane' = "record"
  /\ fast' = [fast EXCEPT ![item.ws] = NewFast]
  /\ item' = [item EXCEPT !.fast = NewFast, !.floor = exact[item.ws]]
  /\ UNCHANGED <<version, exact, status, told, open, closeVars, pending, keys, grace,
                 pubs, scanned, ready, frame, used>>

\* _record_publication and broadcast_fast.
Record ==
  LET pub == [rev |-> item.rev, fast |-> item.fast, class |-> item.class,
              exact |-> item.floor] IN
  /\ lane = "record" /\ lane' = "pop"
  /\ pubs' = [pubs EXCEPT ![item.ws] = pub]
  /\ frame' = [frame EXCEPT ![item.ws] = pub]
  /\ keys' = [keys EXCEPT ![item.ws] = item.rev]
  /\ UNCHANGED <<storeVars, closeVars, pending, grace, scanned, ready, item, used>>

AfterItem == IF ready = {} THEN "idle" ELSE "plan"

\* The reservation goes, whatever revision it is for by now.
Pop ==
  /\ lane = "pop" /\ lane' = AfterItem
  /\ pending' = [pending EXCEPT ![item.ws] = Absent]
  /\ grace' = [grace EXCEPT ![item.ws] = IF @ <= item.rev THEN None ELSE @]
  /\ item' = NoItem
  /\ UNCHANGED <<storeVars, closeVars, keys, pubs, scanned, ready, frame, used>>

\* A store call of the publish fails: the item is left for the next pass.
PublishFails ==
  /\ lane \in {"mark", "advance"} /\ used.failures < MaxFailures
  /\ lane' = AfterItem /\ item' = NoItem /\ Spend("failures")
  /\ UNCHANGED <<storeVars, closeVars, pending, keys, grace, pubs, scanned, ready, frame>>

-----------------------------------------------------------------------------
(* Restart.                                                                *)

\* recoverable_epochs, by workspace and oldest first.
Recoverable ==
  {e \in [ws : Workspaces, rev : Revision] :
     status[e.ws][e.rev] \in {"reducing", "fast_planned"}}

InOrder(s) ==
  \A i, j \in DOMAIN s : i < j /\ s[i].ws = s[j].ws => s[i].rev < s[j].rev

\* The process dies and comes back: the epoch scheduler's recovery runs
\* before the lane starts.
Crash ==
  /\ used.crashes < MaxCrashes /\ Spend("crashes")
  /\ \E s \in [1 .. Cardinality(Recoverable) -> Recoverable] :
       /\ \A e \in Recoverable : \E i \in DOMAIN s : s[i] = e
       /\ InOrder(s) /\ redrive' = s
  /\ closer' = AtRest /\ lane' = "off"
  /\ pending' = [w \in Workspaces |-> Absent]
  /\ keys' = [w \in Workspaces |-> None] /\ grace' = keys' /\ scanned' = keys'
  /\ pubs' = [w \in Workspaces |-> NoPub] /\ ready' = {} /\ item' = NoItem
  /\ UNCHANGED <<storeVars, frame>>

LaneStart ==
  /\ lane = "off" /\ redrive = <<>> /\ closer = AtRest /\ lane' = "idle"
  /\ UNCHANGED <<storeVars, closeVars, pending, keys, grace, pubs, scanned, ready, item,
                 frame, used>>

Lane   == Supersede \/ Scan \/ Mirror \/ (\E w \in Workspaces : Plan(w))
          \/ MarkPlanned \/ Advance \/ Record \/ Pop \/ LaneStart
Closer == (\E w \in Workspaces : CloseCommit(w)) \/ Redrive \/ CloseBroadcast
          \/ CloseNotify

Next ==
  \/ Lane \/ Closer \/ PublishFails \/ Crash
  \/ \E w \in Workspaces :
       \/ Submit(w) \/ Reset(w)
       \/ \E r \in Revision : ExactPublish(w, r) \/ ExactConsume(w, r)

Spec == Init /\ [][Next]_vars

\* The lane and the epoch scheduler are looping threads.
FairSpec == Spec /\ WF_vars(Lane) /\ WF_vars(Closer)

-----------------------------------------------------------------------------
(* Properties.                                                             *)

Publication == [rev : 0 .. MaxRevision, fast : 0 .. MaxRevision, class : Class,
                exact : 0 .. MaxRevision]

TypeOK ==
  /\ \A w \in Workspaces :
       /\ fast[w] \in 0 .. version[w] /\ exact[w] \in 0 .. version[w]
       /\ pending[w].rev \in 0 .. version[w] /\ keys[w] \in 0 .. version[w]
       /\ pubs[w] \in Publication /\ frame[w] \in Publication
  /\ lane \in {"off", "idle", "scan", "mirror", "plan", "mark", "advance", "record", "pop"}
  /\ ready \subseteq Workspaces

\* What subscribers see never goes back and never overstates: across clamps,
\* supersessions, resets and restarts the fast revision of a workspace's frames
\* never falls and covers the frame's own revision, and a frame that calls a
\* changed scene fast_exact names an exact revision that covers it.
FramesNeverRegress ==
  [][\A w \in Workspaces : frame'[w] # frame[w] =>
       /\ frame'[w].fast >= frame[w].fast /\ frame'[w].fast >= frame'[w].rev
       /\ frame'[w].class = "fast_exact" => frame'[w].exact >= frame'[w].rev]_vars

\* Lost wakes, a full queue, a failed publish and a restart only delay: the
\* fast revision of every workspace reaches its newest committed epoch.
EventuallyFast ==
  \A w \in Workspaces : []<>(Due(w) = {})

\* A provisional frame does not outlive its exact result: unless the process
\* that sent it died, it is replaced after the exact lane covers its revision.
QualifiedRetires ==
  \A w \in Workspaces :
     []<>(pubs[w].class # "fast_qualified" \/ exact[w] < pubs[w].rev)

\* The scan's one-pass grace: a fast frame never precedes the canonical frame
\* of its revision.
CanonicalBeforeFast ==
  \A w \in Workspaces : frame[w].rev = None \/ frame[w].rev \in told[w]

\* The revision model: exact <= fast <= workspace revision.
TripleOrdered == \A w \in Workspaces : exact[w] <= fast[w] /\ fast[w] <= version[w]

\* No reservation is stranded: what waits in the queue is published or goes.
ReservationsClear == \A w \in Workspaces : []<>(w \notin Waiting)

=============================================================================
