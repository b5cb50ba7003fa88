----------------------------- MODULE ExactSession -----------------------------
(***************************************************************************)
(* The studio's exact-analysis session (studio/exact_session.mjs) over its *)
(* HTTP adapter (studio/api_client.mjs), against the edit, reset, job and  *)
(* result routes of the server (external here: solweig_gpu/server/, whose  *)
(* own modules check it).                                                  *)
(*                                                                         *)
(* JavaScript runs to the next await: every action is one such stretch, or *)
(* the server serving one request.  A request, its answer, a timer and a   *)
(* download are in flight until some later step takes them, in any order.  *)
(* An edit is a committed interaction of the user; edits are committed in  *)
(* the order of their numbers.                                             *)
(***************************************************************************)
EXTENDS Integers, Sequences, FiniteSets

CONSTANTS MaxEdits,    \* bound: interactions the user commits
          MaxVersion,  \* bound: scene versions
          MaxPolls,    \* bound: polls in flight, current and stale
          MaxOthers,   \* bound: edits of other editors of the scenario
          MaxResets,   \* bound: resets the user asks for
          MaxLimited,  \* bound: 429 answers
          MaxLost,     \* bound: requests or answers the network loses
          MaxRetries,  \* bound: uses of the Retry affordance
          MaxSwaps,    \* bound: swaps of the site under the scenario
          MaxTurns     \* bound: all of the above together

ASSUME ExactSessionAssumption ==
  /\ MaxEdits \in Nat /\ MaxVersion \in Nat /\ MaxPolls \in Nat /\ MaxOthers \in Nat
  /\ MaxResets \in Nat /\ MaxLimited \in Nat /\ MaxLost \in Nat /\ MaxRetries \in Nat
  /\ MaxSwaps \in 0 .. 1 /\ MaxTurns \in Nat

Edit    == 1 .. MaxEdits
Version == 0 .. MaxVersion
None    == 0
Other   == MaxEdits + 1
Wiped   == MaxEdits + 2

VARIABLES sv,       \* scene_version
          log,      \* the mutations the server accepted, in order
          jobs,     \* status of the job a version got
          replies,  \* idempotency rows: edit and key -> the version answered
          minted,   \* scenarios created for this session
          swapped   \* the live site no longer matches the pinned identity

VARIABLES conn,     \* connect(): where it is
          refetch,  \* the connect already read the baseline a second time
          backlog,  \* edits held until the baseline is there
          queue,    \* #mutationQueue: runs not yet started
          att,      \* the attempt of each edit
          last,     \* lastAttempt
          scene, awaiting, \* sceneVersion, awaitingVersion (None = null)
          shown,    \* version of the result on screen
          gen, polls,      \* #pollGeneration and the polls in flight
          wipe,     \* the reset() in flight
          mismatch, \* siteMismatch
          alert,    \* a failure is on display
          used      \* bounds spent

serverVars == <<sv, log, jobs, replies, minted, swapped>>
connVars   == <<conn, refetch, backlog>>
viewVars   == <<scene, awaiting, shown, gen, polls, mismatch, alert>>
vars == <<serverVars, connVars, queue, att, last, viewVars, wipe, used>>

Fresh   == [pc |-> "new", base |-> 0, key |-> 1, by |-> "run", re409 |-> FALSE,
            re429 |-> FALSE, ans |-> "none", ver |-> 0]
NoWipe  == [pc |-> "idle", base |-> 0, ans |-> "none", ver |-> 0, gen |-> 0]
NoReply == None

Init ==
  /\ sv = 0 /\ log = <<>> /\ jobs = [v \in Version |-> "none"]
  /\ replies = [e \in Edit |-> [k \in 1 .. 2 |-> NoReply]]
  /\ minted = 0 /\ swapped = FALSE
  /\ conn = "create" /\ refetch = FALSE /\ backlog = <<>> /\ queue = <<>>
  /\ att = [e \in Edit |-> Fresh] /\ last = None
  /\ scene = 0 /\ awaiting = None /\ shown = 0 /\ gen = 0 /\ polls = {}
  /\ wipe = NoWipe /\ mismatch = FALSE /\ alert = FALSE
  /\ used = [others |-> 0, resets |-> 0, limited |-> 0, lost |-> 0, retries |-> 0,
             swaps |-> 0]

Budget == [others |-> MaxOthers, resets |-> MaxResets, limited |-> MaxLimited,
           lost |-> MaxLost, retries |-> MaxRetries, swaps |-> MaxSwaps]
Turns == used.others + used.resets + used.limited + used.lost + used.retries + used.swaps
Spend(b) ==
  /\ used[b] < Budget[b] /\ Turns < MaxTurns
  /\ used' = [used EXCEPT ![b] = @ + 1]

-----------------------------------------------------------------------------
(* The server.                                                             *)

\* A commit supersedes the queued jobs before it.
Superseded == [v \in Version |-> IF jobs[v] = "queued" THEN "superseded" ELSE jobs[v]]

Accept(who) ==
  /\ sv < MaxVersion /\ sv' = sv + 1 /\ log' = Append(log, who)
  /\ jobs' = [Superseded EXCEPT ![sv + 1] = IF who = Wiped THEN "complete" ELSE "queued"]

\* Another editor of the scenario.
OtherEdit ==
  /\ Spend("others") /\ Accept(Other)
  /\ UNCHANGED <<replies, minted, swapped, connVars, queue, att, last, viewVars, wipe>>

\* The runner finishes the job of the current version; cancelled ends like
\* failed here.  An edit the executor refuses ends superseded, although no newer
\* version supersedes it.
JobEnds ==
  /\ jobs[sv] = "queued"
  /\ \E st \in {"complete", "failed", "superseded"} : jobs' = [jobs EXCEPT ![sv] = st]
  /\ UNCHANGED <<sv, log, replies, minted, swapped, connVars, queue, att, last, viewVars,
                 wipe, used>>

SwapSite ==
  /\ Spend("swaps") /\ swapped' = TRUE
  /\ UNCHANGED <<sv, log, jobs, replies, minted, connVars, queue, att, last, viewVars, wipe>>

Untouched == UNCHANGED <<sv, log, jobs, replies>>

\* POST edits: rate gate, replay, site identity, base version, commit.
ServeEdit(e) ==
  LET a == att[e]
      Answer(kind, v) == att' = [att EXCEPT ![e].pc = "answer", ![e].ans = kind,
                                            ![e].ver = v]
  IN
  /\ a.pc = "post"
  /\ \/ Spend("limited") /\ Answer("limited", 0) /\ Untouched
     \/ /\ UNCHANGED used
        /\ IF replies[e][a.key] # NoReply
           THEN Answer("ok", replies[e][a.key]) /\ Untouched
           ELSE IF swapped THEN Answer("mismatch", 0) /\ Untouched
           ELSE IF a.base # sv THEN Answer("conflict", 0) /\ Untouched
           ELSE /\ Accept(e) /\ Answer("ok", sv + 1)
                /\ replies' = [replies EXCEPT ![e][a.key] = sv + 1]
  /\ UNCHANGED <<minted, swapped, connVars, queue, last, viewVars, wipe>>

\* The request is lost before, or the answer after, the server acted.
LoseEdit(e) ==
  /\ att[e].pc \in {"post", "answer"} /\ att[e].ans # "lost" /\ Spend("lost")
  /\ att' = [att EXCEPT ![e].pc = "answer", ![e].ans = "lost"]
  /\ UNCHANGED <<serverVars, connVars, queue, last, viewVars, wipe>>

ServeReset ==
  /\ wipe.pc = "post"
  /\ \/ /\ Spend("lost") /\ wipe' = [wipe EXCEPT !.pc = "answer", !.ans = "lost"]
        /\ UNCHANGED <<sv, log, jobs>>
     \/ /\ UNCHANGED used
        /\ IF swapped \/ wipe.base # sv
           THEN /\ wipe' = [wipe EXCEPT !.pc = "answer",
                              !.ans = IF swapped THEN "mismatch" ELSE "conflict"]
                /\ UNCHANGED <<sv, log, jobs>>
           ELSE /\ Accept(Wiped)
                /\ wipe' = [wipe EXCEPT !.pc = "answer", !.ans = "ok", !.ver = sv + 1]
  /\ UNCHANGED <<replies, minted, swapped, connVars, queue, att, last, viewVars>>

\* GET job.
ServeJob(p) ==
  /\ p \in polls /\ p.at = "get"
  /\ polls' = (polls \ {p}) \cup {[p EXCEPT !.at = jobs[p.ver]]}
  /\ UNCHANGED <<serverVars, connVars, queue, att, last, scene, awaiting, shown, gen,
                 mismatch, alert, wipe, used>>

-----------------------------------------------------------------------------
(* Connect.                                                                *)

\* One key per connect chain: a repeated create is a replay.
Mint == IF minted = 0 THEN 1 ELSE minted

\* The create POST; a lost answer is repeated with the same key, which the
\* server replays.  Every later failure rejoins the scenario already minted.
ConnectCreate ==
  /\ conn = "create"
  /\ minted' = Mint
  /\ \/ Spend("lost") /\ conn' = "create"
     \/ UNCHANGED used /\ conn' = "fetch"
  /\ scene' = IF conn' = "fetch" THEN sv ELSE scene
  /\ wipe' = [wipe EXCEPT !.gen = gen]
  /\ UNCHANGED <<sv, log, jobs, replies, swapped, refetch, backlog, queue, att, last,
                 awaiting, shown, gen, polls, mismatch, alert>>

\* The baseline arrives; a reset meanwhile makes it read once more, and a
\* second one ends the connect.
ConnectFetched ==
  /\ conn = "fetch" /\ gen # wipe.gen
  /\ conn' = IF refetch THEN "dead" ELSE "fetch"
  /\ refetch' = TRUE
  /\ backlog' = IF refetch THEN <<>> ELSE backlog
  /\ att' = IF refetch
            THEN [e \in Edit |-> IF att[e].pc = "held" THEN [att[e] EXCEPT !.pc = "dropped"]
                                 ELSE att[e]]
            ELSE att
  /\ wipe' = [wipe EXCEPT !.gen = gen]
  /\ UNCHANGED <<serverVars, queue, last, viewVars, used>>

\* Ready: held edits go to the mutation queue in order.
ConnectReady ==
  /\ conn = "fetch" /\ gen = wipe.gen /\ conn' = "ready"
  /\ shown' = scene /\ awaiting' = None
  /\ queue' = queue \o backlog /\ backlog' = <<>>
  /\ att' = [e \in Edit |-> IF att[e].pc = "held" THEN [att[e] EXCEPT !.pc = "queued"]
                            ELSE att[e]]
  /\ UNCHANGED <<serverVars, refetch, last, scene, gen, polls, mismatch, alert, wipe, used>>

-----------------------------------------------------------------------------
(* Commits.                                                                *)

\* commitEdits.
Commit(e) ==
  /\ att[e].pc = "new" /\ \A f \in 1 .. e - 1 : att[f].pc # "new"
  /\ IF mismatch
     THEN att' = [att EXCEPT ![e].pc = "blocked"] /\ UNCHANGED <<backlog, queue>>
     ELSE IF conn # "ready"
     THEN /\ att' = [att EXCEPT ![e].pc = "held"] /\ backlog' = Append(backlog, e)
          /\ UNCHANGED queue
     ELSE /\ att' = [att EXCEPT ![e].pc = "queued"] /\ queue' = Append(queue, e)
          /\ UNCHANGED backlog
  /\ UNCHANGED <<serverVars, conn, refetch, last, viewVars, wipe, used>>

\* A run holds the queue until its own POST is answered; what it hands to the
\* background (a recovery, a 429 wait) does not.
QueueFree == \A e \in Edit : ~(att[e].pc \in {"post", "answer"} /\ att[e].by = "run")

\* #commitEditsUnchecked, or the re-run of an attempt with the base it had.
Run ==
  /\ queue # <<>> /\ QueueFree
  /\ LET e == Head(queue) IN
       /\ att' = [att EXCEPT ![e].pc = "post", ![e].by = "run", ![e].ans = "none",
                             ![e].base = IF att[e].ans = "none" THEN scene ELSE @]
       /\ last' = e
  /\ queue' = Tail(queue)
  /\ UNCHANGED <<serverVars, connVars, viewVars, wipe, used>>

\* Invalidating the polls also clears the timer.
Stale(ps) == {p \in ps : p.at # "timer"}

\* 202: adopt the version and poll its job.
Accepted(e) ==
  LET v == att[e].ver IN
  /\ scene' = v /\ awaiting' = v /\ gen' = gen + 1 /\ alert' = FALSE
  /\ polls' = Stale(polls) \cup {[gen |-> gen + 1, ver |-> v, at |-> "timer", want |-> 0]}
  /\ Cardinality(polls') <= MaxPolls
  /\ att' = [att EXCEPT ![e].pc = "done"]
  /\ UNCHANGED <<mismatch, shown>>

\* #noteSiteMismatch.
NoteMismatch ==
  /\ mismatch' = TRUE /\ gen' = gen + 1 /\ polls' = Stale(polls) /\ awaiting' = None
  /\ alert' = TRUE

\* #handleCommitError.  What fails in the background is only reported.
Refused(e) ==
  LET a == att[e] IN
  IF a.by = "run" /\ a.ans = "mismatch"
  THEN /\ NoteMismatch /\ att' = [att EXCEPT ![e].pc = "blocked"]
       /\ UNCHANGED <<scene, shown>>
  ELSE IF a.by = "run" /\ a.ans = "conflict"
  THEN att' = [att EXCEPT ![e].pc = "reload"] /\ UNCHANGED viewVars
  ELSE IF a.by = "run" /\ a.ans = "limited" /\ ~a.re429
  THEN att' = [att EXCEPT ![e].pc = "wait", ![e].re429 = TRUE] /\ UNCHANGED viewVars
  ELSE /\ att' = [att EXCEPT ![e].pc = "failed"] /\ alert' = TRUE
       /\ UNCHANGED <<scene, awaiting, shown, gen, polls, mismatch>>

Answered(e) ==
  /\ att[e].pc = "answer"
  /\ IF att[e].ans = "ok" THEN Accepted(e) ELSE Refused(e)
  /\ UNCHANGED <<serverVars, connVars, queue, last, wipe, used>>

\* #retryAfterRateLimit, after its timer: the same key, the same base.
RetryLimited(e) ==
  /\ att[e].pc = "wait"
  /\ att' = [att EXCEPT ![e].pc = "post", ![e].by = "background", ![e].ans = "none"]
  /\ UNCHANGED <<serverVars, connVars, queue, last, viewVars, wipe, used>>

\* #recoverFromConflict: the scenario is read ...
Reload(e) ==
  /\ att[e].pc = "reload"
  /\ att' = [att EXCEPT ![e].pc = "adopt", ![e].ver = sv]
  /\ UNCHANGED <<serverVars, connVars, queue, last, viewVars, wipe, used>>

\* ... adopted, and the edit reapplied once under a new key, or discarded.
Reapply(e) ==
  /\ att[e].pc = "adopt" /\ scene' = att[e].ver
  /\ \/ att' = [att EXCEPT ![e].pc = "dropped"]
     \/ /\ ~att[e].re409
        /\ att' = [att EXCEPT ![e].pc = "post", ![e].by = "background",
                              ![e].re409 = TRUE, ![e].base = att[e].ver,
                              ![e].key = 2, ![e].ans = "none"]
  /\ UNCHANGED <<serverVars, connVars, queue, last, awaiting, shown, gen, polls, mismatch,
                 alert, wipe, used>>

\* Variation of RetryKey: a retry is a new commit to the server.
RetryKeyFresh(e) == 2

\* The unacknowledged attempt keeps its key.
RetryKey(e) == att[e].key

\* retryLast, offered while the failure is on display.
RetryLast ==
  /\ alert /\ ~mismatch /\ conn = "ready" /\ last # None /\ att[last].pc = "failed"
  /\ Spend("retries")
  /\ att' = [att EXCEPT ![last].pc = "queued", ![last].key = RetryKey(last)]
  /\ queue' = Append(queue, last)
  /\ UNCHANGED <<serverVars, connVars, last, viewVars, wipe>>

-----------------------------------------------------------------------------
(* Reset.                                                                  *)

\* While connecting, dropping the held edits is the reset.
ResetHeld ==
  /\ conn \in {"create", "fetch"} /\ ~mismatch /\ Spend("resets")
  /\ backlog' = <<>>
  /\ att' = [e \in Edit |-> IF att[e].pc = "held" THEN [att[e] EXCEPT !.pc = "dropped"]
                            ELSE att[e]]
  /\ gen' = gen + 1
  /\ UNCHANGED <<serverVars, conn, refetch, queue, last, scene, awaiting, shown, polls,
                 mismatch, alert, wipe>>

\* reset() does not wait its turn in the mutation queue.
ResetPost ==
  /\ conn = "ready" /\ ~mismatch /\ wipe.pc = "idle" /\ Spend("resets")
  /\ gen' = gen + 1 /\ polls' = Stale(polls) /\ awaiting' = None
  /\ wipe' = [NoWipe EXCEPT !.pc = "post", !.base = scene]
  /\ UNCHANGED <<serverVars, connVars, queue, att, last, scene, shown, mismatch, alert>>

ResetAnswered ==
  /\ wipe.pc = "answer"
  /\ IF wipe.ans = "ok"
     THEN /\ scene' = wipe.ver /\ wipe' = [wipe EXCEPT !.pc = "fetch", !.gen = gen]
          /\ UNCHANGED <<awaiting, shown, gen, polls, mismatch, alert>>
     ELSE /\ wipe' = NoWipe
          /\ IF wipe.ans = "mismatch" THEN NoteMismatch
             ELSE alert' = TRUE /\ UNCHANGED <<awaiting, gen, polls, mismatch>>
          /\ UNCHANGED <<scene, shown>>
  /\ UNCHANGED <<serverVars, connVars, queue, att, last, used>>

\* The baseline of the new version; an overtaken download comes back empty, a
\* failed one ends the reset.
ResetFetched ==
  /\ wipe.pc = "fetch" /\ wipe' = NoWipe
  /\ \/ /\ shown' = IF gen = wipe.gen THEN wipe.ver ELSE shown
        /\ awaiting' = None /\ UNCHANGED <<alert, used>>
     \/ Spend("lost") /\ alert' = TRUE /\ UNCHANGED <<shown, awaiting>>
  /\ UNCHANGED <<serverVars, connVars, queue, att, last, scene, gen, polls, mismatch>>

-----------------------------------------------------------------------------
(* Polling.                                                                *)

\* Variation of Owns: an answer is taken whatever happened meanwhile.
OwnsAlways(p) == TRUE

\* Only the poll of the current generation may act on what it awaited.
Owns(p) == p.gen = gen

PollSend(p) ==
  /\ p \in polls /\ p.at = "timer"
  /\ polls' = (polls \ {p}) \cup {[p EXCEPT !.at = "get"]}
  /\ UNCHANGED <<serverVars, connVars, queue, att, last, scene, awaiting, shown, gen,
                 mismatch, alert, wipe, used>>

\* Variation of PollAgain: an unfinished job ends the poll.
PollAgainNever(p) == {}

PollAgain(p) == {[p EXCEPT !.at = "timer"]}

\* The job's status: keep polling, stop, or download the result.
PollAnswered(p) ==
  /\ p \in polls /\ p.at \in {"queued", "superseded", "failed", "complete"}
  /\ alert' = IF Owns(p) /\ p.at = "failed" THEN TRUE ELSE alert
  /\ polls' = (polls \ {p}) \cup
       (IF ~Owns(p) THEN {}
        ELSE IF p.at = "queued" THEN PollAgain(p)
        ELSE IF p.at = "complete" /\ p.ver >= awaiting
        THEN {[p EXCEPT !.at = "fetch", !.want = awaiting]} ELSE {})
  /\ UNCHANGED <<serverVars, connVars, queue, att, last, scene, awaiting, shown, gen,
                 mismatch, wipe, used>>

\* The download: applied only at the awaited version.
PollFetched(p) ==
  /\ p \in polls /\ p.at = "fetch" /\ polls' = polls \ {p}
  /\ IF Owns(p) /\ p.ver = p.want
     THEN shown' = p.ver /\ awaiting' = IF awaiting = p.ver THEN None ELSE awaiting
     ELSE UNCHANGED <<shown, awaiting>>
  /\ UNCHANGED <<serverVars, connVars, queue, att, last, scene, gen, mismatch, alert,
                 wipe, used>>

\* GET failures beyond the retry ladder end the poll and say so.
PollDies(p) ==
  /\ p \in polls /\ p.at \in {"get", "fetch"} /\ Spend("lost")
  /\ polls' = polls \ {p} /\ alert' = (alert \/ Owns(p))
  /\ UNCHANGED <<serverVars, connVars, queue, att, last, scene, awaiting, shown, gen,
                 mismatch, wipe>>

Poll(p) == PollSend(p) \/ ServeJob(p) \/ PollAnswered(p) \/ PollFetched(p)

Post(e) == ServeEdit(e) \/ Answered(e) \/ RetryLimited(e) \/ Reload(e) \/ Reapply(e)

Connect == ConnectCreate \/ ConnectFetched \/ ConnectReady

Clear == ServeReset \/ ResetAnswered \/ ResetFetched

Next ==
  \/ Connect \/ Run \/ Clear \/ JobEnds \/ OtherEdit \/ SwapSite
  \/ RetryLast \/ ResetHeld \/ ResetPost
  \/ \E e \in Edit : Commit(e) \/ Post(e) \/ LoseEdit(e)
  \/ \E p \in polls : Poll(p) \/ PollDies(p)

Spec == Init /\ [][Next]_vars

\* Timers fire, requests are served and answered, jobs end.
FairSpec ==
  /\ Spec /\ WF_vars(JobEnds) /\ WF_vars(Connect) /\ WF_vars(Run) /\ WF_vars(Clear)
  /\ \A e \in Edit : WF_vars(Post(e))
  /\ WF_vars(\E p \in polls : Poll(p))

-----------------------------------------------------------------------------
(* Properties.                                                             *)

TypeOK ==
  /\ sv \in Version /\ scene \in Version /\ awaiting \in Version /\ shown \in Version
  /\ minted \in 0 .. 1 /\ conn \in {"create", "fetch", "ready", "dead"}
  /\ \A i \in DOMAIN backlog : att[backlog[i]].pc = "held"
  /\ \A i \in DOMAIN queue : att[queue[i]].pc = "queued"
  /\ \A p \in polls : p.gen \in 0 .. gen /\ p.ver \in Version /\ p.want \in Version
  /\ Cardinality(polls) <= MaxPolls

\* One interaction is one mutation: through lost answers, 429 bounces, 409
\* recoveries, retries and the edits held while connecting, the server never
\* accepts the same edit twice.
AtMostOnce ==
  \A i, j \in DOMAIN log : log[i] = log[j] /\ log[i] \in Edit => i = j

\* Only the awaited result reaches the screen: whatever commits, recoveries and
\* resets happened while a poll or a download was in flight, a session that
\* awaits a version shows that version next, or the baseline of its reset.
AppliedIsAwaited ==
  [][(conn = "ready" /\ awaiting # None /\ shown' # shown) =>
       shown' = awaiting \/ (wipe.pc = "fetch" /\ shown' = wipe.ver)]_vars

\* A request for a result ends: it is shown, the failure is on display, or its
\* job ended superseded, which the session passes over in silence.
EventuallySettled ==
  (awaiting # None) ~> (awaiting = None \/ alert \/ jobs[awaiting] = "superseded")

\* "A newer edit owns the result": it does when a job ends superseded.
SupersededIsOvertaken == \A p \in polls : p.at = "superseded" => sv > p.ver

\* awaitingVersion: null means exact. With nothing in flight, a session that
\* awaits nothing shows the scene it says it is at.
NullMeansExact ==
  (/\ conn = "ready" /\ awaiting = None /\ wipe.pc = "idle" /\ queue = <<>> /\ polls = {}
   /\ ~mismatch
   /\ \A e \in Edit : att[e].pc \in {"new", "done", "dropped"})
     => shown = scene

\* The screen never goes back to the result of an older version.
ShownNeverRegresses == [][shown' >= shown]_vars

\* Chained mutations never race each other: while nobody else edits, the
\* server never answers a commit with a conflict.
NoSelfConflict == used.others = 0 => \A e \in Edit : att[e].ans # "conflict"

\* After a site mismatch no mutation is posted.
NoZombiePost ==
  [][mismatch => \A e \in Edit : att[e].pc # "post" => att'[e].pc # "post"]_vars

===============================================================================
