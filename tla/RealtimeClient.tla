--------------------------- MODULE RealtimeClient ---------------------------
(***************************************************************************)
(* One client's subscription to a workspace: studio/realtime_client.mjs    *)
(* (stream, gap fence, missed-events recovery, reconnect with catch-up)    *)
(* over the bounded queue the server keeps for its stream.                 *)
(*                                                                         *)
(* The client is single-threaded: a synchronous run between two awaits is  *)
(* one action.  Requests and the stream are independent connections, so an *)
(* answer, a registration and a frame may overtake each other.  The server *)
(* is what it promises: operations are accepted in server_sequence order   *)
(* (an operation is its sequence number) and every epoch makes the         *)
(* operations accepted so far canonical.                                   *)
(***************************************************************************)
EXTENDS StreamQueue, SequencesExt

CONSTANTS QueueSize,     \* capacity of the stream's queue (256 in the code)
          MaxRetries,    \* REALTIME_MAX_RECONNECT_RETRIES (3)
          MaxOps,        \* bound: operations accepted
          MaxErrors,     \* bound: stream errors and failed requests
          MaxSubscribes  \* bound: subscribeWorkspace calls

ASSUME ClientAssumption ==
  /\ QueueSize \in Nat \ {0} /\ MaxRetries \in Nat
  /\ MaxOps \in Nat /\ MaxErrors \in Nat /\ MaxSubscribes \in Nat

VARIABLES accepted,   \* operations in the durable log
          canonical,  \* of these, the ones in the newest canonical revision
          revision,   \* workspace_revision
          sent,       \* operations put on this client's stream so far
          q,          \* the queue of the client's open stream
          client,     \* the client's workspace state
          errors, subscribes

serverVars == <<accepted, canonical, revision, sent>>
vars == <<serverVars, q, client, errors, subscribes>>

Owner == {"join", "recover", "reconnect"}

\* A catch-up GET in flight for the code that awaits it.
Request(owner, since) ==
  [owner |-> owner, since |-> since, status |-> "sent", upto |-> 0, rev |-> 0]

\* #makeWorkspaceState.  cycle is reconnectCycle and where its coroutine waits;
\* orphan is no field of the code: it records that a reconnect was rejected
\* while the gap fence was up, and nobody has touched the fence since.
NewClient ==
  [subscribed |-> FALSE, state |-> "idle", source |-> "none", broken |-> FALSE,
   gap |-> FALSE, orphan |-> FALSE, buffered |-> <<>>, cycle |-> "none", attempts |-> 0,
   applied |-> {}, rev |-> 0, gets |-> <<>>]

Init ==
  /\ accepted = 0 /\ canonical = 0 /\ revision = 0 /\ sent = {}
  /\ q = NewQueue /\ client = NewClient /\ errors = 0 /\ subscribes = 0

\* The client's next state; a stream that is not open has no queue.
Become(c, frames) ==
  /\ client' = c
  /\ q' = IF c.source = "open" THEN frames ELSE NewQueue

-----------------------------------------------------------------------------
(* The server.                                                             *)

Accept ==
  /\ accepted < MaxOps
  /\ accepted' = accepted + 1
  /\ UNCHANGED <<canonical, revision, sent, q, client, errors, subscribes>>

\* An epoch closes: its revision is durable and its event is broadcast.
CommitEpoch ==
  LET ops == canonical + 1 .. accepted
  IN
  /\ ops # {}
  /\ canonical' = accepted
  /\ revision' = revision + 1
  /\ IF client.source = "open"
     THEN /\ q' = Put(q, CanonicalFrame(revision + 1, ops), QueueSize)
          /\ sent' = sent \cup ops
     ELSE UNCHANGED <<q, sent>>
  /\ UNCHANGED <<accepted, client, errors, subscribes>>

\* send_heartbeats.
Heartbeat ==
  /\ client.source = "open"
  /\ q' = PutHeartbeat(NoticeTaken(q), HeartbeatFrame(Notice(q)))
  /\ UNCHANGED <<serverVars, client, errors, subscribes>>

\* The events request reaches the server: the stream is registered.
Register ==
  /\ client.source = "opening"
  /\ client' = [client EXCEPT !.source = "open"]
  /\ q' = Put(NewQueue, SnapshotFrame(revision), QueueSize)
  /\ UNCHANGED <<serverVars, errors, subscribes>>

\* get_operations: everything past the watermark, canonical or not (its reads
\* of the log and of the revision are one step: no property relates them).
AnswerGet(i) ==
  /\ client.gets[i].status = "sent"
  /\ client' = [client EXCEPT !.gets[i].status = "answered",
                              !.gets[i].upto = accepted, !.gets[i].rev = revision]
  /\ UNCHANGED <<serverVars, q, errors, subscribes>>

\* A request fails: transiently (network, 5xx, 429) or for good (4xx).
FailGet(i) ==
  /\ client.gets[i].status = "sent" /\ errors < MaxErrors
  /\ errors' = errors + 1
  /\ \E kind \in {"transient", "refused"} :
       client' = [client EXCEPT !.gets[i].status = kind]
  /\ UNCHANGED <<serverVars, q, subscribes>>

-----------------------------------------------------------------------------
(* What the client computes between two awaits.                            *)

\* lastServerSequence: the highest sequence applied.
Watermark(c) == Max(c.applied \cup {0})

\* #catchUp, up to its await.
Fetch(c, owner) == [c EXCEPT !.gets = Append(@, Request(owner, Watermark(c)))]

\* #applyOperation for each: an applied id is skipped, so a set says it all.
ApplyOperations(c, ops) == [c EXCEPT !.applied = @ \cup ops]

ApplyCanonicalEvent(c, f) ==
  [ApplyOperations(c, f.ops) EXCEPT !.rev = Max({@, f.rev})]

\* #catchUp, after its await: request i is answered, or it threw.
CatchUp(c, i) ==
  LET g == c.gets[i]
      d == [c EXCEPT !.gets = RemoveAt(@, i)]
  IN  IF g.status = "answered"
      THEN [ApplyOperations(d, g.since + 1 .. g.upto) EXCEPT !.rev = Max({@, g.rev})]
      ELSE d

\* #recoverMissedEvents, up to the await of its catch-up.
RecoverMissedEvents(c) ==
  IF c.gap \/ c.cycle # "none" THEN c
  ELSE Fetch([c EXCEPT !.gap = TRUE, !.buffered = <<>>, !.state = "catching_up"],
             "recover")

DeliverEvent(c, f) ==
  CASE f.event \in {"canonical", "snapshot"} -> ApplyCanonicalEvent(c, f)
    [] f.event = "heartbeat" -> IF f.missed > 0 THEN RecoverMissedEvents(c) ELSE c

\* The client after the first n buffered events, delivered in order.
Flushing(c) ==
  LET after[n \in 0 .. Len(c.buffered)] ==
        IF n = 0 THEN [c EXCEPT !.buffered = <<>>]
        ELSE DeliverEvent(after[n - 1], c.buffered[n])
  IN  after

Flush(c) == Flushing(c)[Len(c.buffered)]

CloseSource(c) == [c EXCEPT !.source = "none"]

OpenStream(c) == [c EXCEPT !.source = "opening", !.broken = FALSE]

\* The head of #runReconnectCycle's loop: wait for the backoff, or give up.
StartAttempt(c) ==
  IF c.attempts + 1 > MaxRetries
  THEN [c EXCEPT !.attempts = @ + 1, !.cycle = "none", !.state = "failed"]
  ELSE [c EXCEPT !.attempts = @ + 1, !.cycle = "backoff", !.state = "reconnecting"]

\* Variation of OnStreamError: a cycle already under way is not looked at.
StartSecondCycle(c) == StartAttempt(CloseSource(c))

OnStreamError(c) ==
  IF c.cycle # "none"
  THEN [CloseSource(c) EXCEPT !.broken = TRUE]
  ELSE StartAttempt(CloseSource(c))

-----------------------------------------------------------------------------
(* The client's actions.                                                   *)

\* subscribeWorkspace, and the catchUpWorkspace the app calls right after it.
Subscribe ==
  /\ ~client.subscribed /\ subscribes < MaxSubscribes
  /\ subscribes' = subscribes + 1
  /\ Become(Fetch([OpenStream(client) EXCEPT !.subscribed = TRUE, !.state = "live"],
                  "join"), q)
  /\ UNCHANGED <<serverVars, errors>>

\* unsubscribeWorkspace: the backoff timer is cleared, so a cycle that waits
\* for it never resumes.
Unsubscribe ==
  /\ client.subscribed
  /\ Become([CloseSource(client) EXCEPT !.subscribed = FALSE, !.state = "closed",
               !.cycle = IF @ = "backoff" THEN "abandoned" ELSE @], q)
  /\ UNCHANGED <<serverVars, errors, subscribes>>

\* Behind the gap fence events are buffered (a heartbeat without a notice, which
\* does nothing when it is flushed, is left out).
Buffer(c, f) ==
  IF f.event = "heartbeat" /\ f.missed = 0 THEN c
  ELSE [c EXCEPT !.buffered = Append(@, f)]

\* #onStreamEvent.
OnStreamEvent ==
  LET f == Head(q.frames)
  IN
  /\ q.frames # <<>>
  /\ Become(IF client.gap THEN Buffer(client, f) ELSE DeliverEvent(client, f),
            [q EXCEPT !.frames = Tail(@)])
  /\ UNCHANGED <<serverVars, errors, subscribes>>

\* The EventSource reports an error.
StreamError ==
  /\ client.source # "none" /\ errors < MaxErrors
  /\ errors' = errors + 1
  /\ Become(OnStreamError(client), q)
  /\ UNCHANGED <<serverVars, subscribes>>

\* The backoff is over: open the replacement stream, then fetch the gap.
BackoffElapses ==
  /\ client.cycle = "backoff"
  /\ Become(Fetch([OpenStream(client) EXCEPT !.gap = TRUE, !.orphan = FALSE,
                     !.buffered = <<>>, !.state = "buffering",
                     !.cycle = "catchup"], "reconnect"), q)
  /\ UNCHANGED <<serverVars, errors, subscribes>>

\* The .catch of #runReconnectCycle: the cycle ends, the fence stays up.
Rejected(c) ==
  [c EXCEPT !.cycle = "none", !.state = "failed", !.orphan = TRUE]

\* The backoff is over and #openStream throws: no EventSource can be made.
OpenThrows ==
  /\ client.cycle = "backoff" /\ errors < MaxErrors
  /\ errors' = errors + 1
  /\ Become(Rejected([client EXCEPT !.gap = TRUE, !.buffered = <<>>]), q)
  /\ UNCHANGED <<serverVars, subscribes>>

\* Request i has an answer and the code that awaits it resumes.
Resumes(i, owner) == client.gets[i].owner = owner /\ client.gets[i].status # "sent"

JoinDone(i) ==
  /\ Resumes(i, "join")
  /\ Become(CatchUp(client, i), q)
  /\ UNCHANGED <<serverVars, errors, subscribes>>

\* Variation of ClearGap: the fence stays up.
KeepGap(c) == c

ClearGap(c) == [c EXCEPT !.gap = FALSE, !.orphan = FALSE]

\* #runMissedEventsRecovery: a reconnect cycle has taken over, or the client
\* unsubscribed.
RecoverSuperseded(i) ==
  /\ Resumes(i, "recover") /\ (~client.subscribed \/ client.cycle # "none")
  /\ Become(ClearGap(CatchUp(client, i)), q)
  /\ UNCHANGED <<serverVars, errors, subscribes>>

\* The GET failed: drop the buffer, hand over to the reconnect cycle.
RecoverFailed(i) ==
  /\ Resumes(i, "recover") /\ client.subscribed /\ client.cycle = "none"
  /\ client.gets[i].status # "answered"
  /\ Become(OnStreamError([ClearGap(CatchUp(client, i)) EXCEPT !.buffered = <<>>]), q)
  /\ UNCHANGED <<serverVars, errors, subscribes>>

\* The GET is applied: the fence comes down before the flush.
RecoverDone(i) ==
  LET c == Flush(ClearGap(CatchUp(client, i)))
  IN
  /\ Resumes(i, "recover") /\ client.subscribed /\ client.cycle = "none"
  /\ client.gets[i].status = "answered"
  /\ Become([c EXCEPT !.state = IF @ = "catching_up" /\ ~c.gap THEN "live" ELSE @], q)
  /\ UNCHANGED <<serverVars, errors, subscribes>>

\* A handler of the app throws in the flush, after n of the buffered events: the
\* .catch takes the fence down, a recovery that the flush has started or not.
RecoverThrows(i) ==
  /\ Resumes(i, "recover") /\ client.subscribed /\ client.cycle = "none"
  /\ client.gets[i].status = "answered"
  /\ client.buffered # <<>> /\ errors < MaxErrors
  /\ errors' = errors + 1
  /\ \E n \in 0 .. Len(client.buffered) :
       Become([ClearGap(Flushing(ClearGap(CatchUp(client, i)))[n]) EXCEPT
                 !.state = "failed"], q)
  /\ UNCHANGED <<serverVars, subscribes>>

\* Variation of AttemptFailed: the young stream's death goes unnoticed.
CatchUpFailed(i) == client.gets[i].status # "answered"

\* The catch-up failed transiently or the young stream died meanwhile.
AttemptFailed(i) == client.gets[i].status # "answered" \/ client.broken

\* #runReconnectCycle after its catch-up: a permanent error ends the cycle.
ReconnectRefused(i) ==
  /\ Resumes(i, "reconnect") /\ client.gets[i].status = "refused"
  /\ Become([CloseSource(ClearGap(CatchUp(client, i))) EXCEPT
               !.cycle = "none", !.state = "failed"], q)
  /\ UNCHANGED <<serverVars, errors, subscribes>>

\* Unsubscribed meanwhile: the coroutine returns and leaves reconnectCycle set.
ReconnectAbandoned(i) ==
  /\ Resumes(i, "reconnect") /\ client.gets[i].status # "refused"
  /\ ~client.subscribed
  /\ Become([ClearGap(CatchUp(client, i)) EXCEPT !.cycle = "abandoned"], q)
  /\ UNCHANGED <<serverVars, errors, subscribes>>

\* Variation of ReconnectRetry: the loop is left without clearing its flag.
LeaveLoop(i) ==
  /\ Resumes(i, "reconnect") /\ client.gets[i].status # "refused"
  /\ client.subscribed /\ AttemptFailed(i)
  /\ Become([CloseSource(ClearGap(Flush(CatchUp(client, i)))) EXCEPT
               !.cycle = "abandoned"], q)
  /\ UNCHANGED <<serverVars, errors, subscribes>>

\* Flush, then back off again.
ReconnectRetry(i) ==
  /\ Resumes(i, "reconnect") /\ client.gets[i].status # "refused"
  /\ client.subscribed /\ AttemptFailed(i)
  /\ Become(StartAttempt(CloseSource(ClearGap(Flush(CatchUp(client, i))))), q)
  /\ UNCHANGED <<serverVars, errors, subscribes>>

\* A handler of the app throws in the flush, after n of the buffered events.
ReconnectThrows(i) ==
  /\ Resumes(i, "reconnect") /\ client.gets[i].status # "refused"
  /\ client.subscribed
  /\ client.buffered # <<>> /\ errors < MaxErrors
  /\ errors' = errors + 1
  /\ \E n \in 0 .. Len(client.buffered) :
       Become(Rejected(Flushing(CatchUp(client, i))[n]), q)
  /\ UNCHANGED <<serverVars, subscribes>>

\* Flush, then live.
ReconnectLive(i) ==
  /\ Resumes(i, "reconnect") /\ client.gets[i].status # "refused"
  /\ client.subscribed /\ ~AttemptFailed(i)
  /\ Become([ClearGap(Flush(CatchUp(client, i))) EXCEPT
               !.state = "live", !.attempts = 0, !.cycle = "none"], q)
  /\ UNCHANGED <<serverVars, errors, subscribes>>

-----------------------------------------------------------------------------

Resume(i) ==
  \/ JoinDone(i)
  \/ RecoverSuperseded(i) \/ RecoverFailed(i) \/ RecoverDone(i)
  \/ RecoverThrows(i)
  \/ ReconnectRefused(i) \/ ReconnectAbandoned(i)
  \/ ReconnectRetry(i) \/ ReconnectThrows(i) \/ ReconnectLive(i)

Next ==
  \/ Accept \/ CommitEpoch \/ Heartbeat \/ Register
  \/ Subscribe \/ Unsubscribe \/ OnStreamEvent \/ StreamError
  \/ BackoffElapses \/ OpenThrows
  \/ \E i \in DOMAIN client.gets : AnswerGet(i) \/ FailGet(i) \/ Resume(i)

Spec == Init /\ [][Next]_vars

\* Connections are made, requests are answered or fail, timers fire, the client
\* reads its stream, the scheduler closes epochs and sends heartbeats.
Fairness ==
  /\ WF_vars(CommitEpoch) /\ WF_vars(Heartbeat) /\ WF_vars(Register)
  /\ WF_vars(OnStreamEvent) /\ WF_vars(BackoffElapses)
  /\ WF_vars(\E i \in DOMAIN client.gets : AnswerGet(i))
  /\ WF_vars(\E i \in DOMAIN client.gets : Resume(i))

FairSpec == Spec /\ Fairness

-----------------------------------------------------------------------------
(* Properties.                                                             *)

\* Every variable has its type: the retry budget is never overdrawn and
\* nothing is applied that the server has not accepted.
TypeOK ==
  /\ accepted \in 0 .. MaxOps /\ canonical \in 0 .. accepted
  /\ revision \in 0 .. MaxOps /\ sent \subseteq 1 .. canonical
  /\ errors \in 0 .. MaxErrors /\ subscribes \in 0 .. MaxSubscribes
  /\ client.source \in {"none", "opening", "open"}
  /\ client.state \in {"idle", "live", "buffering", "reconnecting", "catching_up",
                       "closed", "failed"}
  /\ client.cycle \in {"none", "backoff", "catchup", "abandoned"}
  /\ client.attempts \in Nat
  /\ client.cycle = "backoff" => client.attempts <= MaxRetries
  /\ client.applied \subseteq 1 .. accepted /\ client.rev \in 0 .. revision
  /\ \A i \in DOMAIN client.gets : client.gets[i].owner \in Owner

\* The gap fence has an owner: while events are held back, a recovery or
\* reconnect request that will take the fence down is in flight.  The one
\* exception is a reconnect that was rejected with the fence up (its .catch
\* does not take it down), until the next attempt or recovery has the fence.
FenceOwned ==
  client.gap => \/ \E i \in DOMAIN client.gets : client.gets[i].owner # "join"
                \/ client.orphan

\* There is never a second reconnect cycle: the coroutine that waits for its
\* catch-up is the only one, through re-subscriptions and late answers.
OneReconnectCycle ==
  Cardinality({i \in DOMAIN client.gets : client.gets[i].owner = "reconnect"})
    = IF client.cycle = "catchup" THEN 1 ELSE 0

\* A reconnect cycle that is under way ends, live or failed, within its retry
\* budget; only unsubscribing leaves it behind.
ReconnectSettles ==
  \A n \in 1 .. MaxSubscribes :
    (client.cycle \in {"backoff", "catchup"} /\ subscribes = n) ~>
       (client.cycle = "none" \/ ~client.subscribed \/ subscribes > n)

\* However many frames were dropped and streams replaced, a subscribed client
\* that has not failed learns every revision; the exceptions are a subscription
\* that inherited an abandoned cycle (BrokenStreamPickedUp) or the fence of a
\* rejected one (EventsAreFlushed).
RevisionConverges ==
  \A r \in 1 .. MaxOps :
    (revision = r) ~> (client.rev >= r \/ client.state = "failed" \/ ~client.subscribed
                         \/ client.cycle = "abandoned" \/ client.orphan)

\* studio/README.md: "the catch-up GET replays the dropped operations ...
\* everything applies exactly once".
MissedOperationsReplayed ==
  \A i \in 1 .. MaxOps :
    (i \in sent) ~> (i \in client.applied \/ client.state = "failed" \/ ~client.subscribed)

\* realtime_client.mjs on the reconnect: "everything from the GET onward is
\* covered by the stream, everything before it by the catch-up response -
\* nothing can fall in between".
NothingFallsInBetween ==
  [][\A i \in DOMAIN client.gets : ReconnectLive(i) =>
       1 .. canonical \subseteq
         client'.applied \cup UNION {q.frames[j].ops : j \in DOMAIN q.frames}]_vars

\* realtime_client.mjs: "during a reconnect gap nothing applies until the
\* catch-up GET has closed the hole".
GapHoldsEvents ==
  [][client.cycle = "catchup" /\ OnStreamEvent
       => client'.applied = client.applied /\ client'.rev = client.rev]_vars

\* realtime_client.mjs: "events are buffered and flushed in order".
EventsAreFlushed ==
  client.buffered # <<>>
    ~> (client.buffered = <<>> \/ client.state = "failed" \/ ~client.subscribed)

\* realtime_client.mjs on an error during a cycle: "the active cycle picks this
\* up after the catch-up attempt settles".
BrokenStreamPickedUp ==
  client.broken ~> (~client.broken \/ client.state = "failed" \/ ~client.subscribed)

\* realtime_client.mjs: "Only the OWNING cycle returns the badge to live" and
\* "the reconnect cycle took the gap over mid-recovery (it resets the buffer
\* ...)": a client that says live has a stream.
LiveMeansConnected == client.state = "live" => client.source # "none"

=============================================================================
