---------------------------- MODULE StreamQueue ----------------------------
(***************************************************************************)
(* The bounded event queue of one SSE subscription: Subscription._enqueue  *)
(* of solweig_gpu/server/realtime/broadcast.py.  A queue is the pending    *)
(* frames and the lag bookkeeping (_missed, _lagged).                      *)
(***************************************************************************)
EXTENDS Integers, Sequences, FiniteSetsExt

NewQueue == [frames |-> <<>>, missed |-> 0, lagged |-> FALSE]

\* A frame is its SSE event name, the workspace revision it carries and the
\* operations in its payload; a heartbeat carries missed_events instead.
CanonicalFrame(r, ops) == [event |-> "canonical", rev |-> r, ops |-> ops, missed |-> 0]
SnapshotFrame(r) == [event |-> "snapshot", rev |-> r, ops |-> {}, missed |-> 0]
HeartbeatFrame(n) == [event |-> "heartbeat", rev |-> 0, ops |-> {}, missed |-> n]
CloseFrame == [event |-> "close", rev |-> 0, ops |-> {}, missed |-> 0]

\* Privileged frames bypass the capacity.
PutPrivileged(q, f) == [q EXCEPT !.frames = Append(@, f)]

\* Variation of Put: the capacity test is off by one.
PutOffByOne(q, f, size) ==
  IF Len(q.frames) <= size
  THEN PutPrivileged(q, f)
  ELSE [frames |-> Append(Tail(q.frames), f), missed |-> q.missed + 1, lagged |-> TRUE]

\* Any other frame drops the oldest one when the queue is full.
Put(q, f, size) ==
  IF Len(q.frames) < size
  THEN PutPrivileged(q, f)
  ELSE [frames |-> Append(Tail(q.frames), f), missed |-> q.missed + 1, lagged |-> TRUE]

PendingHeartbeats(q) == {i \in DOMAIN q.frames : q.frames[i].event = "heartbeat"}

\* A heartbeat replaces a pending one in place, so at most one is pending.
PutHeartbeat(q, h) ==
  IF PendingHeartbeats(q) = {}
  THEN PutPrivileged(q, h)
  ELSE [q EXCEPT !.frames[Min(PendingHeartbeats(q))] = h]

\* heartbeat_payload: the lag notice to send, and the queue once the flag is
\* consumed.
Notice(q) == IF q.lagged THEN q.missed ELSE 0
NoticeTaken(q) == [q EXCEPT !.missed = 0, !.lagged = FALSE]

============================================================================
