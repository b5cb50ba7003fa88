-------------------------- MODULE ExactSessionProofs --------------------------
(***************************************************************************)
(* Proofs about ExactSession for every number of edits, versions, polls    *)
(* and faults.  The inductive invariant IInv ties the idempotency rows of  *)
(* the server to the key an attempt holds, and the generation of a poll to *)
(* the version the session awaits.                                         *)
(***************************************************************************)
EXTENDS ExactSession, SequenceTheorems, TLAPS

-----------------------------------------------------------------------------
(* The inductive invariant.                                                *)

Key == 1 .. 2

AttemptPc == {"new", "held", "blocked", "queued", "post", "answer", "reload", "adopt",
              "wait", "failed", "dropped", "done"}

AttemptAns == {"none", "ok", "limited", "mismatch", "conflict", "lost"}

Attempt ==
  [pc : AttemptPc, base : Version, key : Key, by : {"run", "background"},
   re409 : BOOLEAN, re429 : BOOLEAN, ans : AttemptAns, ver : Version]

JobStatus == {"none", "queued", "superseded", "failed", "complete"}

PollState ==
  [gen : Nat, ver : Version, at : JobStatus \cup {"timer", "get", "fetch"},
   want : Version]

Reset ==
  [pc : {"idle", "post", "answer", "fetch"}, base : Version,
   ans : {"none", "ok", "mismatch", "conflict", "lost"}, ver : Version, gen : Nat]

\* The server's side of the types.
ServerTypes ==
  /\ sv \in Version /\ jobs \in [Version -> JobStatus]
  /\ log \in Seq(Edit \cup {Other, Wiped})
  /\ replies \in [Edit -> [1 .. 2 -> Version]]

\* The session's side of the types.
SessionTypes ==
  /\ att \in [Edit -> Attempt] /\ last \in Edit \cup {None}
  /\ queue \in Seq(Edit) /\ backlog \in Seq(Edit)
  /\ scene \in Version /\ awaiting \in Version /\ gen \in Nat
  /\ polls \subseteq PollState /\ wipe \in Reset

\* The server has accepted edit e.
Logged(e) == \E i \in DOMAIN log : log[i] = e

\* An accepted edit is remembered under the key its attempt holds, so the same
\* request again is a replay.
KeyRemembers ==
  \A e \in Edit : Logged(e) => replies[e][att[e].key] # NoReply

\* An attempt that will be given a new key has not been accepted under the old.
Unserved(a) == a.pc \in {"reload", "adopt"} \/ (a.pc = "answer" /\ a.ans = "conflict")
NewKeyOnlyIfUnserved ==
  \A e \in Edit : Unserved(att[e]) => ~Logged(e)

\* No poll is of a generation to come, and a download of the current one is for
\* the version awaited now, unless nothing is awaited any more.
DownloadsAwaited ==
  \A p \in polls :
    /\ p.gen <= gen
    /\ p.at = "fetch" /\ p.gen = gen /\ awaiting # None => p.want = awaiting

IInv ==
  /\ ServerTypes /\ SessionTypes
  /\ AtMostOnce /\ KeyRemembers /\ NewKeyOnlyIfUnserved
  /\ DownloadsAwaited

-----------------------------------------------------------------------------
(* Lemmas.                                                                 *)

\* What one accepted mutation does to the server: the log gets one entry, and
\* if an edit is not in it yet it still holds every edit at most once.
LEMMA AcceptFacts ==
  ASSUME ServerTypes, NEW who \in Edit \cup {Other, Wiped}, Accept(who)
  PROVE  /\ sv' \in Version /\ sv' = sv + 1 /\ sv' # None
         /\ jobs' \in [Version -> JobStatus]
         /\ log' \in Seq(Edit \cup {Other, Wiped})
         /\ \A e : Logged(e)' <=> (Logged(e) \/ e = who)
         /\ AtMostOnce /\ (who \in Edit => ~Logged(who)) => AtMostOnce'
<1> USE ExactSessionAssumption DEF Version, Edit, Other, Wiped
<1>1. sv' \in Version /\ sv' = sv + 1 /\ sv' # None
  BY DEF Accept, ServerTypes, None
<1>2. jobs' \in [Version -> JobStatus]
  BY <1>1 DEF Accept, ServerTypes, Superseded, JobStatus
<1>3. log' = Append(log, who) /\ log \in Seq(Edit \cup {Other, Wiped})
  BY DEF Accept, ServerTypes
<1>4. log' \in Seq(Edit \cup {Other, Wiped})
  BY <1>3, AppendProperties
<1>5. /\ DOMAIN log = 1 .. Len(log) /\ Len(log) \in Nat
      /\ DOMAIN log' = 1 .. Len(log) + 1
      /\ \A i \in DOMAIN log : log'[i] = log[i]
      /\ log'[Len(log) + 1] = who
  BY <1>3, AppendProperties, LenProperties
<1>6. \A e : Logged(e)' <=> (Logged(e) \/ e = who)
  BY <1>5 DEF Logged
<1>7. ASSUME AtMostOnce, who \in Edit => ~Logged(who)
      PROVE  AtMostOnce'
  BY <1>5, <1>7 DEF AtMostOnce, Logged
<1> QED BY <1>1, <1>2, <1>4, <1>6, <1>7

\* The bounds spent say nothing about the session.
LEMMA NamesApart ==
  /\ Other \notin Edit /\ Wiped \notin Edit /\ None \notin Edit
BY ExactSessionAssumption DEF Other, Wiped, None, Edit

\* The server's claims survive a step that neither accepts an edit nor gives
\* an attempt another key.
LEMMA KeysKept ==
  ASSUME IInv, replies' = replies,
         \A e \in Edit : Logged(e)' <=> Logged(e),
         \A e \in Edit : /\ att'[e].key = att[e].key
                         /\ Unserved(att'[e]) => Unserved(att[e])
  PROVE  KeyRemembers' /\ NewKeyOnlyIfUnserved'
BY DEF IInv, KeyRemembers, NewKeyOnlyIfUnserved

\* A step that leaves log, replies and attempts alone keeps all the server's
\* claims.
LEMMA ServerUntouched ==
  ASSUME IInv, UNCHANGED <<log, replies, att>>
  PROVE  AtMostOnce' /\ KeyRemembers' /\ NewKeyOnlyIfUnserved'
BY DEF IInv, AtMostOnce, KeyRemembers, NewKeyOnlyIfUnserved, Logged

\* The attempts that were held change their pc and nothing else.
LEMMA HeldMoved ==
  ASSUME SessionTypes, NEW to \in {"dropped", "queued"},
         att' = [e \in Edit |-> IF att[e].pc = "held" THEN [att[e] EXCEPT !.pc = to]
                                ELSE att[e]]
  PROVE  /\ att' \in [Edit -> Attempt]
         /\ \A e \in Edit : /\ att'[e].key = att[e].key
                            /\ Unserved(att'[e]) => Unserved(att[e])
<1>1. ASSUME NEW e \in Edit
      PROVE  /\ att'[e] \in Attempt /\ att'[e].key = att[e].key
             /\ Unserved(att'[e]) => Unserved(att[e])
  <2>1. att[e] \in Attempt
    BY DEF SessionTypes
  <2>2. CASE att[e].pc = "held"
    <3>1. att'[e] = [att[e] EXCEPT !.pc = to]
      BY <2>2
    <3> QED BY <2>1, <3>1 DEF Attempt, AttemptPc, AttemptAns, Unserved
  <2>3. CASE att[e].pc # "held"
    BY <2>1, <2>3
  <2> QED BY <2>2, <2>3
<1> QED BY <1>1

\* One attempt changes, to another of the type, and keeps its key.
LEMMA OneAttempt ==
  ASSUME SessionTypes, NEW e \in Edit, NEW a \in Attempt,
         att' = [att EXCEPT ![e] = a],
         a.key = att[e].key, Unserved(a) => Unserved(att[e])
  PROVE  /\ att' \in [Edit -> Attempt]
         /\ \A f \in Edit : /\ att'[f].key = att[f].key
                            /\ Unserved(att'[f]) => Unserved(att[f])
<1>1. att \in [Edit -> Attempt]
  BY DEF SessionTypes
<1>2. \A f \in Edit : att'[f] = IF f = e THEN a ELSE att[f]
  BY <1>1
<1> QED BY <1>1, <1>2

-----------------------------------------------------------------------------
(* The steps.                                                              *)

\* The initial state satisfies the inductive invariant.
LEMMA InitIInv == Init => IInv
<1> SUFFICES ASSUME Init PROVE IInv
  OBVIOUS
<1> USE ExactSessionAssumption DEF Init, Version, None
<1>1. ServerTypes
  BY DEF ServerTypes, JobStatus, NoReply, Edit
<1>2. SessionTypes
  BY DEF SessionTypes, Attempt, AttemptPc, AttemptAns, Key, Fresh, Reset, NoWipe, PollState
<1>3. AtMostOnce /\ KeyRemembers /\ NewKeyOnlyIfUnserved /\ DownloadsAwaited
  BY DEF AtMostOnce, KeyRemembers, NewKeyOnlyIfUnserved, DownloadsAwaited, Logged,
         Unserved, Fresh
<1> QED BY <1>1, <1>2, <1>3 DEF IInv

\* Connecting leaves the server's edits alone, and its polls.
LEMMA ConnectStep == ASSUME IInv, Connect PROVE IInv'
<1> USE DEF Connect
<1>1. CASE ConnectCreate
  <2>1. ServerTypes' /\ SessionTypes'
    BY <1>1 DEF IInv, ServerTypes, SessionTypes, ConnectCreate, Reset
  <2>2. DownloadsAwaited'
    BY <1>1 DEF IInv, DownloadsAwaited, ConnectCreate
  <2>3. UNCHANGED <<log, replies, att>>
    BY <1>1 DEF ConnectCreate
  <2> QED BY <2>1, <2>2, <2>3, ServerUntouched DEF IInv
<1>2. CASE ConnectFetched
  <2>1. ServerTypes' /\ UNCHANGED <<log, replies>>
    BY <1>2 DEF IInv, ServerTypes, ConnectFetched, serverVars
  <2>2. DownloadsAwaited'
    BY <1>2 DEF IInv, DownloadsAwaited, ConnectFetched, viewVars
  <2>3. /\ att' \in [Edit -> Attempt]
        /\ \A e \in Edit : /\ att'[e].key = att[e].key
                           /\ Unserved(att'[e]) => Unserved(att[e])
    BY <1>2, HeldMoved DEF IInv, SessionTypes, ConnectFetched
  <2>4. SessionTypes'
    BY <1>2, <2>3 DEF IInv, SessionTypes, ConnectFetched, viewVars, Reset
  <2>5. AtMostOnce' /\ KeyRemembers' /\ NewKeyOnlyIfUnserved'
    BY <2>1, <2>3, KeysKept DEF IInv, AtMostOnce, Logged
  <2> QED BY <2>1, <2>2, <2>4, <2>5 DEF IInv
<1>3. CASE ConnectReady
  <2>1. ServerTypes' /\ UNCHANGED <<log, replies>>
    BY <1>3 DEF IInv, ServerTypes, ConnectReady, serverVars
  <2>2. DownloadsAwaited'
    BY <1>3 DEF IInv, DownloadsAwaited, ConnectReady
  <2>3. /\ att' \in [Edit -> Attempt]
        /\ \A e \in Edit : /\ att'[e].key = att[e].key
                           /\ Unserved(att'[e]) => Unserved(att[e])
    BY <1>3, HeldMoved DEF IInv, ConnectReady
  <2>4. queue' \in Seq(Edit) /\ backlog' \in Seq(Edit)
    BY <1>3, ConcatProperties DEF IInv, SessionTypes, ConnectReady
  <2>5. SessionTypes'
    BY <1>3, <2>3, <2>4, ExactSessionAssumption
    DEF IInv, SessionTypes, ConnectReady, None, Version
  <2>6. AtMostOnce' /\ KeyRemembers' /\ NewKeyOnlyIfUnserved'
    BY <2>1, <2>3, KeysKept DEF IInv, AtMostOnce, Logged
  <2> QED BY <2>1, <2>2, <2>5, <2>6 DEF IInv
<1> QED BY <1>1, <1>2, <1>3

\* What the server does by itself: other editors, the runner, a site swap.
LEMMA ServerAlone == ASSUME IInv, OtherEdit \/ JobEnds \/ SwapSite PROVE IInv'
<1>1. SessionTypes' /\ DownloadsAwaited' /\ UNCHANGED <<replies, att>>
  BY DEF IInv, SessionTypes, DownloadsAwaited, OtherEdit, JobEnds, SwapSite, connVars,
         viewVars
<1>2. CASE OtherEdit
  <2>1. Accept(Other) /\ Other \in Edit \cup {Other, Wiped}
    BY <1>2 DEF OtherEdit
  <2>2. /\ ServerTypes'
        /\ \A e \in Edit : Logged(e)' <=> Logged(e)
        /\ AtMostOnce'
    BY <1>1, <2>1, AcceptFacts, NamesApart DEF IInv, ServerTypes
  <2> QED BY <1>1, <2>2, KeysKept DEF IInv
<1>3. CASE JobEnds \/ SwapSite
  <2>1. ServerTypes' /\ UNCHANGED log
    BY <1>3 DEF IInv, ServerTypes, JobEnds, SwapSite, JobStatus
  <2> QED BY <1>1, <2>1, ServerUntouched DEF IInv
<1> QED BY <1>2, <1>3

\* A commit is queued, held or refused; nothing is posted yet.
LEMMA CommitStep == ASSUME IInv, NEW e \in Edit, Commit(e) PROVE IInv'
<1>1. ServerTypes' /\ DownloadsAwaited' /\ UNCHANGED <<log, replies>>
  BY DEF IInv, ServerTypes, DownloadsAwaited, Commit, serverVars, viewVars
<1>2. PICK to \in {"blocked", "held", "queued"} : att' = [att EXCEPT ![e].pc = to]
  BY DEF Commit
<1>3. /\ att' \in [Edit -> Attempt]
      /\ \A f \in Edit : /\ att'[f].key = att[f].key
                         /\ Unserved(att'[f]) => Unserved(att[f])
  <2> DEFINE a == [att[e] EXCEPT !.pc = to]
  <2>1. a \in Attempt /\ a.key = att[e].key /\ ~Unserved(a)
    BY SMTT(30) DEF IInv, SessionTypes, Attempt, AttemptPc, AttemptAns, Unserved
  <2>2. att' = [att EXCEPT ![e] = a]
    BY <1>2
  <2> QED BY <2>1, <2>2, OneAttempt DEF IInv
<1>4. queue' \in Seq(Edit) /\ backlog' \in Seq(Edit)
  <2>1. Append(queue, e) \in Seq(Edit) /\ Append(backlog, e) \in Seq(Edit)
    BY AppendProperties DEF IInv, SessionTypes
  <2> QED BY <2>1 DEF IInv, SessionTypes, Commit
<1>5. SessionTypes'
  BY <1>3, <1>4 DEF IInv, SessionTypes, Commit, viewVars
<1>6. AtMostOnce' /\ KeyRemembers' /\ NewKeyOnlyIfUnserved'
  BY <1>1, <1>3, KeysKept DEF IInv, AtMostOnce, Logged
<1> QED BY <1>1, <1>5, <1>6 DEF IInv

\* A run posts with the key its attempt has.
LEMMA RunStep == ASSUME IInv, Run PROVE IInv'
<1>1. ServerTypes' /\ DownloadsAwaited' /\ UNCHANGED <<log, replies>>
  BY DEF IInv, ServerTypes, DownloadsAwaited, Run, serverVars, viewVars
<1>2. Head(queue) \in Edit /\ Tail(queue) \in Seq(Edit)
  BY HeadTailProperties DEF IInv, SessionTypes, Run
<1> DEFINE e == Head(queue)
<1>3. PICK b \in Version :
        att' = [att EXCEPT ![e] = [att[e] EXCEPT !.pc = "post", !.by = "run",
                                                 !.ans = "none", !.base = b]]
  <2>1. att' = [att EXCEPT ![e] = [att[e] EXCEPT !.pc = "post", !.by = "run",
                  !.ans = "none",
                  !.base = IF att[e].ans = "none" THEN scene ELSE att[e].base]]
    BY <1>2 DEF Run, IInv, SessionTypes, Attempt
  <2>2. (IF att[e].ans = "none" THEN scene ELSE att[e].base) \in Version
    BY <1>2 DEF IInv, SessionTypes, Attempt
  <2> QED BY <2>1, <2>2
<1>4. /\ att' \in [Edit -> Attempt]
      /\ \A f \in Edit : /\ att'[f].key = att[f].key
                         /\ Unserved(att'[f]) => Unserved(att[f])
  <2> DEFINE a == [att[e] EXCEPT !.pc = "post", !.by = "run", !.ans = "none", !.base = b]
  <2>1. a \in Attempt /\ a.key = att[e].key /\ ~Unserved(a)
    BY <1>2, ZenonT(60) DEF IInv, SessionTypes, Attempt, AttemptPc, AttemptAns, Unserved
  <2> QED BY <1>2, <1>3, <2>1, OneAttempt DEF IInv
<1>5. SessionTypes'
  BY <1>2, <1>4 DEF IInv, SessionTypes, Run, connVars, viewVars
<1>6. AtMostOnce' /\ KeyRemembers' /\ NewKeyOnlyIfUnserved'
  BY <1>1, <1>4, KeysKept DEF IInv, AtMostOnce, Logged
<1> QED BY <1>1, <1>5, <1>6 DEF IInv

\* A post is served: replayed, refused, or accepted under a key that the server
\* has not seen, and then remembered under it.
LEMMA ServeEditStep == ASSUME IInv, NEW e \in Edit, ServeEdit(e) PROVE IInv'
<1>1. DownloadsAwaited'
  BY DEF IInv, DownloadsAwaited, ServeEdit, viewVars
<1>2. att[e] \in Attempt /\ att[e].pc = "post" /\ att \in [Edit -> Attempt]
  BY DEF IInv, SessionTypes, ServeEdit
<1>3. ASSUME NEW k \in {"ok", "limited", "mismatch", "conflict"}, NEW v \in Version,
             att' = [att EXCEPT ![e].pc = "answer", ![e].ans = k, ![e].ver = v]
      PROVE  /\ SessionTypes'
             /\ \A f \in Edit : f # e => att'[f] = att[f]
             /\ att'[e].key = att[e].key
             /\ Unserved(att'[e]) => k = "conflict"
  <2> DEFINE a == [att[e] EXCEPT !.pc = "answer", !.ans = k, !.ver = v]
  <2>1. a \in Attempt /\ a.key = att[e].key /\ (Unserved(a) => k = "conflict")
    BY <1>2 DEF Attempt, AttemptPc, AttemptAns, Unserved
  <2>2. att' = [att EXCEPT ![e] = a]
    BY <1>2, <1>3 DEF Attempt
  <2> HIDE DEF a
  <2>3. att' \in [Edit -> Attempt] /\ att'[e] = a /\ \A f \in Edit : f # e => att'[f] = att[f]
    BY <1>2, <2>1, <2>2
  <2>4. SessionTypes'
    BY <2>3 DEF IInv, SessionTypes, ServeEdit, connVars, viewVars
  <2> QED BY <2>1, <2>3, <2>4
<1> DEFINE Says(k, v) == att' = [att EXCEPT ![e].pc = "answer", ![e].ans = k, ![e].ver = v]
           key == att[e].key
<1>4. /\ sv \in Version /\ replies[e][key] \in Version /\ 0 \in Version /\ key \in 1 .. 2
  BY <1>2, ExactSessionAssumption DEF IInv, ServerTypes, Attempt, Key, Version
<1>5. CASE Says("limited", 0) /\ Untouched
  <2>1. ServerTypes' /\ UNCHANGED <<log, replies>>
    BY <1>5 DEF IInv, ServerTypes, Untouched
  <2>2. /\ SessionTypes'
        /\ \A f \in Edit : /\ att'[f].key = att[f].key
                           /\ Unserved(att'[f]) => Unserved(att[f])
    BY <1>3, <1>4, <1>5
  <2> QED BY <1>1, <2>1, <2>2, KeysKept DEF IInv, AtMostOnce, Logged
<1>6. CASE Says("ok", replies[e][key]) /\ Untouched
  <2>1. ServerTypes' /\ UNCHANGED <<log, replies>>
    BY <1>6 DEF IInv, ServerTypes, Untouched
  <2>2. /\ SessionTypes'
        /\ \A f \in Edit : /\ att'[f].key = att[f].key
                           /\ Unserved(att'[f]) => Unserved(att[f])
    BY <1>3, <1>4, <1>6
  <2> QED BY <1>1, <2>1, <2>2, KeysKept DEF IInv, AtMostOnce, Logged
<1>7. CASE Says("mismatch", 0) /\ Untouched
  <2>1. ServerTypes' /\ UNCHANGED <<log, replies>>
    BY <1>7 DEF IInv, ServerTypes, Untouched
  <2>2. /\ SessionTypes'
        /\ \A f \in Edit : /\ att'[f].key = att[f].key
                           /\ Unserved(att'[f]) => Unserved(att[f])
    BY <1>3, <1>4, <1>7
  <2> QED BY <1>1, <2>1, <2>2, KeysKept DEF IInv, AtMostOnce, Logged
<1>8. CASE replies[e][key] = NoReply /\ Says("conflict", 0) /\ Untouched
  <2>1. ServerTypes' /\ UNCHANGED <<log, replies>>
    BY <1>8 DEF IInv, ServerTypes, Untouched
  <2>2. ~Logged(e)
    BY <1>8 DEF IInv, KeyRemembers
  <2>3. /\ SessionTypes'
        /\ \A f \in Edit : f # e => att'[f] = att[f]
        /\ att'[e].key = att[e].key
    BY <1>3, <1>4, <1>8
  <2>4. AtMostOnce' /\ KeyRemembers' /\ NewKeyOnlyIfUnserved'
    BY <2>1, <2>2, <2>3 DEF IInv, AtMostOnce, KeyRemembers, NewKeyOnlyIfUnserved, Logged
  <2> QED BY <1>1, <2>1, <2>3, <2>4 DEF IInv
<1>9. CASE /\ replies[e][key] = NoReply /\ Accept(e) /\ Says("ok", sv + 1)
           /\ replies' = [replies EXCEPT ![e][key] = sv + 1]
  <2>1. ~Logged(e)
    BY <1>9 DEF IInv, KeyRemembers
  <2>2. /\ sv' \in Version /\ sv' = sv + 1 /\ sv' # None
        /\ jobs' \in [Version -> JobStatus]
        /\ log' \in Seq(Edit \cup {Other, Wiped})
        /\ \A f \in Edit : Logged(f)' <=> (Logged(f) \/ f = e)
        /\ AtMostOnce'
    BY <1>9, <2>1, AcceptFacts DEF IInv
  <2>3. /\ replies' \in [Edit -> [1 .. 2 -> Version]]
        /\ replies'[e][key] = sv + 1
        /\ \A f \in Edit : f # e => replies'[f] = replies[f]
    BY <1>4, <1>9, <2>2 DEF IInv, ServerTypes
  <2>4. ServerTypes'
    BY <2>2, <2>3 DEF ServerTypes
  <2>5. /\ SessionTypes'
        /\ \A f \in Edit : f # e => att'[f] = att[f]
        /\ att'[e].key = att[e].key
        /\ ~Unserved(att'[e])
    BY <1>3, <1>9, <2>2
  <2>6. KeyRemembers'
    BY <2>2, <2>3, <2>5 DEF IInv, KeyRemembers, NoReply
  <2>7. NewKeyOnlyIfUnserved'
    BY <2>2, <2>5 DEF IInv, NewKeyOnlyIfUnserved
  <2> QED BY <1>1, <2>2, <2>4, <2>5, <2>6, <2>7 DEF IInv
<1> QED BY <1>5, <1>6, <1>7, <1>8, <1>9 DEF ServeEdit

\* A lost post or answer loses nothing the server remembers.
LEMMA LoseEditStep == ASSUME IInv, NEW e \in Edit, LoseEdit(e) PROVE IInv'
<1>1. ServerTypes' /\ DownloadsAwaited' /\ UNCHANGED <<log, replies>>
  BY DEF IInv, ServerTypes, DownloadsAwaited, LoseEdit, serverVars, viewVars
<1> DEFINE a == [att[e] EXCEPT !.pc = "answer", !.ans = "lost"]
<1>2. a \in Attempt /\ a.key = att[e].key /\ ~Unserved(a)
  BY ZenonT(60) DEF IInv, SessionTypes, Attempt, AttemptPc, AttemptAns, Unserved
<1>3. att' = [att EXCEPT ![e] = a]
  BY DEF IInv, SessionTypes, Attempt, LoseEdit
<1> HIDE DEF a
<1>4. /\ att' \in [Edit -> Attempt]
      /\ \A f \in Edit : /\ att'[f].key = att[f].key
                         /\ Unserved(att'[f]) => Unserved(att[f])
  BY <1>2, <1>3, OneAttempt DEF IInv
<1>5. SessionTypes'
  BY <1>4 DEF IInv, SessionTypes, LoseEdit, connVars, viewVars
<1> QED BY <1>1, <1>4, <1>5, KeysKept DEF IInv, AtMostOnce, Logged

\* A new generation disowns every poll in flight; what it starts waits for its
\* timer.
LEMMA GenerationEnds ==
  ASSUME IInv, gen' = gen + 1, NEW new \in SUBSET PollState,
         polls' \subseteq polls \cup new,
         \A p \in new : p.gen = gen + 1 /\ p.at = "timer"
  PROVE  polls' \subseteq PollState /\ gen' \in Nat /\ DownloadsAwaited'
<1>1. polls \subseteq PollState /\ gen \in Nat /\ gen' \in Nat
  BY DEF IInv, SessionTypes
<1>2. polls' \subseteq PollState
  BY <1>1
<1>3. ASSUME NEW p \in polls'
      PROVE  p.gen <= gen' /\ (p.at = "fetch" => p.gen # gen')
  <2>1. CASE p \in polls
    <3>1. p.gen <= gen /\ p.gen \in Nat
      BY <1>1, <2>1 DEF IInv, DownloadsAwaited, PollState
    <3> QED BY <1>1, <3>1
  <2>2. CASE p \in new
    BY <1>1, <2>2
  <2> QED BY <1>3, <2>1, <2>2
<1>4. DownloadsAwaited'
  BY <1>3 DEF DownloadsAwaited
<1> QED BY <1>1, <1>2, <1>4

\* The same when it starts nothing.
LEMMA GenerationStops ==
  ASSUME IInv, gen' = gen + 1, polls' \subseteq polls
  PROVE  polls' \subseteq PollState /\ gen' \in Nat /\ DownloadsAwaited'
<1> DEFINE new == {}
<1>1. new \in SUBSET PollState /\ polls' \subseteq polls \cup new
  OBVIOUS
<1>2. \A p \in new : p.gen = gen + 1 /\ p.at = "timer"
  OBVIOUS
<1> HIDE DEF new
<1> QED BY <1>1, <1>2, GenerationEnds

\* #noteSiteMismatch ends the generation, so no poll owns anything.
LEMMA MismatchFacts ==
  ASSUME IInv, NoteMismatch
  PROVE  /\ polls' \subseteq PollState /\ gen' \in Nat /\ awaiting' \in Version
         /\ DownloadsAwaited'
<1>1. gen' = gen + 1 /\ polls' \subseteq polls /\ awaiting' = None
  BY DEF NoteMismatch, Stale
<1>2. None \in Version
  BY ExactSessionAssumption DEF None, Version
<1> QED BY <1>1, <1>2, GenerationStops

\* An answer adopts a version, under a new generation, or is refused; only a
\* conflict sends the attempt to a new key.
LEMMA AnsweredStep == ASSUME IInv, NEW e \in Edit, Answered(e) PROVE IInv'
<1>1. ServerTypes' /\ UNCHANGED <<log, replies>>
  BY DEF IInv, ServerTypes, Answered, serverVars
<1>2. att[e] \in Attempt /\ att \in [Edit -> Attempt] /\ att[e].pc = "answer"
  BY DEF IInv, SessionTypes, Answered
<1>3. /\ scene' \in Version /\ awaiting' \in Version /\ gen' \in Nat
      /\ polls' \subseteq PollState /\ DownloadsAwaited'
  <2>1. CASE Accepted(e)
    <3>1. att[e].ver \in Version /\ gen \in Nat /\ 0 \in Version
      BY <1>2, ExactSessionAssumption DEF IInv, SessionTypes, Attempt, Version
    <3>2. [gen |-> gen + 1, ver |-> att[e].ver, at |-> "timer", want |-> 0] \in PollState
      BY <3>1 DEF PollState
    <3> DEFINE new == {[gen |-> gen + 1, ver |-> att[e].ver, at |-> "timer", want |-> 0]}
    <3>3. new \in SUBSET PollState /\ \A p \in new : p.gen = gen + 1 /\ p.at = "timer"
      BY <3>2
    <3>4. gen' = gen + 1 /\ polls' \subseteq polls \cup new
      BY <2>1 DEF Accepted, Stale
    <3> HIDE DEF new
    <3>5. polls' \subseteq PollState /\ gen' \in Nat /\ DownloadsAwaited'
      BY <3>3, <3>4, GenerationEnds
    <3> QED BY <2>1, <3>1, <3>5 DEF Accepted
  <2>2. CASE Refused(e) /\ NoteMismatch /\ UNCHANGED scene
    BY <2>2, MismatchFacts DEF IInv, SessionTypes
  <2>3. CASE Refused(e) /\ UNCHANGED <<scene, awaiting, gen, polls>>
    BY <2>3 DEF IInv, SessionTypes, DownloadsAwaited
  <2> QED BY <2>1, <2>2, <2>3 DEF Answered, Refused, viewVars
<1>4. PICK a \in Attempt :
        att' = [att EXCEPT ![e] = a] /\ a.key = att[e].key
          /\ (Unserved(a) => Unserved(att[e]))
  <2>1. CASE Accepted(e) \/ att' = [att EXCEPT ![e].pc = "blocked"]
               \/ att' = [att EXCEPT ![e].pc = "failed"]
    <3>1. PICK to \in {"done", "blocked", "failed"} : att' = [att EXCEPT ![e].pc = to]
      BY <2>1 DEF Accepted
    <3> DEFINE a == [att[e] EXCEPT !.pc = to]
    <3>2. a \in Attempt /\ a.key = att[e].key /\ ~Unserved(a)
      BY <1>2 DEF Attempt, AttemptPc, AttemptAns, Unserved
    <3>3. att' = [att EXCEPT ![e] = a]
      BY <3>1
    <3> QED BY <3>2, <3>3
  <2>2. CASE att[e].ans = "conflict" /\ att' = [att EXCEPT ![e].pc = "reload"]
    <3> DEFINE a == [att[e] EXCEPT !.pc = "reload"]
    <3>1. a \in Attempt /\ a.key = att[e].key /\ Unserved(att[e])
      BY <1>2, <2>2 DEF Attempt, AttemptPc, AttemptAns, Unserved
    <3>2. att' = [att EXCEPT ![e] = a]
      BY <2>2
    <3> QED BY <3>1, <3>2
  <2>3. CASE att' = [att EXCEPT ![e].pc = "wait", ![e].re429 = TRUE]
    <3> DEFINE a == [att[e] EXCEPT !.pc = "wait", !.re429 = TRUE]
    <3>1. a \in Attempt /\ a.key = att[e].key /\ ~Unserved(a)
      BY <1>2 DEF Attempt, AttemptPc, AttemptAns, Unserved
    <3>2. att' = [att EXCEPT ![e] = a]
      BY <1>2, <2>3 DEF Attempt
    <3> QED BY <3>1, <3>2
  <2> QED BY <2>1, <2>2, <2>3 DEF Answered, Refused
<1>5. /\ att' \in [Edit -> Attempt]
      /\ \A f \in Edit : /\ att'[f].key = att[f].key
                         /\ Unserved(att'[f]) => Unserved(att[f])
  BY <1>4, OneAttempt DEF IInv
<1>6. SessionTypes'
  BY <1>3, <1>5 DEF IInv, SessionTypes, Answered, connVars
<1> QED BY <1>1, <1>3, <1>5, <1>6, KeysKept DEF IInv, AtMostOnce, Logged

\* The rate-limited attempt is posted again as it was.
LEMMA RetryLimitedStep == ASSUME IInv, NEW e \in Edit, RetryLimited(e) PROVE IInv'
<1>1. ServerTypes' /\ DownloadsAwaited' /\ UNCHANGED <<log, replies>>
  BY DEF IInv, ServerTypes, DownloadsAwaited, RetryLimited, serverVars, viewVars
<1> DEFINE a == [att[e] EXCEPT !.pc = "post", !.by = "background", !.ans = "none"]
<1>2. a \in Attempt /\ a.key = att[e].key /\ ~Unserved(a)
  BY ZenonT(60) DEF IInv, SessionTypes, Attempt, AttemptPc, AttemptAns, Unserved
<1>3. att' = [att EXCEPT ![e] = a]
  BY DEF IInv, SessionTypes, Attempt, RetryLimited
<1> HIDE DEF a
<1>4. /\ att' \in [Edit -> Attempt]
      /\ \A f \in Edit : /\ att'[f].key = att[f].key
                         /\ Unserved(att'[f]) => Unserved(att[f])
  BY <1>2, <1>3, OneAttempt DEF IInv
<1>5. SessionTypes'
  BY <1>4 DEF IInv, SessionTypes, RetryLimited, connVars, viewVars
<1> QED BY <1>1, <1>4, <1>5, KeysKept DEF IInv, AtMostOnce, Logged

\* The conflict recovery reads the scenario ...
LEMMA ReloadStep == ASSUME IInv, NEW e \in Edit, Reload(e) PROVE IInv'
<1>1. ServerTypes' /\ DownloadsAwaited' /\ UNCHANGED <<log, replies>>
  BY DEF IInv, ServerTypes, DownloadsAwaited, Reload, serverVars, viewVars
<1> DEFINE a == [att[e] EXCEPT !.pc = "adopt", !.ver = sv]
<1>2. a \in Attempt /\ a.key = att[e].key /\ Unserved(att[e])
  BY DEF IInv, SessionTypes, ServerTypes, Attempt, AttemptPc, AttemptAns, Unserved, Reload
<1>3. att' = [att EXCEPT ![e] = a]
  BY DEF IInv, SessionTypes, Attempt, Reload
<1> HIDE DEF a
<1>4. /\ att' \in [Edit -> Attempt]
      /\ \A f \in Edit : /\ att'[f].key = att[f].key
                         /\ Unserved(att'[f]) => Unserved(att[f])
  BY <1>2, <1>3, OneAttempt DEF IInv
<1>5. SessionTypes'
  BY <1>4 DEF IInv, SessionTypes, Reload, connVars, viewVars
<1> QED BY <1>1, <1>4, <1>5, KeysKept DEF IInv, AtMostOnce, Logged

\* ... and the edit gets its second key only because the first never served.
LEMMA ReapplyStep == ASSUME IInv, NEW e \in Edit, Reapply(e) PROVE IInv'
<1>1. ServerTypes' /\ DownloadsAwaited' /\ UNCHANGED <<log, replies>>
  BY DEF IInv, ServerTypes, DownloadsAwaited, Reapply, serverVars
<1>2. att[e] \in Attempt /\ att \in [Edit -> Attempt] /\ ~Logged(e)
  BY DEF IInv, SessionTypes, NewKeyOnlyIfUnserved, Unserved, Reapply
<1>3. PICK a \in Attempt : att' = [att EXCEPT ![e] = a] /\ ~Unserved(a)
  <2>1. CASE att' = [att EXCEPT ![e].pc = "dropped"]
    <3> DEFINE a == [att[e] EXCEPT !.pc = "dropped"]
    <3>1. a \in Attempt /\ ~Unserved(a) /\ att' = [att EXCEPT ![e] = a]
      BY <1>2, <2>1 DEF Attempt, AttemptPc, AttemptAns, Unserved
    <3> QED BY <3>1
  <2>2. CASE att' = [att EXCEPT ![e].pc = "post", ![e].by = "background",
                                ![e].re409 = TRUE, ![e].base = att[e].ver,
                                ![e].key = 2, ![e].ans = "none"]
    <3> DEFINE b == [att[e] EXCEPT !.pc = "post", !.by = "background", !.re409 = TRUE]
               a == [b EXCEPT !.base = att[e].ver, !.key = 2, !.ans = "none"]
    <3>1. b \in Attempt /\ b.pc = "post" /\ att[e].ver \in Version
      BY <1>2 DEF Attempt, AttemptPc
    <3>2. a \in Attempt /\ ~Unserved(a)
      <4> HIDE DEF b
      <4>1. ASSUME NEW v \in Version
            PROVE  LET c == [b EXCEPT !.base = v, !.key = 2, !.ans = "none"]
                   IN  c \in Attempt /\ c.pc = "post"
        <5>1. 2 \in Key
          BY DEF Key
        <5> QED BY <3>1, <5>1 DEF Attempt, AttemptAns
      <4> QED BY <3>1, <4>1 DEF Unserved
    <3>3. att' = [att EXCEPT ![e] = a]
      BY <1>2, <2>2 DEF Attempt
    <3> QED BY <3>2, <3>3
  <2> QED BY <2>1, <2>2 DEF Reapply
<1>4. /\ att' \in [Edit -> Attempt] /\ ~Unserved(att'[e])
      /\ \A f \in Edit : f # e => att'[f] = att[f]
  BY <1>2, <1>3
<1>5. SessionTypes'
  BY <1>2, <1>4 DEF IInv, SessionTypes, Reapply, connVars, Attempt
<1>6. AtMostOnce' /\ KeyRemembers' /\ NewKeyOnlyIfUnserved'
  BY <1>1, <1>2, <1>4 DEF IInv, AtMostOnce, KeyRemembers, NewKeyOnlyIfUnserved, Logged
<1> QED BY <1>1, <1>5, <1>6 DEF IInv

\* The Retry affordance queues the failed attempt with the key it has.
LEMMA RetryLastStep == ASSUME IInv, RetryLast PROVE IInv'
<1>1. ServerTypes' /\ DownloadsAwaited' /\ UNCHANGED <<log, replies>>
  BY DEF IInv, ServerTypes, DownloadsAwaited, RetryLast, serverVars, viewVars
<1>2. last \in Edit /\ att[last] \in Attempt
  BY DEF IInv, SessionTypes, RetryLast
<1> DEFINE a == [att[last] EXCEPT !.pc = "queued", !.key = att[last].key]
<1>3. a \in Attempt /\ a.key = att[last].key /\ ~Unserved(a)
  BY <1>2 DEF Attempt, AttemptPc, AttemptAns, Unserved
<1>4. att' = [att EXCEPT ![last] = a]
  BY <1>2 DEF IInv, SessionTypes, Attempt, RetryLast, RetryKey
<1> HIDE DEF a
<1>5. /\ att' \in [Edit -> Attempt]
      /\ \A f \in Edit : /\ att'[f].key = att[f].key
                         /\ Unserved(att'[f]) => Unserved(att[f])
  BY <1>2, <1>3, <1>4, OneAttempt DEF IInv
<1>6. queue' \in Seq(Edit)
  BY <1>2, AppendProperties DEF IInv, SessionTypes, RetryLast
<1>7. SessionTypes'
  BY <1>5, <1>6 DEF IInv, SessionTypes, RetryLast, connVars, viewVars
<1> QED BY <1>1, <1>5, <1>7, KeysKept DEF IInv, AtMostOnce, Logged

\* A reset asked for while connecting drops the held edits.
LEMMA ResetHeldStep == ASSUME IInv, ResetHeld PROVE IInv'
<1>1. ServerTypes' /\ UNCHANGED <<log, replies>>
  BY DEF IInv, ServerTypes, ResetHeld, serverVars
<1>2. gen' = gen + 1 /\ polls' \subseteq polls
  BY DEF ResetHeld
<1>3. polls' \subseteq PollState /\ gen' \in Nat /\ DownloadsAwaited'
  BY <1>2, GenerationStops
<1>4. /\ att' \in [Edit -> Attempt]
      /\ \A e \in Edit : /\ att'[e].key = att[e].key
                         /\ Unserved(att'[e]) => Unserved(att[e])
  BY HeldMoved DEF IInv, ResetHeld
<1>5. SessionTypes'
  BY <1>3, <1>4 DEF IInv, SessionTypes, ResetHeld
<1> QED BY <1>1, <1>3, <1>4, <1>5, KeysKept DEF IInv, AtMostOnce, Logged

\* reset() ends the generation and posts.
LEMMA ResetPostStep == ASSUME IInv, ResetPost PROVE IInv'
<1>1. ServerTypes' /\ UNCHANGED <<log, replies, att>>
  BY DEF IInv, ServerTypes, ResetPost, serverVars
<1>2. gen' = gen + 1 /\ polls' \subseteq polls
  BY DEF ResetPost, Stale
<1>3. polls' \subseteq PollState /\ gen' \in Nat /\ DownloadsAwaited'
  BY <1>2, GenerationStops
<1>4. wipe' \in Reset /\ awaiting' \in Version
  <2>1. scene \in Version /\ None \in Version
    BY ExactSessionAssumption DEF IInv, SessionTypes, None, Version
  <2>2. [NoWipe EXCEPT !.pc = "post", !.base = scene] \in Reset
    BY <2>1 DEF Reset, NoWipe, None
  <2> QED BY <2>1, <2>2 DEF ResetPost
<1>5. SessionTypes'
  BY <1>1, <1>3, <1>4 DEF IInv, SessionTypes, ResetPost, connVars
<1> QED BY <1>1, <1>3, <1>5, ServerUntouched DEF IInv

\* The server's side of a reset, and the session's.
LEMMA ClearStep == ASSUME IInv, Clear PROVE IInv'
<1>1. CASE ServeReset
  <2>1. DownloadsAwaited' /\ UNCHANGED <<replies, att>>
    BY <1>1 DEF IInv, DownloadsAwaited, ServeReset, viewVars
  <2>2. CASE Accept(Wiped) /\ wipe' = [wipe EXCEPT !.pc = "answer", !.ans = "ok", !.ver = sv + 1]
    <3>1. /\ sv' \in Version /\ sv' = sv + 1
          /\ jobs' \in [Version -> JobStatus]
          /\ log' \in Seq(Edit \cup {Other, Wiped})
          /\ \A e \in Edit : Logged(e)' <=> Logged(e)
          /\ AtMostOnce'
      BY <2>2, AcceptFacts, NamesApart DEF IInv
    <3>2. ServerTypes'
      BY <2>1, <3>1 DEF IInv, ServerTypes
    <3>3. wipe' \in Reset
      BY <2>2, <3>1 DEF IInv, SessionTypes, Reset
    <3>4. SessionTypes'
      BY <1>1, <3>3 DEF IInv, SessionTypes, ServeReset, connVars, viewVars
    <3> QED BY <2>1, <3>1, <3>2, <3>4, KeysKept DEF IInv
  <2>3. CASE UNCHANGED <<sv, log, jobs>>
    <3>1. wipe' \in Reset \/ Accept(Wiped)
      BY <1>1 DEF IInv, SessionTypes, ServeReset, Reset
    <3>2. sv' # sv \/ wipe' \in Reset
      BY <3>1, AcceptFacts DEF IInv, ServerTypes, Version
    <3>3. SessionTypes' /\ ServerTypes'
      BY <1>1, <2>1, <2>3, <3>2
      DEF IInv, SessionTypes, ServerTypes, ServeReset, connVars, viewVars
    <3> QED BY <2>1, <2>3, <3>3, ServerUntouched DEF IInv
  <2> QED BY <1>1, <2>2, <2>3 DEF ServeReset
<1>2. CASE ResetAnswered
  <2>1. ServerTypes' /\ UNCHANGED <<log, replies, att>>
    BY <1>2 DEF IInv, ServerTypes, ResetAnswered, serverVars
  <2>2. /\ polls' \subseteq PollState /\ gen' \in Nat /\ awaiting' \in Version
        /\ DownloadsAwaited'
    <3>1. CASE NoteMismatch
      BY <3>1, MismatchFacts
    <3>2. CASE UNCHANGED <<awaiting, gen, polls>>
      BY <3>2 DEF IInv, SessionTypes, DownloadsAwaited
    <3> QED BY <1>2, <3>1, <3>2 DEF ResetAnswered
  <2>3. wipe' \in Reset /\ scene' \in Version
    <3>1. scene \in Version /\ wipe \in Reset /\ gen \in Nat /\ NoWipe \in Reset
      BY ExactSessionAssumption DEF IInv, SessionTypes, Reset, NoWipe, Version
    <3>2. [wipe EXCEPT !.pc = "fetch", !.gen = gen] \in Reset /\ wipe.ver \in Version
      BY <3>1 DEF Reset
    <3> QED BY <1>2, <3>1, <3>2 DEF ResetAnswered
  <2>4. SessionTypes'
    BY <1>2, <2>1, <2>2, <2>3 DEF IInv, SessionTypes, ResetAnswered, connVars
  <2> QED BY <2>1, <2>2, <2>4, ServerUntouched DEF IInv
<1>3. CASE ResetFetched
  <2>1. ServerTypes' /\ UNCHANGED <<log, replies, att>>
    BY <1>3 DEF IInv, ServerTypes, ResetFetched, serverVars
  <2>2. awaiting' \in {None, awaiting} /\ DownloadsAwaited'
    BY <1>3 DEF IInv, DownloadsAwaited, ResetFetched
  <2>3. wipe' \in Reset /\ None \in Version
    BY <1>3, ExactSessionAssumption DEF ResetFetched, Reset, NoWipe, Version, None
  <2>4. SessionTypes'
    BY <1>3, <2>1, <2>2, <2>3 DEF IInv, SessionTypes, ResetFetched, connVars
  <2> QED BY <2>1, <2>2, <2>4, ServerUntouched DEF IInv
<1> QED BY <1>1, <1>2, <1>3 DEF Clear

\* A poll moves on, and a download starts for the version awaited then.
LEMMA PollStep == ASSUME IInv, NEW p \in polls, Poll(p) \/ PollDies(p) PROVE IInv'
<1>1. ServerTypes' /\ UNCHANGED <<log, replies, att, gen>>
  BY DEF IInv, ServerTypes, Poll, PollSend, ServeJob, PollAnswered, PollFetched, PollDies,
         serverVars
<1>2. p \in PollState /\ p.gen <= gen
  BY DEF IInv, SessionTypes, DownloadsAwaited
<1>3. awaiting' \in {None, awaiting}
  BY DEF Poll, PollSend, ServeJob, PollAnswered, PollFetched, PollDies
<1>4. ASSUME NEW x \in polls'
      PROVE  \/ x \in polls
             \/ /\ x \in PollState /\ x.gen = p.gen
                /\ x.at = "fetch" => x.want = awaiting /\ awaiting' = awaiting
  <2>1. CASE PollSend(p)
    BY <1>2, <1>4, <2>1 DEF PollSend, PollState
  <2>2. CASE ServeJob(p)
    <3>1. jobs[p.ver] \in JobStatus
      BY <1>2 DEF IInv, ServerTypes, PollState
    <3> QED BY <1>2, <1>4, <2>2, <3>1 DEF ServeJob, PollState, JobStatus
  <2>3. CASE PollAnswered(p)
    <3>1. x \in polls \/ x = [p EXCEPT !.at = "timer"]
            \/ x = [p EXCEPT !.at = "fetch", !.want = awaiting]
      BY <1>4, <2>3 DEF PollAnswered, PollAgain
    <3>2. awaiting \in Version /\ awaiting' = awaiting
      BY <2>3 DEF IInv, SessionTypes, PollAnswered
    <3> QED BY <1>2, <3>1, <3>2 DEF PollState
  <2>4. CASE PollFetched(p) \/ PollDies(p)
    BY <1>4, <2>4 DEF PollFetched, PollDies
  <2> QED BY <2>1, <2>2, <2>3, <2>4 DEF Poll
<1>5. polls' \subseteq PollState
  BY <1>4 DEF IInv, SessionTypes
<1>6. DownloadsAwaited'
  BY <1>1, <1>2, <1>3, <1>4 DEF IInv, DownloadsAwaited
<1>7. SessionTypes'
  <2>1. UNCHANGED <<connVars, queue, last, scene, wipe>>
    BY DEF Poll, PollSend, ServeJob, PollAnswered, PollFetched, PollDies
  <2>2. None \in Version
    BY ExactSessionAssumption DEF None, Version
  <2> QED BY <1>1, <1>3, <1>5, <2>1, <2>2 DEF IInv, SessionTypes, connVars
<1> QED BY <1>1, <1>6, <1>7, ServerUntouched DEF IInv

-----------------------------------------------------------------------------
(* The theorems.                                                           *)

\* IInv is an invariant of the session: no step of connect, commit, recovery,
\* retry, reset or polling, of the server or of the network leaves it.
THEOREM Invariance == Spec => []IInv
<1>1. Init => IInv
  BY InitIInv
<1>2. IInv /\ [Next]_vars => IInv'
  <2> SUFFICES ASSUME IInv, [Next]_vars PROVE IInv'
    OBVIOUS
  <2>1. CASE UNCHANGED vars
    BY <2>1 DEF vars, serverVars, connVars, viewVars, IInv, ServerTypes, SessionTypes,
                AtMostOnce, KeyRemembers, NewKeyOnlyIfUnserved, DownloadsAwaited, Logged
  <2>2. CASE Connect \/ Run \/ Clear
    BY <2>2, ConnectStep, RunStep, ClearStep
  <2>3. CASE JobEnds \/ OtherEdit \/ SwapSite
    BY <2>3, ServerAlone
  <2>4. CASE RetryLast \/ ResetHeld \/ ResetPost
    BY <2>4, RetryLastStep, ResetHeldStep, ResetPostStep
  <2>5. ASSUME NEW e \in Edit, Commit(e) \/ Post(e) \/ LoseEdit(e)
        PROVE  IInv'
    BY <2>5, CommitStep, ServeEditStep, AnsweredStep, RetryLimitedStep, ReloadStep,
       ReapplyStep, LoseEditStep DEF Post
  <2>6. ASSUME NEW p \in polls, Poll(p) \/ PollDies(p)
        PROVE  IInv'
    BY <2>6, PollStep
  <2> QED BY <2>1, <2>2, <2>3, <2>4, <2>5, <2>6 DEF Next
<1> QED BY <1>1, <1>2, PTL DEF Spec

\* One interaction is one mutation: whatever answers are lost, rate limits hit,
\* conflicts recovered and attempts retried, the server accepts no edit of the
\* session twice (commitEdits, #recoverFromConflict, retryLast).
THEOREM EditsApplyOnce == Spec => []AtMostOnce
<1>1. IInv => AtMostOnce
  BY DEF IInv
<1> QED BY <1>1, Invariance, PTL

\* A session that awaits a version shows that version next, or the baseline of
\* the reset in flight: no stale poll or download reaches the screen
\* (#pollGeneration).
THEOREM OnlyTheAwaitedIsShown == Spec => AppliedIsAwaited
<1> DEFINE A == (conn = "ready" /\ awaiting # None /\ shown' # shown) =>
                  shown' = awaiting \/ (wipe.pc = "fetch" /\ shown' = wipe.ver)
<1>1. IInv /\ [Next]_vars => [A]_vars
  <2> SUFFICES ASSUME IInv, Next, conn = "ready", awaiting # None, shown' # shown
               PROVE  shown' = awaiting \/ (wipe.pc = "fetch" /\ shown' = wipe.ver)
    OBVIOUS
  <2>1. CASE ResetFetched
    BY <2>1 DEF ResetFetched
  <2>2. ASSUME NEW p \in polls, PollFetched(p)
        PROVE  shown' = awaiting
    BY <2>2 DEF IInv, DownloadsAwaited, PollFetched, Owns
  <2>3. ~Connect
    BY DEF Connect, ConnectCreate, ConnectFetched, ConnectReady
  <2>4. ~Run /\ ~ServeReset /\ ~ResetAnswered
    BY DEF Run, ServeReset, ResetAnswered, NoteMismatch, viewVars
  <2>5. ~JobEnds /\ ~OtherEdit /\ ~SwapSite /\ ~RetryLast /\ ~ResetHeld /\ ~ResetPost
    BY DEF JobEnds, OtherEdit, SwapSite, RetryLast, ResetHeld, ResetPost, viewVars
  <2>6. \A e \in Edit : ~Commit(e) /\ ~Post(e) /\ ~LoseEdit(e)
    BY SMTT(30) DEF Commit, Post, LoseEdit, ServeEdit, Answered, Accepted, Refused, NoteMismatch,
           RetryLimited, Reload, Reapply, viewVars
  <2>7. \A p \in polls : ~PollSend(p) /\ ~ServeJob(p) /\ ~PollAnswered(p) /\ ~PollDies(p)
    BY DEF PollSend, ServeJob, PollAnswered, PollDies
  <2> QED BY <2>1, <2>2, <2>3, <2>4, <2>5, <2>6, <2>7 DEF Next, Clear, Poll
<1> QED BY <1>1, Invariance, PTL DEF Spec, AppliedIsAwaited

===============================================================================
