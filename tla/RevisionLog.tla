---------------------------- MODULE RevisionLog ----------------------------
(***************************************************************************)
(* What the realtime epoch plane promises the rest of the server and every *)
(* client: accepted operations (numbered 1, 2, ... by server_sequence) are *)
(* folded, in groups, into canonical states stored under strictly growing  *)
(* workspace revisions.  A state, once stored, never changes; each new     *)
(* state keeps everything the earlier ones folded; no operation is folded  *)
(* that was not accepted, and none is folded twice.  Beside this history   *)
(* there may be a pin, the row of revision 0: a baseline for the exact     *)
(* lane that holds no accepted operation and may be dropped again.         *)
(***************************************************************************)
EXTENDS Integers

CONSTANT Revision    \* the revisions a canonical state may be stored under

VARIABLES accepted,  \* the server sequences accepted so far
          rows,      \* the revisions that have a canonical state
          state      \* state[r]: the operations folded into revision r

vars == <<accepted, rows, state>>

Covered == UNION {state[r] : r \in rows}

Init ==
  /\ accepted = {}
  /\ rows = {}
  /\ state = [r \in Revision |-> {}]

\* A batch of new operations becomes durable.
Accept ==
  /\ accepted \subseteq accepted'
  /\ UNCHANGED <<rows, state>>

\* A non-empty group S of operations not folded before becomes part of the next
\* revision.
Publish ==
  \E r \in Revision \ rows, S \in (SUBSET (accepted \ Covered)) \ {{}} :
    /\ \A s \in rows \cup {0} : s < r
    /\ rows' = rows \cup {r}
    /\ state' = [state EXCEPT ![r] = Covered \cup S]
    /\ UNCHANGED accepted

\* The baseline of revision 0 is stored, once there are operations.
Pin ==
  /\ accepted # {}
  /\ rows' = rows \cup {0}
  /\ UNCHANGED <<accepted, state>>

\* It is dropped; what the revisions hold stays.
Unpin ==
  /\ rows' = rows \ {0}
  /\ UNCHANGED <<accepted, state>>

Next == Accept \/ Publish \/ Pin \/ Unpin

Spec == Init /\ [][Next]_vars

============================================================================
