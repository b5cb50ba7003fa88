------------------------------- MODULE Reducer -------------------------------
(***************************************************************************)
(* The deterministic epoch reducer (solweig_gpu/server/realtime/           *)
(* reducer.py): the fold of one epoch's operations over the canonical      *)
(* state, the net change it reports per source family and the conflicts it *)
(* discloses.  Operations are appended to a log, whose index is the        *)
(* server_sequence, and epochs close at any point of it, so that every way *)
(* of splitting a log into epochs is explored.                             *)
(*                                                                         *)
(* A payload is its meaning: the fields of an object write, the half-open  *)
(* window and the cells of a paint, the closed interval and the values of  *)
(* a scalar write (stop = Open when it is unbounded), a selected document. *)
(***************************************************************************)
EXTENDS Integers, Sequences, FiniteSets, SequencesExt, TLC

CONSTANTS Pools,     \* sets of operations; a behaviour draws from one of them
          ChunkSize, \* edge of a raster chunk (64 in the code)
          Horizon,   \* the last timestep a bounded write names
          MaxOps     \* bound: operations in the log

ASSUME ReducerAssumption ==
  /\ ChunkSize \in Nat \ {0} /\ Horizon \in Nat /\ MaxOps \in Nat

ObjectFamilies  == {"building_geometry", "vegetation_geometry"}
SegmentFamilies == {"meteorological_forcing", "model_receptor_parameters",
                    "selected_date_time"}
Landcover == "landcover_surface"
View      == "output_view"
Families  == ObjectFamilies \cup SegmentFamilies \cup {Landcover, View}

Open == Horizon + 2   \* the None stop: beyond every timestep and every carve
NoOp == 0             \* no operation of this epoch owns the segment

PositionFields == [building_geometry   |-> {"footprint"},
                   vegetation_geometry |-> {"pos"}]

VARIABLES pool,    \* the operations this behaviour may submit
          log,     \* accepted operations in server_sequence order
          done,    \* how many of them a closed epoch has folded
          canon,   \* CanonicalState.families
          base,    \* the baseline of the last epoch
          reduced  \* the last epoch: its span, family deltas and conflicts

vars == <<pool, log, done, canon, base, reduced>>

Empty == [k \in {} |-> k]

\* f without the key k, and f[k], or d when f has no such key.
Without(f, k)      == [x \in DOMAIN f \ {k} |-> f[x]]
Lookup(f, k, d)    == IF k \in DOMAIN f THEN f[k] ELSE d
Appended(f, k, x)  == (k :> Append(Lookup(f, k, <<>>), x)) @@ f

EmptyFamily(family) ==
  IF family \in ObjectFamilies THEN [objects |-> Empty, tombstones |-> Empty]
  ELSE IF family = Landcover   THEN [chunks |-> Empty]
  ELSE IF family = View        THEN [view |-> Empty, per_user |-> Empty]
  ELSE [segments |-> Empty]

Initial == [family \in Families |-> EmptyFamily(family)]

CopiedWithoutTombstones(families) ==
  [f \in Families |-> IF f \in ObjectFamilies
                      THEN [families[f] EXCEPT !.tombstones = Empty]
                      ELSE families[f]]
\* _copy_families carries every part of every family into the new state.
Copied(families) == families

-----------------------------------------------------------------------------
(* The fold.  w carries the families under construction and the epoch's    *)
(* bookkeeping; i is the sequence of the operation op.                     *)

NewFold(families) ==
  [families  |-> Copied(families),
   conflicts |-> {},
   adds      |-> Empty,  \* entity -> its adds
   deletes   |-> Empty,  \* entity -> the delete that took effect
   writers   |-> Empty,  \* <<family, entity, field>> -> its writers
   painters  |-> Empty,  \* chunk -> the operations that painted in it
   owners    |-> Empty,  \* field -> the owner of each of its segments
   viewers   |-> <<>>]   \* workspace selections

Conflict(kind, family, entity, winner, losers) ==
  [kind |-> kind, family |-> family, entity |-> entity,
   winner |-> winner, losers |-> losers]

WrittenBy(writers, op, i, fields) ==
  [k \in DOMAIN writers \cup {<<op.family, op.entity, f>> : f \in fields} |->
     IF k[1] = op.family /\ k[2] = op.entity /\ k[3] \in fields
     THEN Append(Lookup(writers, k, <<>>), i)
     ELSE writers[k]]

\* The generation an add continues: of the live object, else of its
\* tombstone, else none.
Previous(state, e) ==
  IF e \in DOMAIN state.objects THEN state.objects[e].generation
  ELSE Lookup(state.tombstones, e, -1)

\* An add over a tombstone removes it.
Resurrected(tombstones, e) == Without(tombstones, e)

FoldAdd(w, op, i) ==
  LET state    == w.families[op.family]
      e        == op.entity
      previous == Previous(state, e)
      prior    == Lookup(w.adds, e, <<>>)
  IN [w EXCEPT
        !.families[op.family] =
          [objects    |-> (e :> [generation |-> previous + 1,
                                 fields     |-> op.fields]) @@ state.objects,
           tombstones |-> Resurrected(state.tombstones, e)],
        !.conflicts = IF previous = -1 THEN @ ELSE
          @ \cup {Conflict("GENERATION_RECREATED", op.family, e, i,
                           IF prior = <<>> THEN {} ELSE {Last(prior)})},
        !.adds      = Appended(@, e, i),
        !.writers   = WrittenBy(@, op, i, DOMAIN op.fields)]

\* A move writes the position fields only.
WrittenFields(op) ==
  IF op.verb = "move" THEN DOMAIN op.fields \cap PositionFields[op.family]
  ELSE DOMAIN op.fields

FoldWrite(w, op, i) ==
  LET state   == w.families[op.family]
      e       == op.entity
      written == WrittenFields(op)
  IN IF e \in DOMAIN state.objects
     THEN [w EXCEPT
             !.families[op.family].objects[e].fields =
               [f \in written |-> op.fields[f]] @@ @,
             !.writers = WrittenBy(@, op, i, written)]
     ELSE [w EXCEPT
             !.conflicts = IF e \notin DOMAIN state.tombstones THEN @ ELSE
               @ \cup {Conflict("TOMBSTONE_REJECTED", op.family, e,
                                Lookup(w.deletes, e, i), {i})}]

FoldDelete(w, op, i) ==
  LET state == w.families[op.family]
      e     == op.entity
  IN IF e \notin DOMAIN state.objects THEN w
     ELSE [w EXCEPT
             !.families[op.family] =
               [objects    |-> Without(state.objects, e),
                tombstones |-> (e :> state.objects[e].generation)
                                 @@ state.tombstones],
             !.deletes = (e :> i) @@ @]

FoldObject(w, op, i) ==
  CASE op.verb = "add"                           -> FoldAdd(w, op, i)
    [] op.verb \in {"replace", "update", "move"} -> FoldWrite(w, op, i)
    [] op.verb = "delete"                        -> FoldDelete(w, op, i)
    [] OTHER                                     -> w

Chunk(cell) == <<cell[1] \div ChunkSize, cell[2] \div ChunkSize>>

\* A half-open brush window and an explicit list of cells.
PaintCells(op) ==
  op.cells \cup ((op.window.row_start .. op.window.row_stop - 1) \X
                 (op.window.col_start .. op.window.col_stop - 1))

FoldPaint(w, op, i) ==
  LET cells   == PaintCells(op)
      touched == {Chunk(c) : c \in cells}
      chunks  == w.families[Landcover].chunks
      painted(k) == [c \in {x \in cells : Chunk(x) = k} |-> op.class]
  IN [w EXCEPT
        !.families[Landcover].chunks =
          [k \in touched |-> painted(k) @@ Lookup(chunks, k, Empty)] @@ chunks,
        !.painters =
          [k \in touched |-> Append(Lookup(w.painters, k, <<>>), i)] @@ @]

-----------------------------------------------------------------------------
(* Segment algebra.  Every piece is <<start, stop, value, owner>>.         *)

Overlaps(start, stop, piece) == start <= piece[2] /\ piece[1] <= stop

\* What is left of a piece once [start, stop] is carved out of it.
Remains(piece, start, stop) ==
  IF ~Overlaps(start, stop, piece) THEN {piece}
  ELSE (IF piece[1] < start
        THEN {<<piece[1], start - 1, piece[3], piece[4]>>} ELSE {})
       \cup
       (IF stop # Open /\ piece[2] > stop
        THEN {<<stop + 1, piece[2], piece[3], piece[4]>>} ELSE {})

MergeableEqualStops(left, right) ==
  left[3] = right[3] /\ left[2] # Open /\ left[2] = right[1]
Mergeable(left, right) ==
  left[3] = right[3] /\ left[2] # Open /\ left[2] + 1 = right[1]

\* Adjacent pieces of equal value become one, owned by the earlier owner.
Merged(pieces) ==
  FoldLeft(LAMBDA acc, p :
             IF acc # <<>> /\ Mergeable(Last(acc), p)
             THEN Append(Front(acc),
                    <<Last(acc)[1], p[2], p[3],
                      IF Last(acc)[4] = NoOp THEN p[4] ELSE Last(acc)[4]>>)
             ELSE Append(acc, p),
           <<>>, pieces)

\* zip(segments, owners): as long as the shorter of the two.
Zipped(segments, owners) ==
  LET n == IF Len(segments) <= Len(owners) THEN Len(segments) ELSE Len(owners)
  IN [j \in 1 .. n |-> segments[j] \o <<owners[j]>>]

SegmentKind(start, stop, piece) ==
  IF start < stop \/ piece[1] < piece[2]
  THEN "RANGE_SEGMENTED" ELSE "LAST_WRITE_WINS"

InsertSegment(w, op, i, field) ==
  LET segments == Lookup(w.families[op.family].segments, field, <<>>)
      owners   == Lookup(w.owners, field, [j \in 1 .. Len(segments) |-> NoOp])
      pieces   == ToSet(Zipped(segments, owners))
      kept     == UNION {Remains(p, op.start, op.stop) : p \in pieces}
      all      == kept \cup {<<op.start, op.stop, op.values[field], i>>}
      merged   == Merged(SetToSortSeq(all, LAMBDA p, q : p[1] < q[1]))
      overwritten == {p \in pieces : /\ Overlaps(op.start, op.stop, p)
                                     /\ p[4] # NoOp
                                     /\ log[p[4]].actor # op.actor}
  IN [w EXCEPT
        !.families[op.family].segments =
          (field :> [j \in 1 .. Len(merged) |-> SubSeq(merged[j], 1, 3)]) @@ @,
        !.owners    = (field :> [j \in 1 .. Len(merged) |-> merged[j][4]]) @@ @,
        !.conflicts = @ \cup
          {Conflict(SegmentKind(op.start, op.stop, p), op.family, field,
                    i, {p[4]}) : p \in overwritten}]

\* A selected date is content, not a bound: its writes are unbounded.  Bounds
\* that do not make an interval are audited with no state change.
FoldSegments(w, op, i) ==
  LET bounded == IF op.family = "selected_date_time"
                 THEN [op EXCEPT !.start = 0, !.stop = Open] ELSE op
  IN IF bounded.stop < bounded.start THEN w
     ELSE FoldLeft(LAMBDA acc, field : InsertSegment(acc, bounded, i, field),
                   w, SetToSeq(DOMAIN op.values))

FoldView(w, op, i) ==
  IF op.scope = "user"
  THEN [w EXCEPT !.families[View].per_user = (op.actor :> op.selection) @@ @]
  ELSE [w EXCEPT !.families[View].view = op.selection,
                 !.viewers = Append(@, i)]

\* A verb the family does not know is audited only.
FoldOperation(w, i) ==
  LET op == log[i]
  IN CASE op.family \in ObjectFamilies -> FoldObject(w, op, i)
       [] op.family = Landcover /\ op.verb = "paint" -> FoldPaint(w, op, i)
       [] op.family \in SegmentFamilies /\ op.verb \in {"set", "select", "update"}
            -> FoldSegments(w, op, i)
       [] op.family = View /\ op.verb = "select" -> FoldView(w, op, i)
       [] OTHER -> w

-----------------------------------------------------------------------------
(* Conflicts computed after the fold.                                      *)

ActorsOf(ops) == {log[i].actor : i \in ToSet(ops)}

ContestOfFirst(kind, family, entity, ops) ==
  Conflict(kind, family, entity, Head(ops), ToSet(Tail(ops)))
\* Everyone but the last is a loser; an operation paints a chunk once.
Contest(kind, family, entity, ops) ==
  Conflict(kind, family, entity, Last(ops), ToSet(Front(ops)))

AggregateConflicts(w) ==
  {Contest("LAST_WRITE_WINS", k[1], k[2], w.writers[k]) :
     k \in {k \in DOMAIN w.writers : Cardinality(ActorsOf(w.writers[k])) > 1}}
  \cup
  {Contest("RASTER_CHUNK_OVERWRITTEN", Landcover, k, w.painters[k]) :
     k \in {k \in DOMAIN w.painters : Cardinality(ActorsOf(w.painters[k])) > 1}}
  \cup
  (IF Cardinality(ActorsOf(w.viewers)) > 1
   THEN {Contest("LAST_WRITE_WINS", View, "workspace", w.viewers)} ELSE {})

-----------------------------------------------------------------------------
(* Family deltas: the net change against the baseline.                     *)

FieldsOf(state, e) == state.objects[e].fields

ChangedPresent(old, new) ==
  {f \in DOMAIN new : ~(f \in DOMAIN old /\ old[f] = new[f])}
\* The fields whose value differs, a field only one side has included.
Changed(old, new) ==
  {f \in DOMAIN old \cup DOMAIN new :
     ~(f \in DOMAIN old /\ f \in DOMAIN new /\ old[f] = new[f])}

Command(operation, target, values, old) ==
  [operation |-> operation, target |-> target, values |-> values, old |-> old]

\* A change of the generation alone is physically identical: no command.
ObjectDelta(family, old, new) ==
  {Command("add", e, FieldsOf(new, e), Empty) :
     e \in DOMAIN new.objects \ DOMAIN old.objects}
  \cup
  {Command("delete", e, Empty, FieldsOf(old, e)) :
     e \in DOMAIN old.objects \ DOMAIN new.objects}
  \cup
  {Command(IF Changed(FieldsOf(old, e), FieldsOf(new, e))
                \subseteq PositionFields[family] THEN "move" ELSE "replace",
           e, FieldsOf(new, e), FieldsOf(old, e)) :
     e \in {e \in DOMAIN old.objects \cap DOMAIN new.objects :
              FieldsOf(old, e) # FieldsOf(new, e)}}

\* One paint per chunk and class, over the cells that changed.
LandcoverDelta(old, new) ==
  LET diff(k) == {c \in DOMAIN new.chunks[k] :
                    Lookup(Lookup(old.chunks, k, Empty), c, -1) # new.chunks[k][c]}
      classes(k) == {new.chunks[k][c] : c \in diff(k)}
  IN UNION {{Command("paint", {c \in diff(k) : new.chunks[k][c] = code}, code, Empty) :
               code \in classes(k)} : k \in DOMAIN new.chunks}

SegmentDelta(old, new) ==
  {Command("set", f, new.segments[f], Lookup(old.segments, f, <<>>)) :
     f \in {f \in DOMAIN new.segments :
              Lookup(old.segments, f, <<>>) # new.segments[f]}}

\* A per-user selection never enters the delta.
ViewDelta(old, new) ==
  IF new.view = old.view THEN {}
  ELSE {Command("select", View, new.view, old.view)}

FamilyDelta(family, old, new) ==
  CASE family \in ObjectFamilies  -> ObjectDelta(family, old, new)
    [] family = Landcover         -> LandcoverDelta(old, new)
    [] family \in SegmentFamilies -> SegmentDelta(old, new)
    [] family = View              -> ViewDelta(old, new)

-----------------------------------------------------------------------------
Init ==
  /\ pool \in Pools
  /\ log = <<>> /\ done = 0
  /\ canon = Initial /\ base = Initial
  /\ reduced = [lo |-> 0, hi |-> 0, deltas |-> Empty, conflicts |-> {}]

\* An accepted operation gets the next server_sequence.
Accept(op) ==
  /\ Len(log) < MaxOps
  /\ log' = Append(log, op)
  /\ UNCHANGED <<pool, done, canon, base, reduced>>

\* reduce_epoch over the operations accepted since the last epoch closed.
ReduceEpoch ==
  LET span == [j \in 1 .. Len(log) - done |-> done + j]
      w    == FoldLeft(FoldOperation, NewFold(canon), span)
      present == {log[i].family : i \in ToSet(span)}
  IN /\ done < Len(log)
     /\ canon' = w.families
     /\ base' = canon
     /\ done' = Len(log)
     /\ reduced' = [lo        |-> done,
                    hi        |-> Len(log),
                    deltas    |-> [f \in present |->
                                     FamilyDelta(f, canon[f], w.families[f])],
                    conflicts |-> w.conflicts \cup AggregateConflicts(w)]
     /\ UNCHANGED <<pool, log>>

Next == (\E op \in pool : Accept(op)) \/ ReduceEpoch

Spec == Init /\ [][Next]_vars

-----------------------------------------------------------------------------
(* Reference definitions, stated over the log without a fold.              *)

Epoch == reduced.lo + 1 .. reduced.hi

On(i, family, e) == log[i].family = family /\ log[i].entity = e
AddsOf(family, e, n) == {i \in 1 .. n : On(i, family, e) /\ log[i].verb = "add"}

\* After the first n operations: the entity was added and not deleted since.
LiveAfter(family, e, n) ==
  \E i \in AddsOf(family, e, n) :
    \A j \in i + 1 .. n : ~(On(j, family, e) /\ log[j].verb = "delete")

\* Operation i took effect on the field of the entity.
Writes(i, family, e, f) ==
  /\ On(i, family, e)
  /\ log[i].verb \in {"add", "replace", "update", "move"}
  /\ f \in WrittenFields(log[i])
  /\ log[i].verb = "add" \/ LiveAfter(family, e, i - 1)

EntitiesOf(family) == {log[i].entity : i \in {i \in 1 .. done : log[i].family = family}}

ObjectAgrees(family, e) ==
  LET state == canon[family]
      adds  == AddsOf(family, e, done)
      birth == CHOOSE i \in adds : \A j \in adds : j <= i
      since(f) == {i \in birth .. done : Writes(i, family, e, f)}
      names == UNION {DOMAIN log[i].fields :
                        i \in {i \in birth .. done : On(i, family, e)}}
  IN IF LiveAfter(family, e, done)
     THEN /\ e \in DOMAIN state.objects /\ e \notin DOMAIN state.tombstones
          /\ state.objects[e].generation = Cardinality(adds) - 1
          /\ DOMAIN FieldsOf(state, e) = {f \in names : since(f) # {}}
          /\ \A f \in DOMAIN FieldsOf(state, e) : \E i \in since(f) :
               /\ \A j \in since(f) : j <= i
               /\ FieldsOf(state, e)[f] = log[i].fields[f]
     ELSE /\ e \notin DOMAIN state.objects
          /\ e \in DOMAIN state.tombstones <=> adds # {}
          /\ adds # {} => state.tombstones[e] = Cardinality(adds) - 1

Paints(i, c) == log[i].family = Landcover /\ log[i].verb = "paint"
                  /\ c \in PaintCells(log[i])
PaintedCells == UNION {PaintCells(log[i]) :
                         i \in {i \in 1 .. done : log[i].family = Landcover}}

\* Operation i set the field at timestep t.
Sets(i, family, f, t) ==
  /\ log[i].family = family /\ log[i].verb \in {"set", "select", "update"}
  /\ f \in DOMAIN log[i].values
  /\ \/ family = "selected_date_time"
     \/ log[i].start <= t /\ t <= log[i].stop

\* The value the segments of a field give a timestep, as a set of at most one.
ValuesAt(family, f, t) ==
  {s[3] : s \in {s \in ToSet(Lookup(canon[family].segments, f, <<>>)) :
                   s[1] <= t /\ t <= s[2]}}

-----------------------------------------------------------------------------
Types(family, state) ==
  CASE family \in ObjectFamilies ->
         /\ DOMAIN state.objects \cap DOMAIN state.tombstones = {}
         /\ \A e \in DOMAIN state.objects : state.objects[e].generation \in 0 .. MaxOps
         /\ \A e \in DOMAIN state.tombstones : state.tombstones[e] \in 0 .. MaxOps
    [] family = Landcover ->
         \A k \in DOMAIN state.chunks : \A c \in DOMAIN state.chunks[k] : Chunk(c) = k
    [] family \in SegmentFamilies ->
         \A f \in DOMAIN state.segments : state.segments[f] # <<>>
    [] family = View -> DOMAIN state.per_user \subseteq {log[i].actor : i \in 1 .. done}

\* The shapes of reducer.py's "Canonical state v1": an entity is live or a
\* tombstone, never both; a cell lies in its own chunk's bucket.
TypeOK ==
  /\ log \in Seq(pool) /\ done \in 0 .. Len(log)
  /\ \A f \in Families : Types(f, canon[f])

ViewAgrees ==
  LET selects(i) == log[i].family = View /\ log[i].verb = "select"
      wide(i)    == selects(i) /\ log[i].scope # "user"
      by(i, a)   == selects(i) /\ log[i].scope = "user" /\ log[i].actor = a
  IN /\ \A i \in 1 .. done :
          (wide(i) /\ \A j \in i + 1 .. done : ~wide(j))
            => canon[View].view = log[i].selection
     /\ \A i \in 1 .. done : \A a \in {log[i].actor} :
          (by(i, a) /\ \A j \in i + 1 .. done : ~by(j, a))
            => canon[View].per_user[a] = log[i].selection

\* However the log is split into epochs, the canonical state is the one the
\* whole log defines: an object lives iff it was added and not deleted since,
\* its generation counts its adds, and every field, cell, timestep and
\* selection holds what the last operation that took effect on it wrote.
\* (reduce_epoch chained over baselines; a write to a tombstone, a move of a
\* field that is not a position and malformed bounds take no effect.)
LastWriterWins ==
  /\ \A family \in ObjectFamilies :
       /\ \A e \in EntitiesOf(family) : ObjectAgrees(family, e)
       /\ DOMAIN canon[family].objects \cup DOMAIN canon[family].tombstones
            \subseteq EntitiesOf(family)
  /\ \A c \in PaintedCells : \A i \in 1 .. done :
       (Paints(i, c) /\ \A j \in i + 1 .. done : ~Paints(j, c))
         => canon[Landcover].chunks[Chunk(c)][c] = log[i].class
  /\ \A i \in {i \in 1 .. done : log[i].family \in SegmentFamilies} :
       \A f \in DOMAIN log[i].values : \A t \in 0 .. Horizon + 1 :
         LET family  == log[i].family
             setters == {j \in 1 .. done : Sets(j, family, f, t)}
         IN ValuesAt(family, f, t) =
              {log[j].values[f] : j \in {j \in setters : \A k \in setters : k <= j}}
  /\ ViewAgrees

\* The segments of a field are a function of its timestep -> value mapping,
\* as the module's docstring says ("disjoint, sorted, canonical"): no two
\* overlap and no two that touch have the same value.
SegmentsCanonical ==
  \A family \in SegmentFamilies : \A f \in DOMAIN canon[family].segments :
    LET s == canon[family].segments[f]
    IN /\ \A j \in 1 .. Len(s) : s[j][1] <= s[j][2]
       /\ \A j \in 1 .. Len(s) - 1 :
            /\ s[j][2] < s[j + 1][1]
            /\ s[j][2] + 1 = s[j + 1][1] => s[j][3] # s[j + 1][3]

\* What a consumer of the family's commands makes of the baseline.  It
\* applies a move to the position fields alone and a replace to all of them.
AppliedObjects(family, old, commands) ==
  LET of(e) == {c \in commands : c.target = e}
      gone  == {c.target : c \in {c \in commands : c.operation = "delete"}}
      new(e) == LET c == CHOOSE c \in of(e) : TRUE
                IN IF c.operation # "move" THEN c.values
                   ELSE [f \in (DOMAIN c.old \ PositionFields[family])
                                \cup (DOMAIN c.values \cap PositionFields[family]) |->
                           IF f \in PositionFields[family] THEN c.values[f] ELSE c.old[f]]
  IN [e \in (DOMAIN old.objects \cup {c.target : c \in commands}) \ gone |->
        IF of(e) = {} THEN FieldsOf(old, e) ELSE new(e)]

AppliedCells(old, commands) ==
  LET cells == UNION {DOMAIN old.chunks[k] : k \in DOMAIN old.chunks}
               \cup UNION {c.target : c \in commands}
  IN [x \in cells |->
        IF \E c \in commands : x \in c.target
        THEN (CHOOSE c \in commands : x \in c.target).values
        ELSE old.chunks[Chunk(x)][x]]

AppliedSegments(old, commands) ==
  [f \in DOMAIN old.segments \cup {c.target : c \in commands} |->
     IF \E c \in commands : c.target = f
     THEN (CHOOSE c \in commands : c.target = f).values
     ELSE old.segments[f]]

\* The deltas of an epoch are its net change: a consumer that applies every
\* family's commands to the baseline (a move touching positions only) gets
\* the canonical state's physical content, and a family without commands is
\* one whose content did not change.
DeltaIsNetChange ==
  \A family \in Families :
    LET commands == Lookup(reduced.deltas, family, {})
        old == base[family]
        new == canon[family]
    IN CASE family \in ObjectFamilies ->
              AppliedObjects(family, old, commands)
                = [e \in DOMAIN new.objects |-> FieldsOf(new, e)]
         [] family = Landcover ->
              \A k \in DOMAIN new.chunks : \A x \in DOMAIN new.chunks[k] :
                AppliedCells(old, commands)[x] = new.chunks[k][x]
         [] family \in SegmentFamilies ->
              AppliedSegments(old, commands) = new.segments
         [] family = View ->
              \/ commands = {} /\ old.view = new.view
              \/ \E c \in commands : commands = {c} /\ c.values = new.view

Disclosed(kind, family, entity, loser) ==
  \E c \in reduced.conflicts :
    /\ c.kind = kind /\ c.family = family /\ c.entity = entity
    /\ loser \in c.losers /\ c.winner # loser

\* Conflicts are data: when two actors write the same field, cell or shared
\* view in one epoch, the epoch's conflicts name the earlier write as a
\* loser; a write that found a tombstone is named as rejected.
ContestedWritesDisclosed ==
  \A i \in Epoch :
    LET a == log[i] IN
    /\ \A j \in {j \in i + 1 .. reduced.hi : log[j].actor # a.actor} :
         /\ (a.family \in ObjectFamilies) =>
              \A f \in DOMAIN a.fields :
                (Writes(i, a.family, a.entity, f) /\ Writes(j, a.family, a.entity, f))
                  => Disclosed("LAST_WRITE_WINS", a.family, a.entity, i)
         /\ (a.family = Landcover) =>
              \A c \in PaintCells(a) :
                (Paints(i, c) /\ Paints(j, c))
                  => Disclosed("RASTER_CHUNK_OVERWRITTEN", Landcover, Chunk(c), i)
         /\ (/\ a.family = View /\ log[j].family = View
             /\ "user" \notin {a.scope, log[j].scope})
               => Disclosed("LAST_WRITE_WINS", View, "workspace", i)
    /\ (/\ a.family \in ObjectFamilies
        /\ a.verb \in {"replace", "update", "move"}
        /\ AddsOf(a.family, a.entity, i - 1) # {}
        /\ ~LiveAfter(a.family, a.entity, i - 1))
          => \E c \in reduced.conflicts :
               /\ c.kind = "TOMBSTONE_REJECTED" /\ c.losers = {i}
               /\ c.family = a.family /\ c.entity = a.entity

\* The module docstring on scalar writes: "Cross-actor overlap of multi-
\* timestep ranges records RANGE_SEGMENTED; cross-actor overwrite of a single
\* timestep records LAST_WRITE_WINS".  The write whose value an operation
\* replaces at a timestep, made in the same epoch by another actor, is named
\* as its loser.
SegmentOverwritesDisclosed ==
  \A i, j \in {k \in Epoch : log[k].family \in SegmentFamilies} :
    \A f \in DOMAIN log[i].values : \A t \in 0 .. Horizon + 1 :
      LET family == log[i].family
      IN (/\ i < j /\ log[j].family = family /\ log[i].actor # log[j].actor
          /\ Sets(i, family, f, t) /\ Sets(j, family, f, t)
          /\ \A k \in i + 1 .. j - 1 : ~Sets(k, family, f, t))
         => \E c \in reduced.conflicts : c.winner = j /\ i \in c.losers /\ c.entity = f
=============================================================================
