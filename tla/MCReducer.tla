------------------------------ MODULE MCReducer ------------------------------
(***************************************************************************)
(* Operations for TLC: two actors, one pool per kind of source family, and *)
(* the smallest payloads that overlap, miss, repeat and do not fit.        *)
(***************************************************************************)
EXTENDS Reducer

CONSTANTS alice, bob   \* the two actors

Actors == {alice, bob}
ActorSymmetry == Permutations(Actors)

Object(family, verb, fields) ==
  {[family |-> family, verb |-> verb, actor |-> x, entity |-> "e", fields |-> fields] :
     x \in Actors}

ObjectPool ==
  LET tree(verb, fields) == Object("vegetation_geometry", verb, fields)
  IN UNION {tree("add", [pos |-> 1, size |-> 1]), tree("add", [pos |-> 2]),
            tree("move", [pos |-> 2, size |-> 3]), tree("update", [size |-> 1]),
            tree("delete", Empty),
            Object("building_geometry", "add", [footprint |-> 1]),
            Object("building_geometry", "delete", Empty)}

Paint(cells, window, class) ==
  {[family |-> Landcover, verb |-> "paint", actor |-> x, cells |-> cells,
    window |-> window, class |-> class] : x \in Actors}

Window(r1, r2, c1, c2) ==
  [row_start |-> r1, row_stop |-> r2, col_start |-> c1, col_stop |-> c2]

PaintPool ==
  UNION {Paint({}, Window(0, 1, 0, 3), 1), Paint({<<0, 1>>}, Window(1, 1, 0, 2), 2),
         Paint({<<0, 2>>}, Window(0, 0, 0, 0), 2), Paint({}, Window(0, 2, 0, 1), 1)}
  \cup {[o EXCEPT !.verb = "set"] : o \in Paint({<<0, 0>>}, Window(0, 0, 0, 0), 2)}

Scalar(family, field, start, stop, v) ==
  {[family |-> family, verb |-> "set", actor |-> x, start |-> start, stop |-> stop,
    values |-> (field :> v)] : x \in Actors}

Met(start, stop, v) == Scalar("meteorological_forcing", "Ta", start, stop, v)

SegmentPool ==
  UNION {Met(0, 0, 1), Met(1, 1, 1), Met(1, 2, 2), Met(0, Open, 1), Met(0, 1, 2),
         Met(2, 1, 1), Scalar("selected_date_time", "step", 1, 1, 2)}

Select(scope, selection) ==
  {[family |-> View, verb |-> "select", actor |-> x, scope |-> scope,
    selection |-> selection] : x \in Actors}

ViewPool == UNION {Select("user", [layer |-> 1]), Select("workspace", [layer |-> 1]),
                   Select("workspace", [hour |-> 2])}

AllPools     == {ObjectPool, PaintPool, SegmentPool, ViewPool}
SegmentPools == {SegmentPool}

\* Two families that share a field name.
SharedFieldPools ==
  {Met(0, 0, 1) \cup Met(1, 1, 2)
     \cup Scalar("model_receptor_parameters", "Ta", 0, Open, 1)}
=============================================================================
