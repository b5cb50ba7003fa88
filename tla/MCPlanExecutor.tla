--------------------------- MODULE MCPlanExecutor ---------------------------
(***************************************************************************)
(* Batches for TLC: each family alone, value-equal edits, and the mixtures *)
(* in which one family rides another's route.                              *)
(***************************************************************************)
EXTENDS PlanExecutor

Touch == [tree |-> Keep, wind |-> Nothing, rad |-> Nothing, params |-> Keep,
          paint |-> Keep, building |-> Keep, vars |-> {"utci", "tmrt"}]

MixedBatches ==
  {[Touch EXCEPT !.tree = 1], [Touch EXCEPT !.tree = 0],
   [Touch EXCEPT !.tree = 1, !.vars = {"utci"}],
   [Touch EXCEPT !.wind = 1 :> 1], [Touch EXCEPT !.wind = 1 :> 0],
   [Touch EXCEPT !.rad = 1 :> 1], [Touch EXCEPT !.rad = 0 :> 1, !.wind = 1 :> 1],
   [Touch EXCEPT !.params = 1],
   [Touch EXCEPT !.paint = 1], [Touch EXCEPT !.paint = 0],
   [Touch EXCEPT !.tree = 2, !.paint = 1],
   [Touch EXCEPT !.tree = 1, !.wind = 1 :> 1],
   [Touch EXCEPT !.building = 1], [Touch EXCEPT !.building = 0]}
=============================================================================
