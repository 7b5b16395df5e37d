----------------------------- MODULE MCPlanOrder -----------------------------
(***************************************************************************)
(* Instances of PlanOrder.  A plan of distinct files is any other one with *)
(* its files renamed, so one order of four files stands for all of them.   *)
(***************************************************************************)
EXTENDS PlanOrder

CONSTANTS a, b, c, d

(* Four distinct files, and two or three steps that may share a file. *)
MCPlans ==
  { << a, b, c, d >>, << a, b, b, c >>, << a, a, b, c >>, << a, b, c, a >> }
  \cup [1 .. 2 -> { a, b }] \cup [1 .. 3 -> { a, b, c }]

MCTwoSteps == [1 .. 2 -> { a, b }]

=============================================================================
