------------------------------ MODULE PlanOrder ------------------------------
(***************************************************************************)
(* How a plan becomes step rows: Planner._order_by_dependencies sorts the  *)
(* files of the plan (DepGraph.topo_order, Kahn's algorithm), numbers the  *)
(* steps in that order, and Repository.replace_steps inserts them.         *)
(*                                                                         *)
(* A plan is the sequence of the files its steps name, as the model gave   *)
(* it; the edges are the imports and the declared depends_on together.  A  *)
(* step is its position in the plan.  The list ready is kept sorted by the *)
(* code and popped at its front: here it is a bag whose first element is   *)
(* taken.                                                                  *)
(***************************************************************************)
EXTENDS Integers, Sequences, FiniteSets

CONSTANTS
  Files,  \* names of files
  Plans   \* the plans to consider: sequences over Files

ASSUME ConstantsAssumption == Plans \subseteq Seq(Files) \ { << >> }

VARIABLES
  files,  \* the plan
  edges,  \* by planned file: what it imports or declares to depend on
  indeg,  \* by planned file: dependencies not yet placed
  ready,  \* by planned file: how often it is in the list ready
  order,  \* the files placed so far
  at,     \* where the computation is
  number, \* by planned file: step_index of the step by_file holds
  rows    \* table steps: by step_index, the step inserted

vars == << files, edges, indeg, ready, order, at, number, rows >>

Planned == { files[i] : i \in DOMAIN files }

Placed == { order[i] : i \in DOMAIN order }

(* index and by_file are filled in the order of the plan: the last wins. *)
LastAt(s, f) == CHOOSE i \in DOMAIN s : s[i] = f /\ \A j \in DOMAIN s : s[j] = f => j <= i

Count(s, f) == Cardinality({ i \in DOMAIN s : s[i] = f })

(* Only edges between the planned files matter. *)
Deps(f) == (edges[f] \cap Planned) \ { f }

(* Deliberately wrong: the list is popped at its end. *)
IsLast(f) ==
  ready[f] > 0 /\ \A g \in Planned : ready[g] > 0 => LastAt(files, g) <= LastAt(files, f)

(* The front of the sorted list. *)
IsFirst(f) ==
  ready[f] > 0 /\ \A g \in Planned : ready[g] > 0 => LastAt(files, f) <= LastAt(files, g)

Init ==
  /\ files \in Plans
  /\ edges \in [Planned -> SUBSET Files]
  /\ indeg = [f \in Planned |-> 0] /\ ready = [f \in Planned |-> 0]
  /\ order = << >> /\ at = "plan"
  /\ number = [f \in Planned |-> 0] /\ rows = << >>

-----------------------------------------------------------------------------
(* topo_order *)

CountEdges ==
  /\ at = "plan" /\ at' = "sort"
  /\ indeg' = [f \in Planned |-> Cardinality(Deps(f))]
  /\ ready' = [f \in Planned |-> IF Deps(f) = {} THEN Count(files, f) ELSE 0]
  /\ UNCHANGED << files, edges, order, number, rows >>

(* while ready: place the first, and free what only waited for it. *)
Place(f) ==
  /\ at = "sort" /\ IsFirst(f)
  /\ order' = Append(order, f)
  /\ indeg' = [g \in Planned |-> IF f \in Deps(g) THEN indeg[g] - 1 ELSE indeg[g]]
  /\ ready' = [g \in Planned |->
                 (IF g = f THEN ready[g] - 1 ELSE ready[g])
                 + (IF f \in Deps(g) /\ indeg[g] = 1 THEN 1 ELSE 0)]
  /\ UNCHANGED << files, edges, at, number, rows >>

(* Deliberately wrong: what waits on a cycle is left out. *)
NoRemainder ==
  /\ at = "sort" /\ \A f \in Planned : ready[f] = 0
  /\ at' = "number"
  /\ UNCHANGED << files, edges, indeg, ready, order, number, rows >>

(* Nothing is ready: the remainder is placed in the order of the plan. *)
Remainder ==
  /\ at = "sort" /\ \A f \in Planned : ready[f] = 0
  /\ IF Len(order) < Len(files)
     THEN /\ ready' = [f \in Planned |-> IF f \in Placed THEN 0 ELSE Count(files, f)]
          /\ at' = "rest"
     ELSE at' = "number" /\ ready' = ready
  /\ UNCHANGED << files, edges, indeg, order, number, rows >>

PlaceRest(f) ==
  /\ at = "rest" /\ IsFirst(f)
  /\ order' = Append(order, f)
  /\ ready' = [ready EXCEPT ![f] = @ - 1]
  /\ UNCHANGED << files, edges, indeg, at, number, rows >>

EndOfRest ==
  /\ at = "rest" /\ \A f \in Planned : ready[f] = 0
  /\ at' = "number"
  /\ UNCHANGED << files, edges, indeg, ready, order, number, rows >>

-----------------------------------------------------------------------------
(* The rows *)

(* Deliberately wrong: the steps keep the numbers _validate gave them. *)
NumberKept ==
  /\ at = "number" /\ at' = "insert"
  /\ number' = [f \in Planned |-> LastAt(files, f) - 1]
  /\ UNCHANGED << files, edges, indeg, ready, order, rows >>

(* Deliberately wrong: the numbers start at one. *)
NumberFromOne ==
  /\ at = "number" /\ at' = "insert"
  /\ number' = [f \in Planned |-> LastAt(order, f)]
  /\ UNCHANGED << files, edges, indeg, ready, order, rows >>

(* for idx, s in enumerate(ordered): a step met twice keeps the last idx. *)
Number ==
  /\ at = "number" /\ at' = "insert"
  /\ number' = [f \in Planned |-> LastAt(order, f) - 1]
  /\ UNCHANGED << files, edges, indeg, ready, order, rows >>

(* replace_steps, one INSERT of an ordered step: UNIQUE(run_id, step_index) *)
(* holds, or sqlite3.IntegrityError ends the drive.                        *)
Insert ==
  /\ at = "insert" /\ Len(rows) < Len(order)
  /\ LET f == order[Len(rows) + 1]
         row == [index |-> number[f], step |-> LastAt(files, f)]
     IN IF \E i \in DOMAIN rows : rows[i].index = row.index
        THEN at' = "raised" /\ rows' = rows
        ELSE rows' = Append(rows, row) /\ at' = at
  /\ UNCHANGED << files, edges, indeg, ready, order, number >>

Stored ==
  /\ at = "insert" /\ Len(rows) = Len(order)
  /\ at' = "stored"
  /\ UNCHANGED << files, edges, indeg, ready, order, number, rows >>

Next ==
  \/ CountEdges \/ Remainder \/ EndOfRest \/ Number \/ Insert \/ Stored
  \/ \E f \in Planned : Place(f) \/ PlaceRest(f)

Spec == Init /\ [][Next]_vars

-----------------------------------------------------------------------------
(* Properties *)

(* Every variable has its type. *)
TypeOK ==
  /\ files \in Seq(Files) /\ edges \in [Planned -> SUBSET Files]
  /\ indeg \in [Planned -> Int] /\ ready \in [Planned -> Nat]
  /\ order \in Seq(Planned) /\ number \in [Planned -> 0 .. Len(files) - 1]
  /\ at \in { "plan", "sort", "rest", "number", "insert", "raised", "stored" }
  /\ rows \in Seq([index : 0 .. Len(files) - 1, step : DOMAIN files])

OneStepPerFile == \A i, j \in DOMAIN files : files[i] = files[j] => i = j

(* f is on a cycle of the plan, or depends on one. *)
RestsOnCycle(f) ==
  \E S \in SUBSET Planned : f \in S /\ \A g \in S : Deps(g) \cap S # {}

RowOf(f) == CHOOSE i \in DOMAIN rows : files[rows[i].step] = f

(* A plan of one step per file gets a row for every step, numbered as the  *)
(* drive will execute them, whatever its edges are: no cycle loses a step. *)
DistinctPlanIsStored ==
  OneStepPerFile =>
    /\ at # "raised"
    /\ at = "stored" =>
         /\ { rows[i].step : i \in DOMAIN rows } = DOMAIN files
         /\ \A i \in DOMAIN rows : rows[i].index = i - 1

(* A step is executed after all steps it depends on, unless it rests on a  *)
(* cycle.                                                                  *)
DependenciesFirst ==
  at = "stored" /\ OneStepPerFile =>
    \A f \in Planned : \A g \in Deps(f) :
      RestsOnCycle(f) \/ rows[RowOf(g)].index < rows[RowOf(f)].index

(* The order of the plan is the tie-breaker and nothing more: a step is    *)
(* only overtaken by a later one of the plan while it still waits for a    *)
(* dependency.                                                             *)
PlanBreaksTies ==
  OneStepPerFile =>
    \A i, j \in DOMAIN order :
      i < j /\ LastAt(files, order[j]) < LastAt(files, order[i]) =>
        \/ \E k \in i .. j - 1 : order[k] \in Deps(order[j])
        \/ RestsOnCycle(order[j]) /\ ~RestsOnCycle(order[i])

(* No file of a plan is forgotten, however often the plan names it.        *)
EveryFileIsPlaced == at \in { "number", "insert", "stored", "raised" } => Placed = Planned

-----------------------------------------------------------------------------
(* What the documents say of the program and the code does not do *)

(* "output is validated into typed Step rows before anything runs"         *)
(* (README.md:135): every step of the plan has its row.                    *)
EveryStepIsStored ==
  at \in { "stored", "raised" } => { rows[i].step : i \in DOMAIN rows } = DOMAIN files

=============================================================================
