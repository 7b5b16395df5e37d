---------------------------- MODULE RunLifecycle ----------------------------
(***************************************************************************)
(* What a run promises to whoever submitted it, without saying how: it is  *)
(* accepted, a plan of some size is fixed once, the steps are verified in  *)
(* order, and the run ends completed with every step verified, or failed   *)
(* and then rolled back.  It never moves backwards, except that the newest *)
(* verified step may be checked again after a crash and fail.              *)
(***************************************************************************)
EXTENDS Integers

CONSTANT MaxSteps

VARIABLES
  phase,    \* where the run is
  size,     \* the number of steps of the plan, 0 while there is none
  verified  \* the steps whose checks passed

lifecycleVars == << phase, size, verified >>

Init == phase = "accepted" /\ size = 0 /\ verified = {}

StartPlanning ==
  /\ phase = "accepted" /\ phase' = "planning"
  /\ UNCHANGED << size, verified >>

FixPlan ==
  /\ phase = "planning" /\ phase' = "working"
  /\ size' \in 1 .. MaxSteps
  /\ UNCHANGED verified

VerifyNext ==
  /\ phase = "working"
  /\ \E i \in 0 .. size - 1 : /\ verified = 0 .. i - 1
                              /\ verified' = 0 .. i
  /\ UNCHANGED << phase, size >>

ReopenNewest ==
  /\ phase = "working"
  /\ \E i \in 0 .. size - 1 : /\ verified = 0 .. i
                              /\ verified' = 0 .. i - 1
  /\ UNCHANGED << phase, size >>

Complete ==
  /\ phase = "working" /\ verified = 0 .. size - 1
  /\ phase' = "completed"
  /\ UNCHANGED << size, verified >>

Fail ==
  /\ phase = "working" /\ phase' = "failed"
  /\ UNCHANGED << size, verified >>

RollBack ==
  /\ phase = "failed" /\ phase' = "rolled_back"
  /\ UNCHANGED << size, verified >>

Next ==
  \/ StartPlanning \/ FixPlan \/ VerifyNext \/ ReopenNewest
  \/ Complete \/ Fail \/ RollBack

Spec == Init /\ [][Next]_lifecycleVars

=============================================================================
