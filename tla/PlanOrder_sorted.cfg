SPECIFICATION Spec
CONSTANTS
  a = a
  b = b
  c = c
  d = d
  Files = {a, b, c, d}
  Plans <- MCPlans
INVARIANTS
  TypeOK
  DistinctPlanIsStored
  DependenciesFirst
  PlanBreaksTies
  EveryFileIsPlaced
CHECK_DEADLOCK FALSE
