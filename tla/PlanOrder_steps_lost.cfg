SPECIFICATION Spec
CONSTANTS
  a = a
  b = b
  c = c
  d = d
  Files = {a, b}
  Plans <- MCTwoSteps
INVARIANT EveryStepIsStored
CHECK_DEADLOCK FALSE
