SPECIFICATION Spec
CONSTANTS
  MaxSteps = 2
  MaxRetries = 1
  TokenBudget = 4
  Costs = {1}
  MaxCrashes = 1
  MaxErrors = 0
  ClaimsPending = FALSE
INVARIANT CompletedRunHasEveryPatch
