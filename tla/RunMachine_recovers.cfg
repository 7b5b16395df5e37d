SPECIFICATION FairSpec
CONSTANTS
  MaxSteps = 2
  MaxRetries = 1
  TokenBudget = 4
  Costs = {1, 2}
  MaxCrashes = 2
  MaxErrors = 0
  ClaimsPending = FALSE
PROPERTIES
  EventuallyTerminal
  FailureIsRolledBack
  SuccessIsCommitted
