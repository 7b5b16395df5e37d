SPECIFICATION FairSpec
CONSTANTS
  MaxSteps = 2
  MaxRetries = 1
  TokenBudget = 4
  Costs = {1}
  MaxCrashes = 0
  MaxErrors = 0
  ClaimsPending = TRUE
PROPERTY ClaimedRunIsDriven
