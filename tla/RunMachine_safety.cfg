SPECIFICATION Spec
CONSTANTS
  MaxSteps = 3
  MaxRetries = 2
  TokenBudget = 5
  Costs = {1, 2}
  MaxCrashes = 1
  MaxErrors = 1
  ClaimsPending = TRUE
INVARIANTS
  TypeOK
  TransitionsAllowed
  CachedPlanHasItsRows
  StepsBeforeCurrentAreCompleted
  CompletedMeansVerified
  VerifiedWithinBudget
  RetryBudget
  AttemptsAreCharged
  RetrySeesError
  TokensMatchSpans
  RolledBackTreeIsClean
  NothingIsSpentUnprepared
  UnbrokenRunHasEveryPatch
PROPERTIES
  PlanIsFinal
  KeepsLifecycle
