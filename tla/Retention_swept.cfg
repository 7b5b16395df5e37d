SPECIFICATION FairSpec
CONSTANTS
  Runs = {r1}
  Sweepers = {s1, s2}
  Elsewhere = {s2}
  MaxAge = 1
  MaxMishaps = 1
  MaxWrites = 1
INVARIANTS
  TypeOK
  LiveRunsStayResumable
PROPERTY NothingLivesForever
CHECK_DEADLOCK FALSE
