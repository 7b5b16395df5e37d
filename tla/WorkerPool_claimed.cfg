SPECIFICATION Spec
CONSTANTS
  Workers = {w1, w2}
  Threads = {t1}
  Runs = {r1}
  Queue = "db"
  PoolIsUp = FALSE
  Steps = 2
  MaxRetries = 1
  MaxKills = 1
  MaxApiKills = 1
  MaxErrors = 1
  MaxResumes = 1
INVARIANT ClaimedAtMostOnce
CHECK_DEADLOCK FALSE
