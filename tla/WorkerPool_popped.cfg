SPECIFICATION FairSpec
CONSTANTS
  Workers = {w1, w2}
  Threads = {}
  Runs = {r1, r2}
  Queue = "redis"
  PoolIsUp = TRUE
  Steps = 1
  MaxRetries = 0
  MaxKills = 1
  MaxApiKills = 0
  MaxErrors = 0
  MaxResumes = 1
INVARIANTS
  TypeOK
  OneDriverPerRun
PROPERTIES
  RowsMoveLegally
  NoRunStranded
CHECK_DEADLOCK FALSE
