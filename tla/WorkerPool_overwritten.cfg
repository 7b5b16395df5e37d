SPECIFICATION Spec
CONSTANTS
  Workers = {w1, w2}
  Threads = {}
  Runs = {r1}
  Queue = "redis"
  PoolIsUp = TRUE
  Steps = 2
  MaxRetries = 1
  MaxKills = 1
  MaxApiKills = 0
  MaxErrors = 0
  MaxResumes = 0
PROPERTY NoIllegalJump
CHECK_DEADLOCK FALSE
