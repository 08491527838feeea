SPECIFICATION UmTimedSpec
CONSTANTS
  AudioThreads = {t1}
  NClients = 2
  Batch = 1
  MaxFailures = 0
  ResetRaces = FALSE
  MaxLeaves = 0
PROPERTY NeverStarved
CHECK_DEADLOCK FALSE
