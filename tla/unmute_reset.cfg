SPECIFICATION UmSpec
CONSTANTS
  AudioThreads = {t1}
  NClients = 2
  Batch = 2
  MaxFailures = 0
  ResetRaces = TRUE
  MaxLeaves = 0
INVARIANT FlagIsFound
CHECK_DEADLOCK FALSE
