SPECIFICATION MCSpec
CONSTANTS
  Parts = {"snap", "unmute", "ring", "worker", "wakeup"}
  w1 = w1  w2 = w2  r1 = r1
  Writers = {w1, w2}  Readers = {r1}
  Fields <- MCFields  Targets <- MCTargets  Zero <- MCZero
  Busy = Busy  NoResult = NoResult  Nobody = Nobody  Attempts = 3  MaxSeq = 8
  AudioThreads = {t1}  NClients = 3  Batch = 2
  MaxFailures = 1  ResetRaces = FALSE  MaxLeaves = 2
  CrCapacity = 2  CrProducers = {"ui", "cb"}  CrMaxPuts = 6
  Conns = {a}  None = None  Producers = {p}  PcmThreads = {}  PositionFeed = TRUE
  Raises = {"chat"}  SelfEcho = {TRUE, FALSE}  IdMayFail = FALSE  MayShutdown = TRUE
  MaxTabEvents = 1  MaxBacklog = 1  NetCap = 1  MinSends = 1
INVARIANTS WakeNotForgotten CounterMatches RingIsSafe OneOwner
PROPERTIES ImplementsRegister ReadReturns EveryFlagServed WorkIsDispatched StopEndsThread
CHECK_DEADLOCK FALSE
