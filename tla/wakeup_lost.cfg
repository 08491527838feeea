SPECIFICATION FairSpec
CONSTANTS
  Conns = {a}
  None = None
  Producers = {p}
  PcmThreads = {}
  PositionFeed = FALSE
  Raises = {"dirty"}
  SelfEcho = {TRUE}
  IdMayFail = FALSE
  MayShutdown = FALSE
  MaxTabEvents = 1
  MaxBacklog = 2
  NetCap = 1
  MinSends = 1
PROPERTY WorkIsDispatched
CHECK_DEADLOCK FALSE
