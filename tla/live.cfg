SPECIFICATION MCSpec
CONSTANTS
  Parts = {"lifecycle", "http", "position", "channel", "exchange", "players", "ts3d"}
  Digits = Digits  NoName = NoName
  LfMaxDialogs = 2
  PxClients = {"c1", "c2"}  RetryMax = 1  PxMaxEvents = 3  PxMaxFaults = 2
  Peers = {"p1", "p2", "p3"}  RpSlots = 2  RpBudget = 1  RpMaxPuts = 3  RpMaxEvents = 1
INVARIANTS LifecycleSafe ExchangeSafe PlayersSafe
PROPERTIES
  ShutdownEnds ExchangeEnds NobodyDisplacedEarly EverybodyServed HandedOverInTheEnd
  CoordinatesExpire ListenerLives ReachesGame
CHECK_DEADLOCK FALSE
