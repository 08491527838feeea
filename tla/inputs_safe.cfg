SPECIFICATION MCSpec
CONSTANTS
  Inputs = {"config", "settings", "position", "http", "send", "heartbeat", "keys", "hud",
            "wakeup"}
  CfgThreads = {"ui", "cb", "pos"}  CfgDists = {0, 1536}
  CfgPaths = {"none", "ascii", "latin", "twin"}
  CfgMaxChanges = 2  CfgMaxKills = 1  CfgMaxErrors = 1
  Typed = {0, 30, 60}  HubLo = 2000  HubHi = 5000  ZoneDist = 9000  ServerDist = 26000
  MaxClicks = 5  SetMaxEvents = 2
  PosFresh = 1  PosHold = 1  PosStale = 2  PosGrace = 3  PosEvents = 2  PosStarts = 1
  HlSockets = {1, 2}  HlDeadline = 2  HlTransientMax = 2  HlStreakMax = 2  HlPwTtl = 1
  HlMaxClients = 2  HlMaxFaults = 2
  PsPlaces = 3  PsKeep = 3  PsMaxEvents = 3  PsMaxFaults = 1
  HbMod = 16  HbWindow = 2  HbStarts = {0, 13}  HbFloor = 2  HbMaxBeats = 5  HbMaxEvents = 2
  VkBound = TRUE  VkSuppress = 2  VkPresses = 2  VkResets = 1
  HudTickers = {"file", "http"}  HudMaxChanges = 3  HudMaxSwitches = 2
  Conns = {a, b}  None = None  Producers = {}  PcmThreads = {}  PositionFeed = FALSE
  Raises = {"chat", "dirty"}  SelfEcho = {TRUE, FALSE}  IdMayFail = FALSE  MayShutdown = TRUE
  MaxTabEvents = 3  MaxBacklog = 1  NetCap = 1  MinSends = 1
INVARIANTS
  FileIsCurrent SettingsAreStored PositionIsSafe HttpIsSafe PlaceIsSent LossesAreTrue
  KeyIsAnsweredOnce HudIsCurrent PublishedIdentity QuietAfterShutdown
CHECK_DEADLOCK FALSE
