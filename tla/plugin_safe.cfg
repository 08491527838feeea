SPECIFICATION MCSpec
CONSTANTS
  Parts = {"profile", "hub", "library", "block", "cave", "versions",
           "channel", "nick"}
  Speakers = {c1, c2, c3}  None = None  NSlots = 2  MaxEpoch = 2
  VmSlots = 4  VmClients = {1, 2, 5, 6, 9}  VmIdentities = {u, v}
  Tabs = {"a", "b"}  Offline = Offline  StatusFirst = FALSE  MaxTabMoves = 3
  Descriptions = {"a", "b", "junk"}  Valid = {"a", "b"}
  RacesOf <- TwoRaces  LocalRace <- OrcOrElf  MaxEdits = 3  MaxLost = 0
  HdMaxEntries = 1  HdRanges = {1, 2}  HdDistMax = 5  HdMaxLines = 5  LsLibraries = 2
  Digits = Digits  NoName = NoName
  AutoMove = TRUE  Muting = TRUE  ForceSpeakers = TRUE  Arrive = {"root", "ingame"}
  PositionFeed = FALSE  RcSlots = 8  MaxEvents = 2  MaxFaults = 2
  Handlers = {"tab1", "tab2"}  Servers = {"s1", "s2"}  MaxConnects = 4
INVARIANTS ReadAsWritten BothFindTheGame ProfileIsCurrent NoOldTarget TableIsMap PoolConsistent
  NamesAreSafe NoForeignName
PROPERTIES NoForeignEcho NameBackOutside
CHECK_DEADLOCK FALSE
