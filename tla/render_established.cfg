SPECIFICATION Spec
CONSTANTS
  Tabs = {a, b}
  Offline = Offline
  StatusFirst = TRUE
  MaxTabMoves = 4
INVARIANT NoOldTarget
CHECK_DEADLOCK FALSE
