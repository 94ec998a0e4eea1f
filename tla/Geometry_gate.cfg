CONSTANTS
  Plain = {"a", "b"}
  Places <- MCPlaces
  Desks <- MCDesks
  Arrow = ">"
  MaxEntries = 3
  MaxHistory = 1
  HiddenNames = {".trash"}
  MaxLines = 4
  Ranks = {0, 1, 2}
  PageSize = 3
  VfsNames = {"f", "user"}
  MaxNodes = 1
  MaxTexts = 1
  MaxRestarts = 1
  MaxLaunches = 3
  Title = {t1, t2}
  NoWindow = NoWindow
  PW = 7
  PH = 5
  MinW = 3
  MinH = 3
  KeepX = 2
  KeepY = 1
  Jitter = 1
  Edge = 1
  Points <- GatePoints
  Growth <- MCGrowth
  Corners <- GateCorners
  MaxSnaps = 1
  MaxHandlers = 7
SPECIFICATION GateSpec
INVARIANT GateIsSingle
CHECK_DEADLOCK FALSE
