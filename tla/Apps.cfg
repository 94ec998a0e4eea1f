CONSTANTS
  QueueCap = 1
  CommandCap = 1
  SendLimit = 0
  RateLimit = 1
  SeenCap = 2
  NonceLife = 1
  MaxSent = 3
  MaxTime = 2
  Limit = 1
  Soft = 0
  Patience = 1
  MaxRequests = 2
  MaxSeconds = 2
  MaxCalls = 5
  MaxFiles = 1
  Apps <- MCAppIcons
  Files <- MCEntries
  Folders = {"d"}
  Rows = {1, 2}
  Layouts <- MCLayouts
  Moves <- MCMoves
  Spots <- MCSpots
  MaxSteps = 3
  MaxLaunches = 2
  MaxEvents = 2
  MaxWaiting = 1
  MaxKeys = 4
  MaxBlocks = 3
  Notepads = {n1, n2}
  Texts = {f}
  MaxEdits = 2
  Tabs = {t1, t2}
  TypedLines <- MCLines
  KeptLines = 2
  Letters = {"a", "b"}
  Variables <- MCVariables
  Values <- MCValues
  Defaults <- MCDefaults
  Inherited <- MCInherited
  MaxCommands = 4
SPECIFICATION MCSpec
INVARIANTS BridgeSound SandboxSound OneEachAtMost MediatorSound EditorsSound AppsSound
CHECK_DEADLOCK FALSE
