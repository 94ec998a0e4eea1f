CONSTANTS
  Pid = {1, 2}
  NoPid = 0
  InitCores = 2
  MaxCores = 2
  CoreCounts = {}
  MaxEvents = 2
  MaxReady = 3
  Algorithms = {"RR"}
  Quantum = 2
  Bursts = {0, 1}
  Budgets = {0, 1}
  Prios = {1}
  DefaultPrio = 1
  MaxPrio = 1
  AgingThreshold = 1
  SyncSpawn = TRUE
  TickSubscribed = FALSE
SPECIFICATION SettledSpec
PROPERTY ReadyRuns
CHECK_DEADLOCK FALSE
