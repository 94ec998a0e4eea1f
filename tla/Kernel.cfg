CONSTANTS
  Pid = {1, 2}
  NoPid = 0
  InitCores = 2
  MaxCores = 2
  CoreCounts = {1, 2}
  MaxEvents = 2
  MaxReady = 3
  Algorithms = {"PRIO", "SJF"}
  Quantum = 1
  Bursts = {0, 1}
  Budgets = {1}
  Prios = {2}
  DefaultPrio = 1
  MaxPrio = 2
  AgingThreshold = 2
  SyncSpawn = TRUE
  TickSubscribed = TRUE
  Object = {"a"}
  Function = {"f"}
  Window = {"w"}
  Emitted = {"window_focused", "drag_update"}
  MaxQueueSize = 1
  Kept = 1
  DedupMax = 1
  SweepEvery = 2
  MaxEmits = 3
  MaxSubscribes = 2
  MaxDepth = 2
  Tid = {"t1", "t2"}
  Proc = {"p1", "p2"}
  ObjectName = {"n"}
  NoTid = "none"
  Initial = 1
  QueueSize = 1
  MaxWaits = 3
  MaxObjects = 2
  MaxSent = 2
  TimerInterval = 2
  RaisedTypes = {"MEMORY_FULL"}
  MaxStarts = 2
  MaxTicks = 2
  MaxRaised = 1
SPECIFICATION MCSpec
INVARIANTS SchedulerSound CoresIndexed BusSound ObjectsSound ClockSound
CHECK_DEADLOCK FALSE
