CONSTANTS
  MaxStarts = 2
  User = {admin, guest}
  Admin = admin
  admin = admin
  guest = guest
  Password = {p1, p2}
  p1 = p1
  p2 = p2
  First = p1
  NoOne = NoOne
  None = None
  MaxSessions = 2
  FailLimit = 2
  BurstLimit = 1
  Threshold = 40
  Plans = {1, 2}
  Length = 2
  MaxUndo = 2
  MaxActs = 2
SPECIFICATION MCSpec
INVARIANTS RunningIsWatched StoppedHasNoEngine FrontSound PlansSound
PROPERTIES CrashNoticed FirstBootGuarded NeverStranded LockHolds AnswerComes
CHECK_DEADLOCK FALSE
