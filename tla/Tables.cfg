CONSTANTS
  r1 = r1
  r2 = r2
  Pid = {p1, p2, p3}
  Rid = {r1, r2}
  Total <- MCTotal
  Prio = {5, 7}
  DefaultPrio = 5
  Reentrant = TRUE
  N = 4
  q1 = q1
  q2 = q2
  Owner = {q1, q2}
  NoPid = NoPid
  Ram = 8
  Sizes = {1, 2}
  Policies = {"FIRST_FIT", "BEST_FIT", "WORST_FIT"}
  Proc = {1, 2, 3}
  Scheduled = {1, 2}
  Tasks <- MCTasks
  Cores = 2
  MaxRows = 2
  MaxTicks = 2
  MaxEvents = 3
SPECIFICATION MCSpec
SYMMETRY Symmetry
INVARIANTS TableSound NoIdleUnit ViewsAgree PartsSound
PROPERTIES NoOvertaking UnitsAccountedFor ImplementsLedger
CHECK_DEADLOCK FALSE
