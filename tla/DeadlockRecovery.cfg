CONSTANTS
  Pid = {1, 2, 3}
  Rid = {1, 2}
  Total <- UnitsByNumber
  Prio = {5}
  DefaultPrio = 5
  Reentrant = FALSE
SPECIFICATION RSpec
INVARIANT GoneHoldNothing
PROPERTIES ImplementsFifo DeadlocksEnd
