CONSTANTS
  User = {alice, bob}
  Absent = Absent
  Idle = Idle
  MaxStores = 4
SPECIFICATION StoreSpec
INVARIANTS NoRollback
CHECK_DEADLOCK FALSE
