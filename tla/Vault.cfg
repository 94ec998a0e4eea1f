CONSTANTS
  alice = alice
  bob = bob
  User = {alice, bob}
  MaxPerUser = 2
  MaxLogins = 3
  Absent = Absent
  Idle = Idle
  MaxStores = 4
  MaxCalls = 4
  MaxLines = 4
SPECIFICATION MCSpec
INVARIANTS EngineSound LogoutIsFinal KeysAccountedFor AckedStoresSurvive NeverOwnRollback
PROPERTIES ExpiredKeysDie
CHECK_DEADLOCK FALSE
