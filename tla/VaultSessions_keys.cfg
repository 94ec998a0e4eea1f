CONSTANTS
  User = {alice, bob}
  Absent = Absent
  MaxPerUser = 2
  MaxLogins = 4
SPECIFICATION Spec
PROPERTIES KeysDieWithSessions
CHECK_DEADLOCK FALSE
