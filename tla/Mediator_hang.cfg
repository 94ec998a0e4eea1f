CONSTANTS
  MaxLaunches = 1
  MaxEvents = 1
  MaxWaiting = 1
SPECIFICATION MediatorLive
PROPERTIES ChecksEnd
CHECK_DEADLOCK FALSE
