SPECIFICATION Spec
CONSTANTS
  Devices <- OneSocket
  Scans <- SocketScans
  CardSensors = 2
  Callbacks = {c1}
  MaxConnects = 1
  MaxFaults = 0
  Failing = {}
  Forgets = {}
  Ends = TRUE
INVARIANTS
  StoppedMeansOffline
CHECK_DEADLOCK FALSE
