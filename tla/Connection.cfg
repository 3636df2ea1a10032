SPECIFICATION FairSpec
CONSTANTS
  Devices <- OneSocket
  Scans <- SocketScans
  CardSensors = 2
  Callbacks = {c1, c2}
  MaxConnects = 2
  MaxFaults = 0
  Failing = {}
  Forgets = {"wait"}
  Ends = TRUE
INVARIANTS
  BridgeTypeOK
  ConnectedMeansReady
PROPERTIES
  ConnectionSettles
  GoneMeansUnavailable
CHECK_DEADLOCK FALSE
