SPECIFICATION FairSpec
CONSTANTS
  Devices <- AllDevices
  Scans <- ShiftingScans
  CardSensors = 2
  Callbacks = {c1}
  MaxConnects = 2
  MaxFaults = 1
  Failing = {"state", "config"}
  Forgets = {"wait"}
  Ends = FALSE
INVARIANTS
  SensorsAgree
  AnnouncedIsRetained
PROPERTIES
  DevicesAnnounced
CHECK_DEADLOCK FALSE
