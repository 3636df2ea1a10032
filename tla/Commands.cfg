SPECIFICATION Spec
CONSTANTS
  CooldownDefault = 60
  MaxOverrideDuration = 16
  Launches <- SomeLaunches
  Addresses <- SomeAddresses
  Reachable <- TheBroker
  Clients <- AllClients
  Second = 4
  HalfRange = 128
  Speeds <- SmallSpeeds
  Seconds <- EdgeSeconds
  Names = {"plex", "<b>"}
  WellFormed = {"plex"}
  Actions = {"start", "stop"}
  Intensities = {"high"}
  MaxSent = 1
  MaxConnects = 2
INVARIANTS
  RequestsBounded
  NothingReplayed
  EmergencyArmed
  BrokerReached
