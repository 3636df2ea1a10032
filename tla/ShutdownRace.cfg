SPECIFICATION LSpec
CONSTANTS
  MinSpeed = 10
  MaxSpeed = 100
  IdleSpeed = 20
  StepSize = 40
  CooldownDelay = 1
  CooldownDefault = 2
  CPUThreshold = 0
  GPUThreshold = 60
  CriticalCPUTemp = 85
  CriticalGPUTemp = 90
  Samples <- HealthySamples
  Sources = {}
  Intensities = {}
  OverrideSpeeds = {}
  Durations = {}
  MaxOverrideDuration = 1
  SensorFailureLimit = 2
  WriteFailureLimit = 2
  Failing = {}
  Lossy = {}
  Panics = FALSE
  ApiFails = TRUE
  Orphans = FALSE
  Kills = FALSE
  Refusals = FALSE
INVARIANTS
  ExitIsAuto
CHECK_DEADLOCK FALSE
