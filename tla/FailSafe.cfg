SPECIFICATION SSpec
CONSTANTS
  MinSpeed = 10
  MaxSpeed = 100
  IdleSpeed = 20
  StepSize = 40
  CooldownDelay = 1
  CooldownDefault = 1
  CPUThreshold = 0
  GPUThreshold = 60
  CriticalCPUTemp = 85
  CriticalGPUTemp = 90
  Samples <- SomeSamples
  Outputs <- SomeOutputs
  CPUOutputs <- SomeCPUOutputs
  GPUOutputs <- SomeGPUOutputs
  GPUEnabled = TRUE
  Sources = {s1}
  Intensities = {"high"}
  OverrideSpeeds = {0}
  Durations = {1}
  MaxOverrideDuration = 1
  SensorFailureLimit = 2
  WriteFailureLimit = 2
  Failing = {"start", "reclaim", "write", "restore"}
  Lossy = {"start", "write", "restore"}
INVARIANTS
  TypeOK
  HandedBackMeansAuto
  CriticalIsAnswered
  ReportedSpeedIsReal
  PrintedCriticalIsAnswered
PROPERTIES
  ManualOnlyWhenCoherent
  FansHeldWithoutReadings
  BlindPassHoldsFans
