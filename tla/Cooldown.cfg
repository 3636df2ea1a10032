SPECIFICATION HSpec
CONSTANTS
  MinSpeed = 10
  MaxSpeed = 100
  IdleSpeed = 20
  StepSize = 40
  CooldownDelay = 2
  CooldownDefault = 2
  CPUThreshold = 0
  GPUThreshold = 60
  CriticalCPUTemp = 85
  CriticalGPUTemp = 90
  Samples <- BelowCritical
  Sources = {s1}
  Intensities = {"low", "high"}
  OverrideSpeeds = {}
  Durations = {0, 1}
  MaxOverrideDuration = 1
  SensorFailureLimit = 2
  WriteFailureLimit = 2
  Failing = {"write"}
  Lossy = {}
PROPERTIES
  CooldownRespected
