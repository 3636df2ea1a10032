SPECIFICATION HSpec
CONSTANTS
  MinSpeed = 10
  MaxSpeed = 100
  IdleSpeed = 20
  StepSize = 40
  CooldownDelay = 2
  CooldownDefault = 2
  CPUThreshold = 0
  GPUThreshold = 60
  CriticalCPUTemp = 85
  CriticalGPUTemp = 90
  Samples <- UpToCritical
  Sources = {}
  Intensities = {}
  OverrideSpeeds = {}
  Durations = {}
  MaxOverrideDuration = 1
  SensorFailureLimit = 2
  WriteFailureLimit = 2
  Failing = {}
  Lossy = {}
PROPERTIES
  CooldownRespected
