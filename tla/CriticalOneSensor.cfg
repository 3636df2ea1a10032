SPECIFICATION Spec
CONSTANTS
  MinSpeed = 10
  MaxSpeed = 100
  IdleSpeed = 20
  StepSize = 40
  CooldownDelay = 1
  CooldownDefault = 2
  CPUThreshold = 0
  GPUThreshold = 60
  CriticalCPUTemp = 85
  CriticalGPUTemp = 90
  Samples <- AllSamples
  Sources = {}
  Intensities = {}
  OverrideSpeeds = {}
  Durations = {}
  MaxOverrideDuration = 1
  SensorFailureLimit = 2
  WriteFailureLimit = 2
  Failing = {}
  Lossy = {}
INVARIANTS
  CriticalRamps
