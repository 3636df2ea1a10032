SPECIFICATION FairSpec
CONSTANTS
  MinSpeed = 10
  MaxSpeed = 100
  IdleSpeed = 20
  StepSize = 40
  CooldownDelay = 0
  CooldownDefault = 2
  CPUThreshold = 0
  GPUThreshold = 60
  CriticalCPUTemp = 85
  CriticalGPUTemp = 90
  Samples <- LossSamples
  Sources = {}
  Intensities = {}
  OverrideSpeeds = {60}
  Durations = {0}
  MaxOverrideDuration = 2
  SensorFailureLimit = 2
  WriteFailureLimit = 2
  Failing = {"start", "reclaim", "write", "restore"}
  Lossy = {"start", "write", "restore"}
PROPERTIES
  OverrideTakesEffect
  OverrideExpires
  CurveSettles
  ImplementsHandBack
  SensorLossEndsInAuto
