---------------------------- MODULE TargetSpeed ----------------------------
(***************************************************************************)
(* The fan-speed policy: what FanController.calculateTarget computes from  *)
(* one pair of temperature readings, the speed last written, the time      *)
(* since a threshold was last exceeded, the manual override and the        *)
(* workload hints.  Pure operators over the operator's configuration; the  *)
(* controller that applies them is module FanControl.                      *)
(*                                                                         *)
(* Temperatures are whole degrees, speeds are percentages, and times are   *)
(* counted in clock units of whatever length the configuration uses.       *)
(***************************************************************************)
EXTENDS Integers

CONSTANTS
  MinSpeed, MaxSpeed,               \* fan_control.min_speed, max_speed
  IdleSpeed, StepSize,              \* 0 selects the built-in default
  CooldownDelay,                    \* 0 selects CooldownDefault
  CooldownDefault,                  \* 60 s, in clock units
  CPUThreshold, GPUThreshold,       \* 0 or less selects the default
  CriticalCPUTemp, CriticalGPUTemp,
  MaxOverrideDuration               \* 24 h, in clock units

EffectiveThreshold(configured, default) ==
  IF configured > 0 THEN configured ELSE default

EffectiveCPUThreshold == EffectiveThreshold(CPUThreshold, 65)
EffectiveGPUThreshold == EffectiveThreshold(GPUThreshold, 60)

(***************************************************************************)
(* What config.Validate guarantees of the numbers the policy uses.  The    *)
(* idle speed, the step and the cooldown are not validated by the code and *)
(* may be any integer.                                                     *)
(***************************************************************************)
ValidConfig ==
  /\ 0 <= MinSpeed /\ MinSpeed <= MaxSpeed /\ MaxSpeed <= 100
  /\ {CriticalCPUTemp, CriticalGPUTemp} \subseteq 40 .. 120
  /\ CriticalCPUTemp > EffectiveCPUThreshold
  /\ CriticalGPUTemp > EffectiveGPUThreshold

ASSUME ConfigAssumption ==
  /\ {MinSpeed, MaxSpeed, IdleSpeed, StepSize, CooldownDelay} \subseteq Int
  /\ {CPUThreshold, GPUThreshold} \subseteq Int
  /\ CooldownDefault \in Nat \ {0}
  /\ MaxOverrideDuration \in Nat \ {0}
  /\ ValidConfig

Smaller(a, b) == IF a < b THEN a ELSE b
Larger(a, b)  == IF a > b THEN a ELSE b

Base     == IF IdleSpeed = 0 THEN 20 ELSE IdleSpeed
Step     == IF StepSize = 0 THEN 10 ELSE StepSize
Cooldown == IF CooldownDelay = 0 THEN CooldownDefault ELSE CooldownDelay

\* Seeded bug: the lower bound of the band is forgotten.
ClampSpeedAboveOnly(speed) == Smaller(MaxSpeed, speed)

\* clampSpeed: the band every override and every curve target is held to.
ClampSpeed(speed) == Larger(MinSpeed, Smaller(MaxSpeed, speed))

\* Seeded bug: only an over-long lifetime is capped.
OverrideLifeCapped(d) ==
  IF d > MaxOverrideDuration THEN MaxOverrideDuration ELSE d

\* Indefinite and over-long overrides last MaxOverrideDuration.
OverrideLife(d) ==
  IF d <= 0 \/ d > MaxOverrideDuration THEN MaxOverrideDuration ELSE d

-----------------------------------------------------------------------------
(***************************************************************************)
(* Classification of a reading [cpu |-> hottest CPU, gpu |-> hottest GPU]. *)
(***************************************************************************)
IsCritical(r) == r.cpu >= CriticalCPUTemp \/ r.gpu >= CriticalGPUTemp

OverThreshold(r) ==
  r.cpu > EffectiveCPUThreshold \/ r.gpu > EffectiveGPUThreshold

\* How many degrees the worse of the two sensors is above its threshold.
Excess(r) ==
  Larger(Larger(0, r.cpu - EffectiveCPUThreshold),
         Larger(0, r.gpu - EffectiveGPUThreshold))

(***************************************************************************)
(* The age of the last reading over a threshold: Never before the first    *)
(* (the zero time of lastOverThreshold), and otherwise a number of clock   *)
(* units.  Ages past Cooldown are all alike, so they stop there.           *)
(***************************************************************************)
Never == -1

NextAge(age) == IF age \in 0 .. Cooldown THEN age + 1 ELSE age

\* Seeded bug: the cooldown ends one unit early.
CooledDownEarly(age) == age >= Cooldown

CooledDown(age) == age > Cooldown

-----------------------------------------------------------------------------
\* The emergency speed: a fixed ceiling, 100 when max_speed is unusable.
EmergencySpeed == IF MaxSpeed <= 0 \/ MaxSpeed > 100 THEN 100 ELSE MaxSpeed

\* One step above the base for each 5 degrees, or part of 5, over.
NeededSpeed(r) == Base + (Excess(r) \div 5 + 1) * Step

RampUp(r, speed) ==
  IF NeededSpeed(r) > speed THEN Smaller(speed + Step, NeededSpeed(r))
                            ELSE speed

RampDown(speed) == IF speed > Base THEN Larger(speed - Step, Base) ELSE Base

\* The threshold curve with hysteresis: up at once, down after the cooldown.
CurveTarget(r, speed, age) ==
  IF OverThreshold(r) THEN RampUp(r, speed)
  ELSE IF age = Never THEN Base
  ELSE IF CooledDown(age) THEN RampDown(speed)
  ELSE speed

(***************************************************************************)
(* Workload hints set a floor under the curve; AddHint derives the floor   *)
(* of a hint from its intensity.  The largest floor wins.                  *)
(***************************************************************************)
HintMinSpeed(intensity) ==
  CASE intensity = "high"   -> 45
    [] intensity = "medium" -> 25
    [] intensity = "low"    -> 15
    [] OTHER                -> 25

HintFloor(hints) ==
  LET floors == {0} \cup {h.min : h \in hints}
  IN  CHOOSE f \in floors : \A g \in floors : g <= f

AutoTarget(r, speed, age, hints) ==
  ClampSpeed(Larger(CurveTarget(r, speed, age), HintFloor(hints)))

(***************************************************************************)
(* calculateTarget.  A critical reading wins over the override, and the    *)
(* override over the curve.  Only the curve notes that a threshold was     *)
(* exceeded: the two other branches return first.                          *)
(***************************************************************************)
UsesCurve(r, overrides) == ~IsCritical(r) /\ overrides = {}

\* Seeded bug: the override is looked at before the critical temperatures.
OverrideBeforeCritical(r, speed, age, overrides, hints) ==
  IF overrides # {} THEN ClampSpeed((CHOOSE o \in overrides : TRUE).speed)
  ELSE IF IsCritical(r) THEN EmergencySpeed
  ELSE AutoTarget(r, speed, age, hints)

\* Seeded bug: the override is one more floor under the curve.
OverrideAsFloor(r, speed, age, overrides, hints) ==
  IF IsCritical(r) THEN EmergencySpeed
  ELSE IF overrides # {}
       THEN Larger(AutoTarget(r, speed, age, hints),
                   ClampSpeed((CHOOSE o \in overrides : TRUE).speed))
  ELSE AutoTarget(r, speed, age, hints)

CalculateTarget(r, speed, age, overrides, hints) ==
  IF IsCritical(r) THEN EmergencySpeed
  ELSE IF overrides # {} THEN ClampSpeed((CHOOSE o \in overrides : TRUE).speed)
  ELSE AutoTarget(r, speed, age, hints)

\* Seeded bug: every pass restarts the cooldown.
CooldownRestarted(r, age, overrides) ==
  IF UsesCurve(r, overrides) THEN 0 ELSE age

LastOverThreshold(r, age, overrides) ==
  IF UsesCurve(r, overrides) /\ OverThreshold(r) THEN 0 ELSE age
=============================================================================
