------------------------- MODULE TargetSpeedProofs -------------------------
(***************************************************************************)
(* Facts about the fan-speed policy that hold for every configuration that *)
(* config.Validate accepts, with any idle speed, step and cooldown.        *)
(***************************************************************************)
EXTENDS TargetSpeed, TLAPS

Temps == [cpu : Int, gpu : Int]

\* What the controller keeps of a hint, as far as its floor goes.
Floors(hs) == {h.min : h \in hs}

USE ConfigAssumption DEF ValidConfig

LEMMA ConfigTypes ==
  /\ EffectiveCPUThreshold \in Int /\ EffectiveGPUThreshold \in Int
  /\ Base \in Int /\ Step \in Int /\ Cooldown \in Int
  /\ CriticalCPUTemp \in Int /\ CriticalGPUTemp \in Int
BY DEF EffectiveCPUThreshold, EffectiveGPUThreshold, EffectiveThreshold,
       Base, Step, Cooldown

\* clampSpeed holds every integer to the configured band.
LEMMA ClampInBand ==
  ASSUME NEW s \in Int
  PROVE  ClampSpeed(s) \in MinSpeed .. MaxSpeed
BY DEF ClampSpeed, Larger, Smaller

\* ... and changes no speed that is already inside it.
LEMMA ClampIsIdentityInBand ==
  ASSUME NEW s \in MinSpeed .. MaxSpeed
  PROVE  ClampSpeed(s) = s
BY DEF ClampSpeed, Larger, Smaller

LEMMA ExcessIsNatural ==
  ASSUME NEW r \in Temps
  PROVE  Excess(r) \in Nat
<1>1. r.cpu \in Int /\ r.gpu \in Int
  BY DEF Temps
<1>2. QED
  BY <1>1, ConfigTypes DEF Excess, Larger

LEMMA NeededSpeedIsInteger ==
  ASSUME NEW r \in Temps
  PROVE  NeededSpeed(r) \in Int
<1>1. Excess(r) \in Nat
  BY ExcessIsNatural
<1>2. Excess(r) \div 5 \in Int
  BY <1>1
<1>3. QED
  BY <1>2, ConfigTypes DEF NeededSpeed

LEMMA CurveTargetIsInteger ==
  ASSUME NEW r \in Temps, NEW speed \in Int, NEW age \in Int
  PROVE  CurveTarget(r, speed, age) \in Int
<1>1. RampUp(r, speed) \in Int
  BY NeededSpeedIsInteger, ConfigTypes DEF RampUp, Smaller
<1>2. RampDown(speed) \in Int
  BY ConfigTypes DEF RampDown, Larger
<1>3. QED
  BY <1>1, <1>2, ConfigTypes DEF CurveTarget

\* The floor is 0 or the floor of one of the hints, and no hint is above it.
LEMMA HintFloorIsLargest ==
  ASSUME NEW hs, Floors(hs) \subseteq {15, 25, 45}
  PROVE  /\ HintFloor(hs) \in {0} \cup Floors(hs)
         /\ \A h \in hs : h.min <= HintFloor(hs)
         /\ HintFloor(hs) \in Int
<1> DEFINE floors == {0} \cup Floors(hs)
<1>1. \E f \in floors : \A g \in floors : g <= f
  <2>1. floors \subseteq {0, 15, 25, 45} /\ 0 \in floors
    OBVIOUS
  <2>2. CASE 45 \in floors
    BY <2>1, <2>2
  <2>3. CASE 45 \notin floors /\ 25 \in floors
    BY <2>1, <2>3
  <2>4. CASE 45 \notin floors /\ 25 \notin floors /\ 15 \in floors
    BY <2>1, <2>4
  <2>5. CASE 45 \notin floors /\ 25 \notin floors /\ 15 \notin floors
    BY <2>1, <2>5
  <2>6. QED
    BY <2>2, <2>3, <2>4, <2>5
<1>2. HintFloor(hs) = CHOOSE f \in floors : \A g \in floors : g <= f
  BY DEF HintFloor, Floors
<1>3. /\ HintFloor(hs) \in floors
      /\ \A g \in floors : g <= HintFloor(hs)
  BY <1>1, <1>2
<1>4. HintFloor(hs) \in Int
  BY <1>3
<1>5. \A h \in hs : h.min \in floors
  BY DEF Floors
<1>6. QED
  BY <1>3, <1>4, <1>5

\* Whatever the curve, the hints or the override ask for, calculateTarget
\* returns a speed inside the configured band, or the emergency speed; and a
\* critical reading always gets the latter.
THEOREM TargetInBand ==
  ASSUME NEW r \in Temps, NEW speed \in Int, NEW age \in Int,
         NEW os, os \subseteq [speed : Int, left : Int],
         NEW hs, Floors(hs) \subseteq {15, 25, 45}
  PROVE  /\ IsCritical(r) =>
              CalculateTarget(r, speed, age, os, hs) = EmergencySpeed
         /\ ~IsCritical(r) =>
              CalculateTarget(r, speed, age, os, hs) \in MinSpeed .. MaxSpeed
<1>1. CASE IsCritical(r)
  BY <1>1 DEF CalculateTarget
<1>2. CASE ~IsCritical(r) /\ os # {}
  <2>1. PICK o \in os : o = CHOOSE x \in os : TRUE
    BY <1>2
  <2>2. o.speed \in Int
    BY <2>1
  <2>3. CalculateTarget(r, speed, age, os, hs) = ClampSpeed(o.speed)
    BY <1>2, <2>1 DEF CalculateTarget
  <2>4. QED
    BY <1>2, <2>2, <2>3, ClampInBand
<1>3. CASE ~IsCritical(r) /\ os = {}
  <2>1. Larger(CurveTarget(r, speed, age), HintFloor(hs)) \in Int
    BY CurveTargetIsInteger, HintFloorIsLargest DEF Larger
  <2>2. CalculateTarget(r, speed, age, os, hs)
          = ClampSpeed(Larger(CurveTarget(r, speed, age), HintFloor(hs)))
    BY <1>3 DEF CalculateTarget, AutoTarget
  <2>3. QED
    BY <1>3, <2>1, <2>2, ClampInBand
<1>4. QED
  BY <1>1, <1>2, <1>3

-----------------------------------------------------------------------------
(***************************************************************************)
(* The policy from one pass to the next, and from one reading to another.  *)
(* The step is not validated: the facts that need fans to be driven up by  *)
(* it say so.                                                              *)
(***************************************************************************)
LEMMA AutomaticTarget ==
  ASSUME NEW r \in Temps, NEW speed \in Int, NEW age \in Int, NEW hs,
         ~IsCritical(r)
  PROVE  CalculateTarget(r, speed, age, {}, hs)
           = ClampSpeed(Larger(CurveTarget(r, speed, age), HintFloor(hs)))
BY DEF CalculateTarget, AutoTarget

\* clampSpeed keeps the order of speeds, and Larger that of its arguments.
LEMMA ClampIsMonotonic ==
  ASSUME NEW a \in Int, NEW b \in Int, a <= b
  PROVE  ClampSpeed(a) <= ClampSpeed(b)
BY DEF ClampSpeed, Larger, Smaller

LEMMA FloorIsMonotonic ==
  ASSUME NEW a \in Int, NEW b \in Int, a <= b, NEW f \in Int
  PROVE  /\ Larger(a, f) <= Larger(b, f)
         /\ Larger(a, f) \in Int /\ Larger(b, f) \in Int
BY DEF Larger

LEMMA NeededIsMonotonic ==
  ASSUME NEW r \in Temps, NEW q \in Temps,
         r.cpu <= q.cpu, r.gpu <= q.gpu, Step > 0
  PROVE  /\ NeededSpeed(r) <= NeededSpeed(q)
         /\ OverThreshold(r) => OverThreshold(q)
         /\ NeededSpeed(q) >= Base + Step
<1>1. {r.cpu, r.gpu, q.cpu, q.gpu} \subseteq Int
  BY DEF Temps
<1>2. Excess(r) <= Excess(q)
  BY <1>1, ConfigTypes DEF Excess, Larger
<1>3. Excess(r) \in Nat /\ Excess(q) \in Nat
  BY ExcessIsNatural
<1>4. \A a, b \in Nat :
        a <= b => a \div 5 <= b \div 5 /\ {a \div 5, b \div 5} \subseteq Nat
  OBVIOUS
<1>5. \A s \in Int, m, n \in Nat :
        s > 0 /\ m <= n => (m + 1) * s <= (n + 1) * s /\ (n + 1) * s >= s
  OBVIOUS
<1>6. OverThreshold(r) => OverThreshold(q)
  BY <1>1, ConfigTypes DEF OverThreshold
<1> DEFINE m == Excess(r) \div 5
           n == Excess(q) \div 5
<1>7. m \in Nat /\ n \in Nat /\ m <= n
  BY <1>2, <1>3, <1>4
<1>8. (m + 1) * Step <= (n + 1) * Step /\ (n + 1) * Step >= Step
  BY <1>5, <1>7, ConfigTypes
<1>9. /\ NeededSpeed(r) = Base + (m + 1) * Step
      /\ NeededSpeed(q) = Base + (n + 1) * Step
  BY DEF NeededSpeed
<1>10. (m + 1) * Step \in Int /\ (n + 1) * Step \in Int
  BY <1>7, ConfigTypes
<1> HIDE DEF m, n
<1>11. QED
  BY <1>6, <1>8, <1>9, <1>10, ConfigTypes

\* README.md, "How It Works": over a threshold "fans increase".  A reading
\* over a threshold never gets the fans less speed than they have.
THEOREM HeatNeverSlows ==
  ASSUME NEW r \in Temps, OverThreshold(r), ~IsCritical(r), Step > 0,
         NEW speed \in Int, speed <= MaxSpeed, NEW age \in Int,
         NEW hs, Floors(hs) \subseteq {15, 25, 45}
  PROVE  CalculateTarget(r, speed, age, {}, hs) >= speed
<1> DEFINE c == CurveTarget(r, speed, age)
<1>1. c \in Int /\ c >= speed
  BY NeededSpeedIsInteger, ConfigTypes DEF CurveTarget, RampUp, Smaller
<1>2. HintFloor(hs) \in Int
  BY HintFloorIsLargest
<1> HIDE DEF c
<1>3. Larger(c, HintFloor(hs)) \in Int /\ Larger(c, HintFloor(hs)) >= speed
  BY <1>1, <1>2 DEF Larger
<1>4. ClampSpeed(Larger(c, HintFloor(hs))) >= speed
  BY <1>3 DEF ClampSpeed, Larger, Smaller
<1>5. QED
  BY <1>4, AutomaticTarget DEF c

\* A reading that is nowhere cooler gets no less speed, whatever override and
\* hints are in force: across the thresholds, the cooldown and the critical
\* temperatures.  Fans that stand more than a step below the base are the
\* exception: a cool reading takes them to the base at once, one over a
\* threshold only a step up.
THEOREM HotterIsNoSlower ==
  ASSUME NEW r \in Temps, NEW q \in Temps, r.cpu <= q.cpu, r.gpu <= q.gpu,
         Step > 0,
         NEW speed \in Int, speed + Step >= Base, NEW age \in Int,
         NEW os, os \subseteq [speed : Int, left : Int],
         NEW hs, Floors(hs) \subseteq {15, 25, 45}
  PROVE  CalculateTarget(r, speed, age, os, hs)
           <= CalculateTarget(q, speed, age, os, hs)
<1>1. IsCritical(r) => IsCritical(q)
  BY ConfigTypes DEF IsCritical, Temps
<1>2. CASE IsCritical(q)
  <2>1. EmergencySpeed \in Int /\ EmergencySpeed >= MaxSpeed
    BY DEF EmergencySpeed
  <2>2. CalculateTarget(q, speed, age, os, hs) = EmergencySpeed
    BY <1>2, TargetInBand
  <2>3. \/ CalculateTarget(r, speed, age, os, hs) = EmergencySpeed
        \/ CalculateTarget(r, speed, age, os, hs) \in MinSpeed .. MaxSpeed
    BY TargetInBand
  <2>4. QED
    BY <2>1, <2>2, <2>3
<1>3. CASE ~IsCritical(q) /\ os # {}
  <2>1. CalculateTarget(r, speed, age, os, hs)
          = CalculateTarget(q, speed, age, os, hs)
    BY <1>1, <1>3 DEF CalculateTarget
  <2>2. CalculateTarget(q, speed, age, os, hs) \in MinSpeed .. MaxSpeed
    BY <1>3, TargetInBand
  <2>3. QED
    BY <2>1, <2>2
<1>4. CASE ~IsCritical(q) /\ os = {}
  <2> DEFINE c == CurveTarget(r, speed, age)
             d == CurveTarget(q, speed, age)
  <2>1. c \in Int /\ d \in Int /\ HintFloor(hs) \in Int
    BY CurveTargetIsInteger, HintFloorIsLargest
  <2>2. c <= d
    <3>1. /\ NeededSpeed(r) \in Int /\ NeededSpeed(q) \in Int
          /\ NeededSpeed(r) <= NeededSpeed(q)
          /\ NeededSpeed(q) >= Base + Step
          /\ OverThreshold(r) => OverThreshold(q)
      BY NeededIsMonotonic, NeededSpeedIsInteger
    <3>2. CASE OverThreshold(r)
      BY <3>1, <3>2, ConfigTypes DEF CurveTarget, RampUp, Smaller
    <3>3. CASE ~OverThreshold(r) /\ OverThreshold(q)
      BY <3>1, <3>3, ConfigTypes
         DEF CurveTarget, RampUp, RampDown, Smaller, Larger
    <3>4. CASE ~OverThreshold(r) /\ ~OverThreshold(q)
      BY <3>4, <2>1 DEF CurveTarget
    <3>5. QED
      BY <3>1, <3>2, <3>3, <3>4
  <2> HIDE DEF c, d
  <2>3. ClampSpeed(Larger(c, HintFloor(hs)))
          <= ClampSpeed(Larger(d, HintFloor(hs)))
    BY <2>1, <2>2, FloorIsMonotonic, ClampIsMonotonic
  <2>4. QED
    BY <1>1, <1>4, <2>3, AutomaticTarget DEF c, d
<1>5. QED
  BY <1>2, <1>3, <1>4

\* Without an override and below the critical temperatures no hint is
\* undercut, within the band, and a hint never takes speed away.
THEOREM HintsOnlyRaise ==
  ASSUME NEW r \in Temps, ~IsCritical(r),
         NEW speed \in Int, NEW age \in Int,
         NEW hs, Floors(hs) \subseteq {15, 25, 45}
  PROVE  /\ CalculateTarget(r, speed, age, {}, hs)
               >= CalculateTarget(r, speed, age, {}, {})
         /\ \A h \in hs : CalculateTarget(r, speed, age, {}, hs)
                           >= ClampSpeed(h.min)
<1> DEFINE c == CurveTarget(r, speed, age)
<1>1. c \in Int
  BY CurveTargetIsInteger
<1> HIDE DEF c
<1>2. /\ HintFloor(hs) \in Int /\ HintFloor(hs) >= 0
      /\ \A h \in hs : h.min \in Int /\ h.min <= HintFloor(hs)
  <2>1. \A h \in hs : h.min \in Floors(hs)
    BY DEF Floors
  <2>2. QED
    BY <2>1, HintFloorIsLargest
<1>3. HintFloor({}) = 0
  <2>1. Floors({}) = {}
    BY DEF Floors
  <2>2. QED
    BY <2>1, HintFloorIsLargest
<1>4. ClampSpeed(Larger(c, HintFloor(hs))) >= ClampSpeed(Larger(c, 0))
  BY <1>1, <1>2 DEF ClampSpeed, Larger, Smaller
<1>5. ASSUME NEW h \in hs
      PROVE  ClampSpeed(Larger(c, HintFloor(hs))) >= ClampSpeed(h.min)
  <2>1. h.min \in Int /\ h.min <= HintFloor(hs)
    BY <1>2
  <2>2. QED
    BY <1>1, <1>2, <2>1 DEF ClampSpeed, Larger, Smaller
<1>6. QED
  BY <1>3, <1>4, <1>5, AutomaticTarget DEF c

-----------------------------------------------------------------------------
(***************************************************************************)
(* The steps that a steady reading takes the fans to their speed by.       *)
(***************************************************************************)
\* Over a threshold the fans gain a percent at least on every pass until
\* they have what the excess calls for, and keep it then.
THEOREM HeatIsAnswered ==
  ASSUME NEW r \in Temps, OverThreshold(r), ~IsCritical(r), Step > 0,
         NEW speed \in Int, speed <= MaxSpeed, NEW age \in Int,
         NEW hs, Floors(hs) \subseteq {15, 25, 45}
  PROVE  LET target == CalculateTarget(r, speed, age, {}, hs)
             goal   == ClampSpeed(NeededSpeed(r))
         IN  /\ speed >= goal => target >= goal
             /\ speed < goal => target > speed
<1> DEFINE c == CurveTarget(r, speed, age)
           n == NeededSpeed(r)
<1>1. n \in Int /\ HintFloor(hs) \in Int
  BY NeededSpeedIsInteger, HintFloorIsLargest
<1>2. c = IF n > speed THEN Smaller(speed + Step, n) ELSE speed
  BY DEF CurveTarget, RampUp
<1>3. CalculateTarget(r, speed, age, {}, hs)
        = ClampSpeed(Larger(c, HintFloor(hs)))
  BY AutomaticTarget
<1> HIDE DEF c, n
<1>4. c \in Int /\ c >= speed /\ (speed < n => c > speed)
  BY <1>1, <1>2, ConfigTypes DEF Smaller
<1>5. ClampSpeed(Larger(c, HintFloor(hs))) >= speed
  BY <1>1, <1>4 DEF ClampSpeed, Larger, Smaller
<1>6. ASSUME speed < ClampSpeed(n)
      PROVE  ClampSpeed(Larger(c, HintFloor(hs))) > speed
  <2>1. speed < MinSpeed \/ (speed < n /\ speed < MaxSpeed)
    BY <1>1, <1>6 DEF ClampSpeed, Larger, Smaller
  <2>2. QED
    BY <1>1, <1>4, <2>1 DEF ClampSpeed, Larger, Smaller
<1>7. ClampSpeed(n) \in Int /\ ClampSpeed(Larger(c, HintFloor(hs))) \in Int
  BY <1>1, <1>4 DEF ClampSpeed, Larger, Smaller
<1>8. QED
  BY <1>3, <1>5, <1>6, <1>7 DEF n

\* Below both thresholds, once the cooldown is over, the fans lose a percent
\* at least on every pass until they stand at the idle speed, which they
\* never undershoot and do not leave again.
THEOREM CoolnessIsReached ==
  ASSUME NEW r \in Temps, ~OverThreshold(r), ~IsCritical(r), Step > 0,
         NEW speed \in Int, speed <= MaxSpeed,
         NEW age \in Int, CooledDown(age)
  PROVE  LET target == CalculateTarget(r, speed, age, {}, {})
             idle   == ClampSpeed(Base)
         IN  /\ speed <= idle => target = idle
             /\ speed > idle => target < speed /\ target >= idle
<1> DEFINE c == CurveTarget(r, speed, age)
<1>1. HintFloor({}) = 0
  <2>1. Floors({}) = {}
    BY DEF Floors
  <2>2. QED
    BY <2>1, HintFloorIsLargest
<1>2. c = IF age = Never \/ speed <= Base THEN Base
          ELSE Larger(speed - Step, Base)
  BY ConfigTypes DEF CurveTarget, RampDown
<1>3. CalculateTarget(r, speed, age, {}, {}) = ClampSpeed(Larger(c, 0))
  BY <1>1, AutomaticTarget
<1> HIDE DEF c
<1>4. c \in Int /\ c >= Base /\ (speed <= Base => c = Base)
      /\ (speed > Base => c < speed)
  BY <1>2, ConfigTypes DEF Larger
<1>5. QED
  BY <1>3, <1>4, ConfigTypes DEF ClampSpeed, Larger, Smaller
=============================================================================
