-------------------------- MODULE HysteresisProofs --------------------------
(***************************************************************************)
(* The cooldown, for every configuration and every schedule: why the loop, *)
(* which notes a threshold crossing in one branch of calculateTarget only, *)
(* still never slows the fans too early, and under which premises.         *)
(***************************************************************************)
EXTENDS Hysteresis, FanControlProofs

USE ConfigAssumption, ControllerAssumption DEF ValidConfig

(***************************************************************************)
(* The premises.  A critical reading and an override bypass the note; so   *)
(* does a reading that is dropped because a restore is pending or because  *)
(* the reclaim fails; and a write that took effect unseen leaves the loop  *)
(* holding a speed which is not the fans'.                                 *)
(***************************************************************************)
OnlyTheCurve ==
  /\ \A s \in Samples : SensorsOk(s) => ~IsCritical(s)
  /\ OverrideSpeeds = {}

CommandsAnswered ==
  /\ {"restore", "reclaim"} \cap (Failing \cup Lossy) = {}
  /\ "write" \notin Lossy

CooldownPremises == OnlyTheCurve /\ CommandsAnswered /\ Step > 0

(***************************************************************************)
(* The invariant.  LagInv is its heart: the loop's own age is no greater   *)
(* than the age of the last hot reading, except while such a reading is on *)
(* its way from readSensors to calculateTarget.                            *)
(***************************************************************************)
CoolEnough == sinceHot = Never \/ sinceHot > Cooldown

HotPending == pc \in {"reclaim", "record", "decide"} /\ OverThreshold(sample)

LagInv ==
  \/ CoolEnough
  \/ HotPending
  \/ failsafeCause = "write"
  \/ 0 <= sinceOver /\ sinceOver <= sinceHot

\* The loop holds the speed of the fans, or is about to learn that they have
\* the target; and no emergency has raised it.
HeldInv ==
  /\ bmcSpeed = IF pc = "write" /\ reply = "done" THEN targetSpeed
                ELSE currentSpeed
  /\ currentSpeed <= MaxSpeed /\ targetSpeed <= MaxSpeed
  /\ override = {}

\* A hand-back that was begun is confirmed by the time the loop waits.
PromptInv ==
  /\ failsafeCause # "none" /\ pc # "trip" => restoreConfirmed
  /\ pc \in {"reclaim", "record", "decide", "write"} => ~IsCritical(sample)

\* A speed about to be sent is lower only once the cooldown is over.
SlowInv ==
  pc = "write" /\ reply = "none" /\ targetSpeed < currentSpeed => CoolEnough

CooldownInv ==
  /\ sinceHot \in Nat \cup {Never}
  /\ LagInv /\ HeldInv /\ PromptInv /\ SlowInv

-----------------------------------------------------------------------------
LEMMA HotIsAnInteger ==
  ASSUME sinceHot \in Nat \cup {Never}
  PROVE  sinceHot \in Int
BY DEF Never

LEMMA NextAgeStays ==
  ASSUME NEW age \in Nat \cup {Never}
  PROVE  NextAge(age) \in Nat \cup {Never}
BY ConfigTypes DEF NextAge, Never

\* A clock unit keeps two ages in order, as far as the cooldown tells them
\* apart, and does not make a machine hot that was cool for long enough.
LEMMA ElapseKeepsLag ==
  ASSUME TypeOK, sinceHot \in Nat \cup {Never},
         sinceOver' = NextAge(sinceOver), sinceHot' = NextAge(sinceHot)
  PROVE  /\ CoolEnough => CoolEnough'
         /\ 0 <= sinceOver /\ sinceOver <= sinceHot
              => \/ CoolEnough'
                 \/ 0 <= sinceOver' /\ sinceOver' <= sinceHot'
<1>1. sinceOver \in Int /\ sinceHot \in Int /\ Cooldown \in Int
  BY ConfigTypes, HotIsAnInteger DEF TypeOK
<1>2. QED
  BY <1>1 DEF NextAge, CoolEnough, Never

\* With no override, a curve target below the fans' speed means that the
\* reading is under both thresholds, and that the loop has either never seen
\* another or has cooled down.
LEMMA SlowerMeansCooled ==
  ASSUME NEW r \in Temps, NEW speed \in Int, speed <= MaxSpeed,
         NEW age \in Int, Step > 0,
         NEW hs, Floors(hs) \subseteq {15, 25, 45},
         AutoTarget(r, speed, age, hs) < speed
  PROVE  ~OverThreshold(r) /\ (age = Never \/ CooledDown(age))
<1> DEFINE curve == CurveTarget(r, speed, age)
<1>1. curve \in Int /\ HintFloor(hs) \in Int
  BY CurveTargetIsInteger, HintFloorIsLargest
<1>2. curve < speed
  BY <1>1 DEF AutoTarget, ClampSpeed, Larger, Smaller
<1>3. ~OverThreshold(r)
  <2> SUFFICES ASSUME OverThreshold(r) PROVE RampUp(r, speed) >= speed
    BY <1>2, NeededSpeedIsInteger, ConfigTypes
       DEF CurveTarget, RampUp, Smaller
  <2> QED
    BY NeededSpeedIsInteger, ConfigTypes DEF RampUp, Smaller
<1>4. QED
  BY <1>2, <1>3 DEF CurveTarget

LEMMA PremisesOnCommands ==
  ASSUME CooldownPremises
  PROVE  /\ Outcomes("restore") = {"done"} /\ Outcomes("reclaim") = {"done"}
         /\ Outcomes("write") \subseteq {"done", "failed"}
BY DEF CooldownPremises, CommandsAnswered, Outcomes

\* The replies that the loop can find, under the premises.
LEMMA PremisesOnReplies ==
  ASSUME CooldownPremises, ControlInv
  PROVE  /\ pc \in {"retry", "trip", "reclaim"} => reply \in {"none", "done"}
         /\ pc = "write" => reply \in {"none", "done", "failed"}
         /\ pc \in {"wait", "read", "record", "decide", "fail"} => reply = "none"
BY PremisesOnCommands, WhoWaits DEF ControlInv, ReplyInv

-----------------------------------------------------------------------------
(***************************************************************************)
(* The parts of the invariant, one lemma each.                             *)
(***************************************************************************)
LEMMA NextPromptInv ==
  ASSUME CooldownPremises, TypeOK, ControlInv, PromptInv, [Next]_vars
  PROVE  PromptInv'
<1> USE DEF PromptInv, GoTo, Returns, failsafeVars, loopVars
<1>1. CASE Start
  BY <1>1 DEF Start, ControlInv, PlaceInv
<1>2. CASE Tick
  BY <1>2 DEF Tick, RestorePending
<1>3. CASE AttemptRestore
  BY <1>3, PremisesOnReplies DEF AttemptRestore
<1>4. ASSUME NEW s \in Samples, ReadSensors(s) PROVE PromptInv'
  <2>1. SensorsOk(s) => ~IsCritical(s)
    BY DEF CooldownPremises, OnlyTheCurve
  <2>2. CASE ReadInWriteFailsafe(s) \/ ReadFails(s)
    BY <2>2 DEF ReadInWriteFailsafe, ReadFails
  <2>3. CASE ReadHealthy(s) \/ ReadWhileRestorePending(s) \/ ReadRecovered(s)
    BY <2>1, <2>3
       DEF ReadHealthy, ReadWhileRestorePending, ReadRecovered, IsCritical
  <2>4. QED
    BY <1>4, <2>2, <2>3 DEF ReadSensors
<1>5. CASE Reclaim
  BY <1>5, PremisesOnReplies DEF Reclaim, IsCritical
<1>6. CASE Record \/ Decide \/ WriteDone
  BY <1>6 DEF Record, Decide, WriteDone, ControlInv, PlaceInv, IsCritical
<1>7. CASE WriteFails \/ CountWriteFailure
  BY <1>7 DEF WriteFails, CountWriteFailure, ControlInv, PlaceInv
<1>8. CASE Request \/ Elapse \/ UNCHANGED vars
  BY <1>8 DEF Request, SetOverride, ClearOverride, AddHint, RemoveHint,
              Elapse, vars, IsCritical
<1>9. CASE BmcStep
  BY <1>9, BmcStepCases DEF IsCritical
<1>10. QED
  BY <1>1, <1>2, <1>3, <1>4, <1>5, <1>6, <1>7, <1>8, <1>9
     DEF Next, LoopStep

LEMMA NextHeldInv ==
  ASSUME CooldownPremises, TypeOK, ControlInv, PromptInv, HeldInv,
         [Next]_vars
  PROVE  HeldInv'
<1> USE DEF HeldInv, GoTo, Returns, loopVars, speedVars, requestVars, bmcVars
<1>1. CASE Start \/ AttemptRestore \/ Reclaim \/ Tick \/ CountWriteFailure
  BY <1>1 DEF Start, AttemptRestore, Reclaim, Tick, CountWriteFailure
<1>2. ASSUME NEW s \in Samples, ReadSensors(s) PROVE HeldInv'
  BY <1>2 DEF ReadSensors, ReadInWriteFailsafe, ReadFails, ReadHealthy,
              ReadWhileRestorePending, ReadRecovered, CleanExpired, Unexpired
<1>3. CASE Record
  BY <1>3 DEF Record, CleanExpired, Unexpired
<1>4. CASE Decide
  <2>1. targetSpeed' \in MinSpeed .. MaxSpeed
    <3>1. ~IsCritical(sample)
      BY <1>4 DEF Decide, PromptInv
    <3>2. sample \in Temps /\ currentSpeed \in Int /\ sinceOver \in Int
      BY SpeedsAreIntegers DEF TypeOK, Temps
    <3>3. QED
      BY <1>4, <3>1, <3>2, HintFloors, TargetInBand DEF Decide
  <2>2. reply' = "none"
    BY <1>4, PremisesOnReplies DEF Decide
  <2>3. QED
    BY <1>4, <2>1, <2>2 DEF Decide
<1>5. CASE WriteDone \/ WriteFails
  BY <1>5 DEF WriteDone, WriteFails
<1>6. CASE BmcStep
  BY <1>6, BmcStepCases, PremisesOnCommands
     DEF SendMode, SendSpeed, TakesEffect
<1>7. CASE Request
  BY <1>7 DEF CooldownPremises, OnlyTheCurve, Request, ClearOverride, AddHint,
              RemoveHint
<1>8. CASE Elapse
  BY <1>8 DEF Elapse, Aged
<1>9. CASE UNCHANGED vars
  BY <1>9 DEF vars
<1>10. QED
  BY <1>1, <1>2, <1>3, <1>4, <1>5, <1>6, <1>7, <1>8, <1>9 DEF Next, LoopStep

LEMMA NextAges ==
  ASSUME sinceHot \in Nat \cup {Never}, [HNext]_hvars
  PROVE  sinceHot' \in Nat \cup {Never}
BY NextAgeStays DEF HNext, hvars, Never

LEMMA NextLagInv ==
  ASSUME CooldownPremises, TypeOK, ControlInv, PromptInv, HeldInv,
         sinceHot \in Nat \cup {Never}, LagInv, [HNext]_hvars
  PROVE  LagInv'
<1> USE DEF LagInv, CoolEnough, HotPending, GoTo, Returns, failsafeVars,
            speedVars, loopVars
<1>1. CASE LoopStep /\ sinceHot' = IF ReadHot THEN 0 ELSE sinceHot
  <2> USE <1>1 DEF ReadHot
  <2>1. CASE Start \/ AttemptRestore
    BY <2>1 DEF Start, AttemptRestore
  <2>2. CASE Tick
    BY <2>2 DEF Tick
  <2>3. ASSUME NEW s \in Samples, ReadSensors(s) PROVE LagInv'
    <3>1. CASE ReadInWriteFailsafe(s)
      BY <3>1 DEF ReadInWriteFailsafe
    <3>2. CASE ReadFails(s)
      BY <3>2 DEF ReadFails
    <3>3. CASE ReadWhileRestorePending(s)
      BY <3>3 DEF ReadWhileRestorePending, PromptInv
    <3>4. CASE ReadHealthy(s) \/ ReadRecovered(s)
      BY <3>4 DEF ReadHealthy, ReadRecovered
    <3>5. QED
      BY <2>3, <3>1, <3>2, <3>3, <3>4 DEF ReadSensors
  <2>4. CASE Reclaim
    BY <2>4, PremisesOnReplies
       DEF Reclaim, ControlInv, PlaceInv, OverThreshold
  <2>5. CASE Record
    BY <2>5 DEF Record, OverThreshold
  <2>6. CASE Decide
    <3>1. sinceHot' = sinceHot /\ failsafeCause' = failsafeCause
      BY <2>6 DEF Decide
    <3>2. CASE OverThreshold(sample)
      <4>1. sinceOver' = 0
        BY <2>6, <3>2
           DEF Decide, LastOverThreshold, UsesCurve, PromptInv, HeldInv
      <4>2. QED
        BY <3>1, <4>1 DEF Never
    <3>3. CASE ~OverThreshold(sample)
      BY <2>6, <3>1, <3>3 DEF Decide, LastOverThreshold
    <3>4. QED
      BY <3>2, <3>3
  <2>7. CASE WriteDone \/ WriteFails \/ CountWriteFailure
    BY <2>7 DEF WriteDone, WriteFails, CountWriteFailure
  <2>8. QED
    BY <2>1, <2>2, <2>3, <2>4, <2>5, <2>6, <2>7 DEF LoopStep
<1>2. CASE Request /\ UNCHANGED sinceHot
  BY <1>2 DEF Request, SetOverride, ClearOverride, AddHint, RemoveHint,
              OverThreshold
<1>3. CASE Elapse /\ sinceHot' = NextAge(sinceHot)
  BY <1>3, ElapseKeepsLag DEF Elapse, OverThreshold
<1>4. CASE UNCHANGED hvars
  BY <1>4 DEF hvars, vars, OverThreshold
<1>5. CASE BmcStep /\ UNCHANGED sinceHot
  BY <1>5, BmcStepCases DEF OverThreshold
<1>6. QED
  BY <1>1, <1>2, <1>3, <1>4, <1>5 DEF HNext

LEMMA NextSlowInv ==
  ASSUME CooldownPremises, TypeOK, ControlInv, PromptInv, HeldInv,
         sinceHot \in Nat \cup {Never}, LagInv, SlowInv, [HNext]_hvars
  PROVE  SlowInv'
<1> USE DEF SlowInv, GoTo, Returns, speedVars, loopVars
<1>1. CASE Decide /\ sinceHot' = sinceHot
  <2> SUFFICES ASSUME targetSpeed' < currentSpeed PROVE CoolEnough
    BY <1>1 DEF Decide, CoolEnough
  <2>1. AutoTarget(sample, currentSpeed, sinceOver, hints) < currentSpeed
    BY <1>1 DEF Decide, CalculateTarget, PromptInv, HeldInv
  <2>2. sample \in Temps /\ currentSpeed \in Int /\ sinceOver \in Int
    BY SpeedsAreIntegers DEF TypeOK, Temps
  <2>3. ~OverThreshold(sample) /\ (sinceOver = Never \/ CooledDown(sinceOver))
    BY <2>1, <2>2, HintFloors, SlowerMeansCooled
       DEF CooldownPremises, HeldInv
  <2>4. CoolEnough \/ (0 <= sinceOver /\ sinceOver <= sinceHot)
    BY <1>1, <2>3 DEF Decide, LagInv, HotPending, ControlInv, PlaceInv
  <2>5. QED
    BY <2>2, <2>3, <2>4, ConfigTypes, HotIsAnInteger
       DEF CooledDown, CoolEnough, Never
<1>2. CASE pc' # "write"
  BY <1>2
<1>3. CASE Elapse /\ sinceHot' = NextAge(sinceHot)
  BY <1>3, ElapseKeepsLag DEF Elapse
<1>4. CASE Request /\ UNCHANGED sinceHot
  BY <1>4 DEF Request, SetOverride, ClearOverride, AddHint, RemoveHint,
              CoolEnough
<1>5. CASE UNCHANGED hvars
  BY <1>5 DEF hvars, vars, CoolEnough
<1>6. CASE LoopStep /\ sinceHot' = IF ReadHot THEN 0 ELSE sinceHot
  <2>1. Decide => sinceHot' = sinceHot
    BY <1>6 DEF Decide, ReadHot
  <2>2. ~Decide => pc' # "write"
    BY <1>6 DEF LoopStep, Start, Tick, AttemptRestore, ReadSensors,
         ReadInWriteFailsafe, ReadFails, ReadHealthy,
         ReadWhileRestorePending, ReadRecovered, Reclaim, Record, WriteDone,
         WriteFails, CountWriteFailure
  <2>3. QED
    BY <1>1, <1>2, <1>6, <2>1, <2>2
<1>7. CASE BmcStep /\ UNCHANGED sinceHot
  BY <1>7, BmcStepCases, Replies
<1>8. QED
  BY <1>3, <1>4, <1>5, <1>6, <1>7 DEF HNext

-----------------------------------------------------------------------------
LEMMA HStepIsAStep == [HNext]_hvars => [Next]_vars
BY DEF HNext, hvars, Next

LEMMA CooldownInvariance ==
  ASSUME CooldownPremises
  PROVE  HSpec => [](TypeOK /\ ControlInv /\ CooldownInv)
<1> DEFINE Inv == TypeOK /\ ControlInv /\ CooldownInv
<1>1. HInit => Inv
  <2> SUFFICES ASSUME HInit PROVE Inv
    OBVIOUS
  <2>1. TypeOK /\ ControlInv
    BY InitTypeOK DEF HInit, Init, ControlInv, PlaceInv, ReplyInv
  <2>2. CooldownInv
    BY DEF HInit, Init, CooldownInv, LagInv, CoolEnough, HeldInv, PromptInv,
           SlowInv
  <2>3. QED
    BY <2>1, <2>2
<1>2. Inv /\ [HNext]_hvars => Inv'
  BY HStepIsAStep, NextTypeOK, NextControlInv, NextPromptInv, NextHeldInv,
     NextAges, NextLagInv, NextSlowInv DEF CooldownInv
<1>3. QED
  BY <1>1, <1>2, PTL DEF HSpec

\* fan.go, calculateTarget: the fans are slowed only when the last reading
\* over a threshold, wherever the loop dropped it, is older than the
\* cooldown; for every schedule of the requests, the clock and failed writes.
THEOREM CooldownKept ==
  ASSUME CooldownPremises
  PROVE  HSpec => CooldownRespected
<1>1. TypeOK /\ ControlInv /\ CooldownInv /\ [HNext]_hvars
        => [bmcMode = "manual" /\ bmcSpeed' < bmcSpeed =>
              sinceHot = Never \/ sinceHot > Cooldown]_hvars
  <2> SUFFICES ASSUME TypeOK, ControlInv, CooldownInv, HNext,
                      bmcSpeed' < bmcSpeed
               PROVE  CoolEnough
    BY DEF CoolEnough
  <2>1. bmcSpeed' # bmcSpeed
    <3>1. {bmcSpeed, bmcSpeed'} \subseteq Int
      BY HStepIsAStep, NextTypeOK, SpeedsAreIntegers DEF TypeOK
    <3>2. QED
      BY <3>1
  <2>2. pc = "write" /\ reply = "none" /\ bmcSpeed' = targetSpeed
    BY <2>1, HStepIsAStep, StepToSpeed
  <2>3. QED
    BY <2>2 DEF CooldownInv, HeldInv, SlowInv
<1>2. QED
  BY <1>1, CooldownInvariance, PTL DEF HSpec, CooldownRespected
=============================================================================
