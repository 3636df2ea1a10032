-------------------------- MODULE FanControlProofs --------------------------
(***************************************************************************)
(* Theorems about FanControl, for every configuration, every set of        *)
(* readings and requests and every fault model.  The inductive invariant   *)
(* is TypeOK and ControlInv: the second ties the position of the loop to   *)
(* the fail-safe, which is what makes a restore, once confirmed, last.     *)
(***************************************************************************)
EXTENDS FanControl, TargetSpeedProofs, TLAPS

USE ConfigAssumption, ControllerAssumption DEF ValidConfig

LEMMA NoSpeedIsASpeed == 0 \in Speeds
BY DEF Speeds

LEMMA ZeroIsACount ==
  0 \in 0 .. SensorFailureLimit /\ 0 \in 0 .. WriteFailureLimit
OBVIOUS

LEMMA SpeedsAreIntegers == Speeds \subseteq Int
<1>1. EmergencySpeed \in Int
  BY DEF EmergencySpeed
<1>2. QED
  BY <1>1 DEF Speeds

LEMMA HintFloors ==
  ASSUME TypeOK
  PROVE  Floors(hints) \subseteq {15, 25, 45}
<1>1. \A h \in hints : h.min \in {15, 25, 45}
  BY DEF TypeOK
<1>2. QED
  BY <1>1 DEF Floors

\* The speed that Decide computes is one of Speeds.
LEMMA TargetIsASpeed ==
  ASSUME TypeOK
  PROVE  CalculateTarget(sample, currentSpeed, sinceOver, override, hints)
           \in Speeds
<1>1. sample \in Temps
  BY DEF TypeOK, Temps
<1>2. currentSpeed \in Int /\ sinceOver \in Int
  BY SpeedsAreIntegers DEF TypeOK
<1>3. override \subseteq [speed : Int, left : Int]
  BY DEF TypeOK
<1>4. CASE IsCritical(sample)
  BY <1>1, <1>2, <1>3, <1>4, HintFloors, TargetInBand DEF Speeds
<1>5. CASE ~IsCritical(sample)
  BY <1>1, <1>2, <1>3, <1>5, HintFloors, TargetInBand DEF Speeds
<1>6. QED
  BY <1>4, <1>5

LEMMA IncrementStays ==
  ASSUME NEW limit \in Nat \ {0}, NEW n \in 0 .. limit
  PROVE  Increment(n, limit) \in 0 .. limit
BY DEF Increment, Smaller

LEMMA AgedTypes ==
  ASSUME TypeOK
  PROVE  /\ Aged(override) \subseteq [speed : MinSpeed .. MaxSpeed, left : Int]
         /\ Aged(hints) \subseteq
              [source : Sources, min : {15, 25, 45}, left : Int]
         /\ NextAge(sinceOver) \in Int
<1>1. ASSUME NEW x \in override
      PROVE  [x EXCEPT !.left = IF @ > 0 THEN @ - 1 ELSE @]
               \in [speed : MinSpeed .. MaxSpeed, left : Int]
  <2>1. x \in [speed : MinSpeed .. MaxSpeed, left : Int]
    BY DEF TypeOK
  <2>2. QED
    BY <2>1
<1>2. ASSUME NEW x \in hints
      PROVE  [x EXCEPT !.left = IF @ > 0 THEN @ - 1 ELSE @]
               \in [source : Sources, min : {15, 25, 45}, left : Int]
  <2>1. x \in [source : Sources, min : {15, 25, 45}, left : Int]
    BY DEF TypeOK
  <2>2. QED
    BY <2>1
<1>3. NextAge(sinceOver) \in Int
  BY ConfigTypes DEF TypeOK, NextAge
<1>4. QED
  BY <1>1, <1>2, <1>3 DEF Aged

LEMMA UnexpiredTypes ==
  ASSUME TypeOK, CleanExpired
  PROVE  /\ override' \subseteq [speed : MinSpeed .. MaxSpeed, left : Int]
         /\ hints' \subseteq [source : Sources, min : {15, 25, 45}, left : Int]
BY DEF TypeOK, CleanExpired, Unexpired

-----------------------------------------------------------------------------
(***************************************************************************)
(* What the BMC does with the command in flight, by the place of the loop  *)
(* that waits for it.                                                      *)
(***************************************************************************)
LEMMA WhoWaits ==
  /\ DOMAIN InFlight = {"start", "retry", "trip", "reclaim", "write"}
  /\ InFlight["start"] = "start" /\ InFlight["reclaim"] = "reclaim"
  /\ InFlight["retry"] = "restore" /\ InFlight["trip"] = "restore"
  /\ InFlight["write"] = "write"
BY DEF InFlight

LEMMA BmcStepCases ==
  ASSUME BmcStep
  PROVE  /\ reply = "none"
         /\ UNCHANGED <<pc, sample, sensorFailCount, writeFailCount,
                        failsafeVars, speedVars, requestVars>>
         /\ \/ /\ pc = "start" /\ reply' \in Outcomes("start")
               /\ SendMode("manual", reply')
            \/ /\ pc = "reclaim" /\ reply' \in Outcomes("reclaim")
               /\ SendMode("manual", reply')
            \/ /\ pc \in {"retry", "trip"} /\ reply' \in Outcomes("restore")
               /\ SendMode("auto", reply')
            \/ /\ pc = "write" /\ reply' \in Outcomes("write")
               /\ SendSpeed(targetSpeed, reply')
<1>0. PICK command \in Commands : \E o \in Outcomes(command) :
        BmcActs(command, o)
  BY DEF BmcStep
<1>1. PICK o \in Outcomes(command) : BmcActs(command, o)
  BY <1>0
<1>2. /\ reply = "none" /\ reply' = o
      /\ pc \in {"start", "retry", "trip", "reclaim", "write"}
      /\ InFlight[pc] = command
      /\ UNCHANGED <<pc, sample, sensorFailCount, writeFailCount,
                     failsafeVars, speedVars, requestVars>>
  BY <1>1, WhoWaits DEF BmcActs
<1>3. \/ command \in {"start", "reclaim"} /\ SendMode("manual", o)
      \/ command = "restore" /\ SendMode("auto", o)
      \/ command = "write" /\ SendSpeed(targetSpeed, o)
  BY <1>1 DEF BmcActs
<1>4. CASE pc = "start"
  BY <1>1, <1>2, <1>3, <1>4, WhoWaits
<1>5. CASE pc = "reclaim"
  BY <1>1, <1>2, <1>3, <1>5, WhoWaits
<1>6. CASE pc \in {"retry", "trip"}
  BY <1>1, <1>2, <1>3, <1>6, WhoWaits
<1>7. CASE pc = "write"
  BY <1>1, <1>2, <1>3, <1>7, WhoWaits
<1>8. QED
  BY <1>2, <1>4, <1>5, <1>6, <1>7

LEMMA Replies ==
  ASSUME NEW command
  PROVE  /\ Outcomes(command) \subseteq {"done", "failed", "lost"}
         /\ "done" \in Outcomes(command)
BY DEF Outcomes

-----------------------------------------------------------------------------
LEMMA InitTypeOK == Init => TypeOK
<1> SUFFICES ASSUME Init PROVE TypeOK
  OBVIOUS
<1>1. sample \in [cpu : Int, gpu : Int] /\ sinceOver \in Int
  BY DEF Init, NoTemp, Never
<1>2. {currentSpeed, targetSpeed, bmcSpeed} \subseteq Speeds
  BY NoSpeedIsASpeed DEF Init
<1>3. /\ sensorFailCount \in 0 .. SensorFailureLimit
      /\ writeFailCount \in 0 .. WriteFailureLimit
  BY ZeroIsACount DEF Init
<1>4. QED
  BY <1>1, <1>2, <1>3 DEF Init, TypeOK, Causes

LEMMA NextTypeOK == TypeOK /\ [Next]_vars => TypeOK'
<1> SUFFICES ASSUME TypeOK, [Next]_vars PROVE TypeOK'
  OBVIOUS
<1> USE DEF GoTo, Returns, Causes, failsafeVars, speedVars, requestVars,
            bmcVars, loopVars
<1>1. CASE Start
  BY <1>1 DEF TypeOK, Start
<1>2. CASE Tick
  BY <1>2 DEF TypeOK, Tick
<1>3. CASE AttemptRestore
  BY <1>3 DEF TypeOK, AttemptRestore
<1>4. ASSUME NEW s \in Samples, ReadInWriteFailsafe(s) PROVE TypeOK'
  <2>1. CASE SensorsOk(s)
    BY <1>4, <2>1, UnexpiredTypes DEF TypeOK, ReadInWriteFailsafe
  <2>2. CASE ~SensorsOk(s)
    BY <1>4, <2>2 DEF TypeOK, ReadInWriteFailsafe
  <2>3. QED
    BY <2>1, <2>2
<1>5. ASSUME NEW s \in Samples, ReadFails(s) PROVE TypeOK'
  <2>1. Increment(sensorFailCount, SensorFailureLimit)
          \in 0 .. SensorFailureLimit
    BY IncrementStays DEF TypeOK
  <2>2. QED
    BY <1>5, <2>1 DEF TypeOK, ReadFails
<1>6. ASSUME NEW s \in Samples, ReadHealthy(s) PROVE TypeOK'
  BY <1>6 DEF TypeOK, ReadHealthy
<1>7. ASSUME NEW s \in Samples, ReadWhileRestorePending(s) PROVE TypeOK'
  BY <1>7, UnexpiredTypes DEF TypeOK, ReadWhileRestorePending
<1>8. ASSUME NEW s \in Samples, ReadRecovered(s) PROVE TypeOK'
  BY <1>8 DEF TypeOK, ReadRecovered
<1>9. CASE Reclaim
  <2>1. CASE reply = "done"
    BY <1>9, <2>1, ZeroIsACount DEF TypeOK, Reclaim
  <2>2. CASE reply # "done"
    BY <1>9, <2>2 DEF TypeOK, Reclaim
  <2>3. QED
    BY <2>1, <2>2
<1>10. CASE Record
  BY <1>10, UnexpiredTypes DEF TypeOK, Record
<1>11. CASE Decide
  <2>1. sinceOver' \in Int
    BY <1>11 DEF TypeOK, Decide, LastOverThreshold
  <2>2. targetSpeed' \in Speeds
    BY <1>11, TargetIsASpeed DEF Decide
  <2>3. QED
    BY <1>11, <2>1, <2>2 DEF TypeOK, Decide
<1>12. CASE WriteDone
  BY <1>12, ZeroIsACount DEF TypeOK, WriteDone
<1>13. CASE WriteFails
  BY <1>13 DEF TypeOK, WriteFails
<1>14. ASSUME NEW speed \in OverrideSpeeds, NEW d \in Durations,
              SetOverride(speed, d)
       PROVE  TypeOK'
  <2>1. ClampSpeed(speed) \in MinSpeed .. MaxSpeed
    BY ClampInBand
  <2>2. OverrideLife(d) \in Int
    BY DEF OverrideLife
  <2>3. QED
    BY <1>14, <2>1, <2>2 DEF TypeOK, SetOverride
<1>15. CASE ClearOverride
  BY <1>15 DEF TypeOK, ClearOverride
<1>16. ASSUME NEW source \in Sources, NEW i \in Intensities,
              NEW d \in Durations, AddHint(source, i, d)
       PROVE  TypeOK'
  <2>1. HintMinSpeed(i) \in {15, 25, 45}
    BY DEF HintMinSpeed
  <2>2. (IF d > 0 THEN d ELSE Forever) \in Int
    BY DEF Forever
  <2>3. QED
    BY <1>16, <2>1, <2>2 DEF TypeOK, AddHint, WithoutHint
<1>17. ASSUME NEW source \in Sources, RemoveHint(source) PROVE TypeOK'
  BY <1>17 DEF TypeOK, RemoveHint, WithoutHint
<1>18. CASE Elapse
  BY <1>18, AgedTypes DEF TypeOK, Elapse
<1>19. CASE UNCHANGED vars
  BY <1>19 DEF TypeOK, vars
<1>20. CASE CountWriteFailure
  <2>1. Increment(writeFailCount, WriteFailureLimit) \in 0 .. WriteFailureLimit
    BY IncrementStays DEF TypeOK
  <2>2. QED
    BY <1>20, <2>1 DEF TypeOK, CountWriteFailure
<1>21. CASE BmcStep
  <2>1. reply' \in {"done", "failed", "lost"}
    BY <1>21, BmcStepCases, Replies
  <2>2. bmcMode' \in {"auto", "manual"} /\ bmcSpeed' \in Speeds
    BY <1>21, BmcStepCases DEF TypeOK, SendMode, SendSpeed
  <2>3. QED
    BY <1>21, <2>1, <2>2, BmcStepCases DEF TypeOK
<1>22. QED
  BY <1>1, <1>2, <1>3, <1>4, <1>5, <1>6, <1>7, <1>8, <1>9, <1>10, <1>11,
     <1>12, <1>13, <1>14, <1>15, <1>16, <1>17, <1>18, <1>19, <1>20, <1>21
     DEF Next, LoopStep, ReadSensors, Request

\* No speed outside the configured band, other than the emergency speed, is
\* ever computed, reported or sent to the BMC, and every counter stays at or
\* under its limit.
THEOREM TypeCorrect == Spec => []TypeOK
<1>1. Init => TypeOK
  BY InitTypeOK
<1>2. TypeOK /\ [Next]_vars => TypeOK'
  BY NextTypeOK
<1>3. QED
  BY <1>1, <1>2, PTL DEF Spec

-----------------------------------------------------------------------------
(***************************************************************************)
(* Where the loop can be, in and out of a fail-safe, and whose reply it    *)
(* can have.                                                               *)
(***************************************************************************)
PlaceInv ==
  /\ pc \in {"start", "record", "decide", "write", "fail"}
       => failsafeCause = "none"
  /\ pc \in {"record", "decide", "write", "fail", "reclaim"}
       => SensorsOk(sample)
  /\ pc = "reclaim" => failsafeCause = "sensor" /\ restoreConfirmed
  /\ pc \in {"retry", "trip"} => failsafeCause # "none" /\ ~restoreConfirmed
  /\ failsafeCause = "none" => ~restoreConfirmed

ReplyInv ==
  reply # "none" => pc \in DOMAIN InFlight /\ reply \in Outcomes(InFlight[pc])

ControlInv == PlaceInv /\ ReplyInv

LEMMA NextPlaceInv == TypeOK /\ PlaceInv /\ [Next]_vars => PlaceInv'
<1> SUFFICES ASSUME TypeOK, PlaceInv, [Next]_vars PROVE PlaceInv'
  OBVIOUS
<1> USE DEF PlaceInv, GoTo, Returns, failsafeVars, loopVars
<1>1. CASE Start \/ WriteDone \/ WriteFails
  BY <1>1 DEF Start, WriteDone, WriteFails
<1>2. CASE Tick
  BY <1>2 DEF Tick, RestorePending
<1>3. CASE AttemptRestore
  BY <1>3 DEF AttemptRestore
<1>4. ASSUME NEW s, ReadInWriteFailsafe(s) PROVE PlaceInv'
  BY <1>4 DEF ReadInWriteFailsafe
<1>5. ASSUME NEW s, ReadFails(s) PROVE PlaceInv'
  BY <1>5 DEF ReadFails
<1>6. ASSUME NEW s, ReadHealthy(s) PROVE PlaceInv'
  BY <1>6 DEF ReadHealthy
<1>7. ASSUME NEW s, ReadWhileRestorePending(s) PROVE PlaceInv'
  BY <1>7 DEF ReadWhileRestorePending
<1>8. ASSUME NEW s, ReadRecovered(s) PROVE PlaceInv'
  BY <1>8 DEF ReadRecovered
<1>9. CASE Reclaim
  BY <1>9 DEF Reclaim
<1>10. CASE Record
  BY <1>10 DEF Record
<1>11. CASE Decide
  BY <1>11 DEF Decide
<1>12. CASE CountWriteFailure
  BY <1>12 DEF CountWriteFailure
<1>13. CASE BmcStep
  BY <1>13, BmcStepCases
<1>14. CASE Request \/ Elapse \/ UNCHANGED vars
  BY <1>14 DEF Request, SetOverride, ClearOverride, AddHint, RemoveHint,
               Elapse, vars
<1>15. QED
  BY <1>1, <1>2, <1>3, <1>4, <1>5, <1>6, <1>7, <1>8, <1>9, <1>10, <1>11,
     <1>12, <1>13, <1>14
     DEF Next, LoopStep, ReadSensors

LEMMA NextReplyInv == TypeOK /\ ReplyInv /\ [Next]_vars => ReplyInv'
<1> SUFFICES ASSUME TypeOK, ReplyInv, [Next]_vars PROVE ReplyInv'
  OBVIOUS
<1> USE WhoWaits DEF ReplyInv, GoTo, Returns, loopVars
<1>1. CASE Start \/ AttemptRestore \/ Reclaim \/ WriteDone \/ WriteFails
  BY <1>1 DEF Start, AttemptRestore, Reclaim, WriteDone, WriteFails
<1>2. CASE Tick \/ Record \/ Decide \/ CountWriteFailure
  BY <1>2 DEF Tick, Record, Decide, CountWriteFailure
<1>3. CASE \E s \in Samples : ReadSensors(s)
  BY <1>3 DEF ReadSensors, ReadInWriteFailsafe, ReadFails, ReadHealthy,
              ReadWhileRestorePending, ReadRecovered
<1>4. CASE BmcStep
  BY <1>4, BmcStepCases
<1>5. CASE Request \/ Elapse \/ UNCHANGED vars
  BY <1>5 DEF Request, SetOverride, ClearOverride, AddHint, RemoveHint,
              Elapse, vars
<1>6. QED
  BY <1>1, <1>2, <1>3, <1>4, <1>5 DEF Next, LoopStep

LEMMA NextControlInv == TypeOK /\ ControlInv /\ [Next]_vars => ControlInv'
BY NextPlaceInv, NextReplyInv DEF ControlInv

LEMMA ControlInvariance == Spec => [](TypeOK /\ ControlInv)
<1>1. Init => TypeOK /\ ControlInv
  BY InitTypeOK DEF Init, ControlInv, PlaceInv, ReplyInv
<1>2. TypeOK /\ ControlInv /\ [Next]_vars => TypeOK' /\ ControlInv'
  BY NextTypeOK, NextControlInv
<1>3. QED
  BY <1>1, <1>2, PTL DEF Spec

-----------------------------------------------------------------------------
(***************************************************************************)
(* What a step can do to the BMC.                                          *)
(***************************************************************************)
LEMMA OnlyTheBmcActs ==
  ASSUME [Next]_vars, ~BmcStep
  PROVE  UNCHANGED <<bmcMode, bmcSpeed>>
BY DEF Next, LoopStep, Start, Tick, AttemptRestore, ReadSensors,
       ReadInWriteFailsafe, ReadFails, ReadHealthy, ReadWhileRestorePending,
       ReadRecovered, Reclaim, Record, Decide, WriteDone, WriteFails,
       CountWriteFailure, Request, SetOverride, ClearOverride, AddHint,
       RemoveHint, Elapse, vars, bmcVars

\* Whatever the fault model, manual mode is only ever entered by Run's first
\* command or from a confirmed sensor fail-safe with both sensors read.
LEMMA StepToManual ==
  ASSUME TypeOK, ControlInv, [Next]_vars,
         bmcMode = "auto", bmcMode' = "manual"
  PROVE  \/ pc = "start"
         \/ failsafeCause = "sensor" /\ restoreConfirmed /\ SensorsOk(sample)
<1>1. BmcStep
  BY OnlyTheBmcActs
<1>2. pc \in {"start", "reclaim"}
  BY <1>1, BmcStepCases DEF SendMode, SendSpeed
<1>3. QED
  BY <1>2 DEF ControlInv, PlaceInv

\* The fans are only ever sent a speed by a pass with both readings, outside
\* any fail-safe, and it is the target.
LEMMA StepToSpeed ==
  ASSUME TypeOK, ControlInv, [Next]_vars, bmcSpeed' # bmcSpeed
  PROVE  /\ failsafeCause = "none" /\ SensorsOk(sample)
         /\ pc = "write" /\ reply = "none" /\ bmcSpeed' = targetSpeed
<1>1. BmcStep
  BY OnlyTheBmcActs
<1>2. pc = "write" /\ reply = "none" /\ bmcSpeed' = targetSpeed
  BY <1>1, BmcStepCases DEF SendMode, SendSpeed
<1>3. QED
  BY <1>2 DEF ControlInv, PlaceInv

\* Nothing re-enables manual mode while a restore is unconfirmed, nor ever
\* after the fan-write fail-safe.
THEOREM ManualIsCoherent == Spec => ManualOnlyWhenCoherent
<1>1. TypeOK /\ ControlInv /\ [Next]_vars
        => [bmcMode = "auto" /\ bmcMode' = "manual" =>
              \/ pc = "start"
              \/ failsafeCause = "sensor" /\ restoreConfirmed
                 /\ SensorsOk(sample)]_vars
  BY StepToManual
<1>2. QED
  BY <1>1, ControlInvariance, PTL DEF Spec, ManualOnlyWhenCoherent

\* A pass without both readings, or in a fail-safe, never moves the fans.
THEOREM FansHeld == Spec => FansHeldWithoutReadings
<1>1. TypeOK /\ ControlInv /\ [Next]_vars
        => [bmcSpeed' # bmcSpeed =>
              failsafeCause = "none" /\ SensorsOk(sample)]_vars
  BY StepToSpeed
<1>2. QED
  BY <1>1, ControlInvariance, PTL DEF Spec, FansHeldWithoutReadings

-----------------------------------------------------------------------------
(***************************************************************************)
(* The hand-back, when a reclaim that is reported failed has no effect.    *)
(* This is the assumption of fan.go's comment on the reclaim; without it   *)
(* the two theorems below are false.                                       *)
(***************************************************************************)
ReclaimNeverLost == "reclaim" \notin Lossy

LEMMA FailedReclaimHasNoEffect ==
  ASSUME ReclaimNeverLost, NEW o \in Outcomes("reclaim"), o # "done"
  PROVE  ~TakesEffect(o)
BY DEF ReclaimNeverLost, Outcomes, TakesEffect

\* Before the loop learns of it, a restore that took effect has the BMC in
\* automatic mode already.
HandBackInv ==
  /\ HandedBackMeansAuto
  /\ pc \in {"retry", "trip"} /\ TakesEffect(reply) => bmcMode = "auto"

LEMMA NextHandedBack ==
  ASSUME ReclaimNeverLost, TypeOK, ControlInv, HandBackInv, [Next]_vars
  PROVE  HandBackInv'
<1> USE DEF HandBackInv, HandedBackMeansAuto, ControlInv, PlaceInv, GoTo,
            Returns, failsafeVars, bmcVars, loopVars
<1>1. CASE Start \/ WriteDone \/ WriteFails
  BY <1>1 DEF Start, WriteDone, WriteFails
<1>2. CASE Tick \/ Record \/ Decide \/ CountWriteFailure
  BY <1>2, WhoWaits DEF Tick, Record, Decide, CountWriteFailure, ReplyInv,
                        TakesEffect, RestorePending
<1>3. CASE AttemptRestore
  BY <1>3 DEF AttemptRestore, TakesEffect
<1>4. CASE \E s \in Samples : ReadSensors(s)
  <2>1. reply = "none"
    BY <1>4, WhoWaits DEF ReplyInv, ReadSensors, ReadInWriteFailsafe,
       ReadFails, ReadHealthy, ReadWhileRestorePending, ReadRecovered
  <2>2. QED
    BY <1>4, <2>1 DEF ReadSensors, ReadInWriteFailsafe, ReadFails,
       ReadHealthy, ReadWhileRestorePending, ReadRecovered, TakesEffect
<1>5. CASE Reclaim
  <2>1. CASE reply = "done"
    BY <1>5, <2>1 DEF Reclaim, TakesEffect
  <2>2. CASE reply # "done"
    <3>1. ~TakesEffect(reply)
      BY <1>5, <2>2, FailedReclaimHasNoEffect, WhoWaits DEF Reclaim, ReplyInv
    <3>2. QED
      BY <1>5, <2>2, <3>1 DEF Reclaim, TakesEffect
  <2>3. QED
    BY <2>1, <2>2
<1>6. CASE BmcStep
  BY <1>6, BmcStepCases DEF SendMode, SendSpeed, TakesEffect
<1>7. CASE Request \/ Elapse \/ UNCHANGED vars
  BY <1>7 DEF Request, SetOverride, ClearOverride, AddHint, RemoveHint,
              Elapse, vars
<1>8. QED
  BY <1>1, <1>2, <1>3, <1>4, <1>5, <1>6, <1>7 DEF Next, LoopStep

\* A fail-safe whose restore is reported as confirmed has the BMC in
\* automatic mode, also while commands are in flight, but for a reclaim that
\* the BMC has obeyed and that has yet to return.
THEOREM HandedBackIsAuto ==
  ASSUME ReclaimNeverLost
  PROVE  Spec => []HandedBackMeansAuto
<1>1. Init => HandBackInv
  BY DEF Init, HandBackInv, HandedBackMeansAuto
<1>2. TypeOK /\ ControlInv /\ HandBackInv /\ [Next]_vars => HandBackInv'
  BY NextHandedBack
<1>3. HandBackInv => HandedBackMeansAuto
  BY DEF HandBackInv
<1>4. QED
  BY <1>1, <1>2, <1>3, ControlInvariance, PTL DEF Spec

LEMMA StepHandsBack ==
  ASSUME ReclaimNeverLost, TypeOK, ControlInv, HandBackInv, [Next]_vars
  PROVE  [HB!Next]_HB!vars
<1> USE DEF HB!Next, HB!vars, HB!Claim, HB!Trip, HB!HandOver,
            HB!HandOverUnseen, HB!Reclaim, Reclaimed, ControlInv, PlaceInv,
            GoTo, Returns, failsafeVars, bmcVars, loopVars
<1>1. CASE Start \/ WriteDone \/ WriteFails
  BY <1>1 DEF Start, WriteDone, WriteFails
<1>2. CASE AttemptRestore
  BY <1>2 DEF AttemptRestore, HandBackInv, TakesEffect
<1>3. CASE CountWriteFailure
  BY <1>3 DEF CountWriteFailure
<1>4. ASSUME NEW s \in Samples, ReadSensors(s)
      PROVE  HB!Trip \/ UNCHANGED HB!vars
  <2>1. reply = "none"
    BY <1>4, WhoWaits DEF ReplyInv, ReadSensors, ReadInWriteFailsafe,
       ReadFails, ReadHealthy, ReadWhileRestorePending, ReadRecovered
  <2>2. CASE ReadFails(s)
    BY <2>1, <2>2 DEF ReadFails
  <2>3. CASE ~ReadFails(s)
    BY <1>4, <2>1, <2>3 DEF ReadSensors, ReadInWriteFailsafe, ReadHealthy,
       ReadWhileRestorePending, ReadRecovered
  <2>4. QED
    BY <2>2, <2>3
<1>5. CASE Reclaim
  BY <1>5 DEF Reclaim
<1>6. CASE Tick \/ Record \/ Decide
  BY <1>6 DEF Tick, Record, Decide
<1>7. CASE BmcStep
  <2>1. CASE pc = "start"
    BY <1>7, <2>1, BmcStepCases DEF SendMode
  <2>2. CASE pc \in {"retry", "trip"}
    BY <1>7, <2>2, BmcStepCases DEF SendMode
  <2>3. CASE pc = "write"
    BY <1>7, <2>3, BmcStepCases DEF SendSpeed
  <2>4. CASE pc = "reclaim"
    <3>1. reply = "none" /\ reply' \in Outcomes("reclaim")
          /\ UNCHANGED <<pc, failsafeCause, restoreConfirmed>>
          /\ SendMode("manual", reply')
      BY <1>7, <2>4, BmcStepCases
    <3>2. CASE reply' = "done"
      BY <2>4, <3>1, <3>2 DEF SendMode, TakesEffect
    <3>3. CASE reply' # "done"
      BY <2>4, <3>1, <3>3, FailedReclaimHasNoEffect DEF SendMode
    <3>4. QED
      BY <3>2, <3>3
  <2>5. QED
    BY <1>7, <2>1, <2>2, <2>3, <2>4, BmcStepCases
<1>8. CASE Request \/ Elapse \/ UNCHANGED vars
  BY <1>8 DEF Request, SetOverride, ClearOverride, AddHint, RemoveHint,
              Elapse, vars
<1>9. QED
  BY <1>1, <1>2, <1>3, <1>4, <1>5, <1>6, <1>7, <1>8 DEF Next, LoopStep

\* The controller implements the safety part of HandBack: cooling has one
\* owner at a time, a hand-back is undone only once it is confirmed, and one
\* because of failed fan writes never is.
THEOREM HandsBack ==
  ASSUME ReclaimNeverLost
  PROVE  Spec => HB!SafetySpec
<1>1. Init => HB!Init /\ HandBackInv
  BY DEF Init, HB!Init, HandBackInv, HandedBackMeansAuto
<1>2. TypeOK /\ ControlInv /\ HandBackInv /\ [Next]_vars => HandBackInv'
  BY NextHandedBack
<1>3. TypeOK /\ ControlInv /\ HandBackInv /\ [Next]_vars
        => [HB!Next]_HB!vars
  BY StepHandsBack
<1>4. QED
  BY <1>1, <1>2, <1>3, ControlInvariance, PTL DEF Spec, HB!SafetySpec

-----------------------------------------------------------------------------
(***************************************************************************)
(* The speed the fans really have.  A write that the BMC has obeyed shows  *)
(* at the fans before the controller knows, and whatever it learns of it   *)
(* then is reported.                                                       *)
(***************************************************************************)
SpeedInv ==
  /\ ReportedSpeedIsReal
  /\ CriticalIsAnswered
  /\ pc = "write" /\ TakesEffect(reply) => bmcSpeed = targetSpeed
  /\ pc = "write" /\ IsCritical(sample) => targetSpeed = EmergencySpeed
  /\ pc = "fail" => lastWriteFailed

LEMMA DecideAnswersCritical ==
  ASSUME TypeOK, Decide, IsCritical(sample)
  PROVE  targetSpeed' = EmergencySpeed
BY DEF Decide, CalculateTarget

LEMMA NextSpeedInv ==
  ASSUME TypeOK, ControlInv, SpeedInv, [Next]_vars
  PROVE  SpeedInv'
<1> USE DEF SpeedInv, ReportedSpeedIsReal, CriticalIsAnswered, ControlInv,
            PlaceInv, GoTo, Returns, failsafeVars, speedVars, bmcVars,
            loopVars
<1>1. CASE Start \/ Tick \/ AttemptRestore \/ Reclaim
  BY <1>1 DEF Start, Tick, AttemptRestore, Reclaim
<1>2. ASSUME NEW s, ReadFails(s) PROVE SpeedInv'
  BY <1>2 DEF ReadFails
<1>3. ASSUME NEW s, ReadInWriteFailsafe(s) \/ ReadHealthy(s)
                    \/ ReadWhileRestorePending(s) \/ ReadRecovered(s)
      PROVE  SpeedInv'
  BY <1>3 DEF ReadInWriteFailsafe, ReadHealthy, ReadWhileRestorePending,
              ReadRecovered
<1>4. CASE Record
  BY <1>4 DEF Record
<1>5. CASE Decide
  <2>1. reply' = "none"
    BY <1>5, WhoWaits DEF Decide, ReplyInv
  <2>2. QED
    BY <1>5, <2>1, DecideAnswersCritical DEF Decide, TakesEffect
<1>6. CASE WriteDone
  BY <1>6 DEF WriteDone, TakesEffect
<1>7. CASE WriteFails
  BY <1>7 DEF WriteFails
<1>8. CASE CountWriteFailure
  BY <1>8 DEF CountWriteFailure
<1>9. CASE BmcStep
  BY <1>9, BmcStepCases DEF SendMode, SendSpeed, TakesEffect
<1>10. CASE Request \/ Elapse \/ UNCHANGED vars
  BY <1>10 DEF Request, SetOverride, ClearOverride, AddHint, RemoveHint,
               Elapse, vars
<1>11. QED
  BY <1>1, <1>2, <1>3, <1>4, <1>5, <1>6, <1>7, <1>8, <1>9, <1>10
     DEF Next, LoopStep, ReadSensors

LEMMA SpeedInvariance == Spec => []SpeedInv
<1>1. Init => SpeedInv
  BY DEF Init, SpeedInv, ReportedSpeedIsReal, CriticalIsAnswered, TakesEffect
<1>2. TypeOK /\ ControlInv /\ SpeedInv /\ [Next]_vars => SpeedInv'
  BY NextSpeedInv
<1>3. QED
  BY <1>1, <1>2, ControlInvariance, PTL DEF Spec

\* After a pass that read a critical temperature the fans stand at the
\* emergency speed, unless the write failed or the BMC is cooling.
THEOREM CriticalAnswered == Spec => []CriticalIsAnswered
<1>1. SpeedInv => CriticalIsAnswered
  BY DEF SpeedInv
<1>2. QED
  BY <1>1, SpeedInvariance, PTL

\* The reported speed is the BMC's, unless a failed write is reported too, or
\* a write that the BMC has obeyed has yet to return: then the BMC has the
\* reported target.
THEOREM ReportedIsReal == Spec => []ReportedSpeedIsReal
<1>1. SpeedInv => ReportedSpeedIsReal
  BY DEF SpeedInv
<1>2. QED
  BY <1>1, SpeedInvariance, PTL
=============================================================================
