-------------------------- MODULE LifecycleProofs --------------------------
(***************************************************************************)
(* Theorems about Lifecycle, for every configuration and every fault       *)
(* model, over any number of restarts.  The inductive invariant adds to    *)
(* those of FanControl what the process knows of the BMC: a restore that   *)
(* succeeded lasts unless the loop that Stop left running stands in front  *)
(* of a command that enables manual mode.                                  *)
(***************************************************************************)
EXTENDS Lifecycle, FanControlProofs

USE LifecycleAssumption

\* Where the processes of a run can be, together.
PlacesInv ==
  /\ main \in {"loading", "refused"} => loop = "idle"
  /\ loop = "idle" => main \in {"loading", "refused", "killed"}
  /\ restored /\ loop \in {"idle", "running"}
       => main \in {"teardown", "exited", "killed"}
  /\ main \in {"loading", "refused"} => ~restored

OnceInv ==
  /\ restores = IF once = "fresh" THEN 0 ELSE 1
  /\ restored => once = "done"
  /\ main \in {"teardown", "exited"} => once = "done"

\* While cleanStop holds the loop has no way to manual mode.
CleanInv == cleanStop => pc # "start" /\ failsafeCause # "sensor"

RestoredInv ==
  restored =>
    \/ bmcMode = "auto"
    \/ ~cleanStop /\ main \in {"teardown", "exited", "killed"}

IdleInv == loop = "idle" /\ clean => bmcMode = "auto"

\* LTypeOK, in parts that the provers can take one at a time.
PlacesOK ==
  /\ main \in {"loading", "refused", "starting", "select", "stopping",
               "restoring", "teardown", "exited", "killed"}
  /\ loop \in {"idle", "running", "recovering", "reporting", "returned"}
  /\ api \in {"idle", "serving", "failed", "reported"}
  /\ once \in {"fresh", "main", "loop", "done"}

FlagsOK ==
  /\ stopped \in BOOLEAN /\ restored \in BOOLEAN /\ sig \in BOOLEAN
  /\ cleanStop \in BOOLEAN /\ clean \in BOOLEAN

CountsOK == errs \in 0 .. 1 /\ restores \in 0 .. 2

LInv ==
  /\ TypeOK /\ ControlInv
  /\ PlacesOK /\ FlagsOK /\ CountsOK
  /\ PlacesInv /\ OnceInv /\ CleanInv /\ RestoredInv /\ IdleInv

-----------------------------------------------------------------------------
(***************************************************************************)
(* What the controller's own invariants need of a step of the process.     *)
(***************************************************************************)
LEMMA ControllerIdle ==
  ASSUME TypeOK, ControlInv, UNCHANGED vars
  PROVE  TypeOK' /\ ControlInv'
BY NextTypeOK, NextControlInv

LEMMA OnlyBmc ==
  ASSUME TypeOK, ControlInv,
         UNCHANGED <<loopVars, failsafeVars, speedVars, requestVars>>,
         bmcMode' \in {"auto", "manual"}, bmcSpeed' \in Speeds
  PROVE  TypeOK' /\ ControlInv'
BY DEF TypeOK, ControlInv, PlaceInv, ReplyInv, loopVars, failsafeVars,
       speedVars, requestVars

\* A step of the loop other than Run's first command never leads back to it.
LEMMA NeverStartsAgain ==
  ASSUME LoopStep \/ BmcStep, pc # "start"
  PROVE  pc' # "start"
BY BmcStepCases DEF LoopStep, Start, Tick, AttemptRestore, ReadSensors,
       ReadInWriteFailsafe, ReadFails, ReadHealthy, ReadWhileRestorePending,
       ReadRecovered, Reclaim, Record, Decide, WriteDone, WriteFails, CountWriteFailure,
       GoTo, Returns

LEMMA LoopIsNext == LoopStep \/ BmcStep => [Next]_vars
BY DEF Next

LEMMA BmcModes ==
  ASSUME TypeOK
  PROVE  bmcMode \in {"auto", "manual"}
BY DEF TypeOK

-----------------------------------------------------------------------------
LEMMA InitLInv == LInit => LInv
<1> SUFFICES ASSUME LInit PROVE LInv
  OBVIOUS
<1>1. TypeOK /\ pc = "start" /\ failsafeCause = "none" /\ bmcMode = "auto"
      /\ ~restoreConfirmed
  BY InitTypeOK DEF LInit, Init
<1>2. PlacesOK /\ FlagsOK /\ CountsOK
  <2>1. PlacesOK
    BY DEF LInit, PlacesOK
  <2>2. FlagsOK
    BY DEF LInit, FlagsOK
  <2>3. CountsOK
    BY DEF LInit, CountsOK
  <2>4. QED
    BY <2>1, <2>2, <2>3
<1>3. ControlInv
  BY <1>1 DEF ControlInv, PlaceInv, ReplyInv, LInit, Init
<1>4. QED
  BY <1>1, <1>2, <1>3 DEF LInit, LInv, PlacesInv, OnceInv, CleanInv,
     RestoredInv, IdleInv

\* LoopRuns is the only step of the process that changes the controller's
\* variables, apart from the BMC.
LEMMA LoopRunsLInv ==
  ASSUME LInv, LoopRuns, UNCHANGED clean
  PROVE  LInv'
<1>1. (LoopStep \/ BmcStep) /\ TypeOK /\ ControlInv
  BY DEF LoopRuns, LInv
<1>2. TypeOK' /\ ControlInv'
  BY <1>1, LoopIsNext, NextTypeOK, NextControlInv
<1>3. /\ PlacesOK' /\ FlagsOK' /\ CountsOK'
      /\ PlacesInv' /\ OnceInv' /\ IdleInv'
  BY <1>2 DEF LoopRuns, LInv, PlacesOK, FlagsOK, CountsOK, PlacesInv,
     OnceInv, IdleInv
<1>4. CleanInv'
  BY <1>1, NeverStartsAgain DEF LoopRuns, LInv, CleanInv
<1>5. RestoredInv'
  <2>1. CASE bmcMode = "auto" /\ bmcMode' = "manual"
    <3>1. pc = "start" \/ failsafeCause = "sensor"
      BY <1>1, <2>1, LoopIsNext, StepToManual
    <3>2. ~cleanStop'
      BY <3>1 DEF LInv, CleanInv, LoopRuns
    <3>3. QED
      BY <3>2 DEF LoopRuns, LInv, PlacesInv, RestoredInv
  <2>2. CASE ~(bmcMode = "auto" /\ bmcMode' = "manual")
    <3>1. bmcMode' = "auto" \/ bmcMode # "auto"
      BY <1>1, <1>2, <2>2 DEF TypeOK
    <3>2. QED
      BY <3>1 DEF LoopRuns, LInv, RestoredInv
  <2>3. QED
    BY <2>1, <2>2
<1>6. QED
  BY <1>2, <1>3, <1>4, <1>5 DEF LInv

\* A goroutine that leaves the Once has sent the BMC to automatic mode.
LEMMA LeaveOnceLInv ==
  ASSUME LInv, UNCHANGED clean, NEW o, loop # "idle",
         \/ LeaveOnce("loop", o) /\ loop' = "reporting" /\ UNCHANGED main
         \/ LeaveOnce("main", o) /\ main' = "teardown" /\ UNCHANGED loop
  PROVE  LInv'
<1> USE DEF LeaveOnce, SendMode, LInv
<1>1. bmcMode' \in {"auto", "manual"} /\ bmcSpeed' \in Speeds
  BY DEF TypeOK
<1>2. TypeOK' /\ ControlInv'
  BY <1>1, OnlyBmc
<1>3. restored' => bmcMode' = "auto"
  BY DEF TakesEffect
<1>4. UNCHANGED <<pc, failsafeCause>>
  BY DEF loopVars, failsafeVars
<1>5. PlacesOK' /\ FlagsOK' /\ CountsOK'
  BY DEF PlacesOK, FlagsOK, CountsOK
<1>6. PlacesInv' /\ OnceInv' /\ CleanInv'
  BY <1>4 DEF PlacesInv, OnceInv, CleanInv
<1>7. RestoredInv' /\ IdleInv'
  BY <1>3 DEF RestoredInv, IdleInv, PlacesInv
<1>8. QED
  BY <1>2, <1>5, <1>6, <1>7

\* The steps of the process that leave the controller and the BMC alone.
LEMMA ProcessStepLInv ==
  ASSUME LInv, UNCHANGED <<vars, clean>>,
         \/ LoopReturns \/ LoopPanics \/ PanicReported
         \/ EnterOnce("loop") /\ ~Gone /\ loop = "recovering"
         \/ EnterOnce("main") /\ main = "restoring"
         \/ ApiServerFails \/ ApiReports \/ Signalled \/ Killed
         \/ Refuse \/ Launch \/ Notified \/ TakeSignal \/ TakeError
         \/ Stop \/ Exit
  PROVE  LInv'
<1> USE DEF LInv, EnterOnce, Gone, Move
<1>1. TypeOK' /\ ControlInv'
  BY ControllerIdle
<1>2. UNCHANGED <<pc, failsafeCause, bmcMode>>
  BY DEF vars, loopVars, failsafeVars, bmcVars
<1>3. CASE \/ LoopReturns \/ LoopPanics \/ PanicReported
           \/ ApiServerFails \/ ApiReports
  BY <1>1, <1>2, <1>3 DEF PlacesOK, FlagsOK, CountsOK, PlacesInv, OnceInv,
     CleanInv, RestoredInv, IdleInv, LoopReturns, LoopPanics, PanicReported,
     ApiServerFails, ApiReports
<1>4. CASE \/ EnterOnce("loop") /\ ~Gone /\ loop = "recovering"
           \/ EnterOnce("main") /\ main = "restoring"
  BY <1>1, <1>2, <1>4 DEF PlacesOK, FlagsOK, CountsOK, PlacesInv, OnceInv,
     CleanInv, RestoredInv, IdleInv
<1>5. CASE Signalled \/ Killed \/ Refuse \/ Launch
  <2> USE <1>2, <1>5 DEF Signalled, Killed, Refuse, Launch
  <2>1. PlacesOK'
    BY DEF PlacesOK
  <2>2. FlagsOK'
    BY DEF FlagsOK
  <2>3. CountsOK'
    BY DEF CountsOK, OnceInv
  <2>4. PlacesInv'
    BY DEF PlacesInv
  <2>5. OnceInv'
    BY DEF OnceInv
  <2>6. CleanInv'
    BY DEF CleanInv
  <2>7. RestoredInv'
    BY DEF RestoredInv, PlacesInv
  <2>8. IdleInv'
    BY DEF IdleInv
  <2>9. QED
    BY <1>1, <2>1, <2>2, <2>3, <2>4, <2>5, <2>6, <2>7, <2>8
<1>6. CASE Notified \/ TakeSignal \/ TakeError \/ Stop \/ Exit
  <2> USE <1>2, <1>6 DEF Notified, TakeSignal, TakeError, Stop, Exit
  <2>1. PlacesOK'
    BY DEF PlacesOK
  <2>2. FlagsOK'
    BY DEF FlagsOK
  <2>3. CountsOK'
    BY DEF CountsOK, OnceInv
  <2>4. PlacesInv'
    BY DEF PlacesInv
  <2>5. OnceInv'
    BY DEF OnceInv
  <2>6. CleanInv'
    BY DEF CleanInv
  <2>7. RestoredInv'
    BY DEF RestoredInv, PlacesInv
  <2>8. IdleInv'
    BY DEF IdleInv
  <2>9. QED
    BY <1>1, <2>1, <2>2, <2>3, <2>4, <2>5, <2>6, <2>7, <2>8
<1>7. QED
  BY <1>3, <1>4, <1>5, <1>6

\* Whoever skips the Once finds the restore done.
LEMMA SkipOnceLInv ==
  ASSUME LInv, UNCHANGED clean, SkipOnce,
         \/ loop = "recovering" /\ loop' = "reporting" /\ UNCHANGED main
         \/ main = "restoring" /\ main' = "teardown" /\ UNCHANGED loop
  PROVE  LInv'
<1> USE DEF LInv, SkipOnce
<1>1. TypeOK' /\ ControlInv'
  BY ControllerIdle
<1>2. UNCHANGED <<pc, failsafeCause, bmcMode>>
  BY DEF vars, loopVars, failsafeVars, bmcVars
<1>3. QED
  BY <1>1, <1>2 DEF PlacesOK, FlagsOK, CountsOK, PlacesInv, OnceInv,
     CleanInv, RestoredInv, IdleInv

LEMMA OrphanLandsLInv ==
  ASSUME LInv, OrphanLands, UNCHANGED clean
  PROVE  LInv'
<1> USE DEF LInv, OrphanLands, Gone, procVars
<1>1. BmcStep
  BY Replies DEF BmcStep
<1>2. TypeOK' /\ ControlInv'
  BY <1>1, LoopIsNext, NextTypeOK, NextControlInv
<1>3. UNCHANGED <<pc, failsafeCause>>
  BY <1>1, BmcStepCases DEF failsafeVars
<1>4. bmcMode' = "manual" => bmcMode = "manual" \/ ~cleanStop
  <2> SUFFICES ASSUME bmcMode' = "manual", bmcMode = "auto"
               PROVE  ~cleanStop
    BY DEF TypeOK
  <2>1. pc = "start" \/ failsafeCause = "sensor"
    BY <1>1, LoopIsNext, StepToManual
  <2>2. QED
    BY <2>1 DEF CleanInv
<1>5. RestoredInv'
  BY <1>2, <1>4 DEF RestoredInv, PlacesInv, TypeOK
<1>6. QED
  BY <1>2, <1>3, <1>5 DEF PlacesOK, FlagsOK, CountsOK, PlacesInv, OnceInv,
     CleanInv, IdleInv

\* A new process knows nothing; clean tells what the BMC is like.
LEMMA RestartLInv ==
  ASSUME LInv, Restart
  PROVE  LInv'
<1> USE DEF LInv, Restart
<1>1. bmcMode' \in {"auto", "manual"} /\ bmcSpeed' \in Speeds
  BY DEF TypeOK, bmcVars
<1>2. sample' \in [cpu : Int, gpu : Int] /\ sinceOver' \in Int
  BY DEF NoTemp, Never
<1>3. {currentSpeed', targetSpeed', bmcSpeed'} \subseteq Speeds
  BY <1>1, NoSpeedIsASpeed
<1>4. /\ sensorFailCount' \in 0 .. SensorFailureLimit
      /\ writeFailCount' \in 0 .. WriteFailureLimit
  BY ZeroIsACount
<1>5. TypeOK'
  BY <1>1, <1>2, <1>3, <1>4 DEF TypeOK, Causes
<1>6. ControlInv'
  BY DEF ControlInv, PlaceInv, ReplyInv
<1>7. clean' => bmcMode' = "auto"
  BY DEF EndsClean, IdleInv, RestoredInv, bmcVars
<1>8. PlacesOK'
  BY DEF PlacesOK
<1>9. FlagsOK'
  BY DEF FlagsOK
<1>10. CountsOK'
  BY DEF CountsOK, OnceInv
<1>11. PlacesInv'
  BY DEF PlacesInv
<1>12. OnceInv'
  BY DEF OnceInv
<1>13. CleanInv'
  BY DEF CleanInv
<1>14. RestoredInv'
  BY DEF RestoredInv, PlacesInv
<1>15. IdleInv'
  BY <1>7 DEF IdleInv
<1>16. QED
  BY <1>5, <1>6, <1>8, <1>9, <1>10, <1>11, <1>12, <1>13, <1>14, <1>15

LEMMA NextLInv == LInv /\ [LNext]_lvars => LInv'
<1> SUFFICES ASSUME LInv, [LNext]_lvars PROVE LInv'
  OBVIOUS
<1>1. CASE LoopRuns /\ UNCHANGED clean
  BY <1>1, LoopRunsLInv
<1>2. CASE RecoverRestores /\ UNCHANGED clean
  <2>1. CASE EnterOnce("loop")
    BY <1>2, <2>1, ProcessStepLInv DEF RecoverRestores, EnterOnce
  <2>2. CASE SkipOnce /\ loop' = "reporting" /\ UNCHANGED main
    BY <1>2, <2>2, SkipOnceLInv DEF RecoverRestores
  <2>3. ASSUME NEW o, LeaveOnce("loop", o), loop' = "reporting",
               UNCHANGED main
        PROVE  LInv'
    BY <1>2, <2>3, LeaveOnceLInv DEF RecoverRestores
  <2>4. QED
    BY <1>2, <2>1, <2>2, <2>3 DEF RecoverRestores
<1>3. CASE MainRestores /\ UNCHANGED clean
  <2>1. CASE EnterOnce("main")
    BY <1>3, <2>1, ProcessStepLInv DEF MainRestores, EnterOnce
  <2>2. CASE SkipOnce /\ main' = "teardown" /\ UNCHANGED loop
    BY <1>3, <2>2, SkipOnceLInv DEF MainRestores
  <2>3. ASSUME NEW o, LeaveOnce("main", o), main' = "teardown",
               UNCHANGED loop
        PROVE  LInv'
    <3>1. loop # "idle"
      BY <1>3 DEF MainRestores, LInv, PlacesInv
    <3>2. QED
      BY <1>3, <2>3, <3>1, LeaveOnceLInv
  <2>4. QED
    BY <1>3, <2>1, <2>2, <2>3 DEF MainRestores
<1>4. CASE /\ \/ LoopReturns \/ LoopPanics \/ PanicReported
              \/ ApiServerFails \/ ApiReports \/ Signalled \/ Killed
              \/ Refuse \/ Launch \/ Notified \/ TakeSignal \/ TakeError
              \/ Stop \/ Exit
           /\ UNCHANGED clean
  <2>1. UNCHANGED vars
    BY <1>4 DEF LoopReturns, LoopPanics, PanicReported, ApiServerFails,
       ApiReports, Signalled, Killed, Refuse, Launch, Notified, TakeSignal,
       TakeError, Stop, Exit
  <2>2. QED
    BY <1>4, <2>1, ProcessStepLInv
<1>5. CASE OrphanLands /\ UNCHANGED clean
  BY <1>5, OrphanLandsLInv
<1>6. CASE Restart
  BY <1>6, RestartLInv
<1>7. CASE UNCHANGED lvars
  <2>1. TypeOK' /\ ControlInv'
    BY <1>7, ControllerIdle DEF LInv, lvars, processVars
  <2>2. UNCHANGED <<pc, failsafeCause, bmcMode, procVars, clean>>
    BY <1>7 DEF lvars, processVars, vars, loopVars, failsafeVars, bmcVars
  <2>3. QED
    BY <2>1, <2>2 DEF procVars, LInv, PlacesOK, FlagsOK, CountsOK,
       PlacesInv, OnceInv, CleanInv, RestoredInv, IdleInv
<1>8. QED
  BY <1>1, <1>2, <1>3, <1>4, <1>5, <1>6, <1>7
     DEF LNext, LoopGoroutine, MainGoroutine

LEMMA LInvariance == LSpec => []LInv
<1>1. LInit => LInv
  BY InitLInv
<1>2. LInv /\ [LNext]_lvars => LInv'
  BY NextLInv
<1>3. QED
  BY <1>1, <1>2, PTL DEF LSpec

-----------------------------------------------------------------------------
\* The process keeps to its types: in particular errCh never holds more than
\* the one error it has room for.
THEOREM ProcessTypeCorrect == LSpec => []LTypeOK
<1>1. LInv => LTypeOK
  BY DEF LInv, PlacesOK, FlagsOK, CountsOK, LTypeOK
<1>2. QED
  BY <1>1, LInvariance, PTL

\* The Once: the panic handler and the shutdown path issue RestoreAutoMode
\* once between them, and run does not return before it was answered.
THEOREM RestoresOnce == LSpec => []RestoreRunsOnce
<1>1. LInv => RestoreRunsOnce
  BY DEF LInv, OnceInv, RestoreRunsOnce
<1>2. QED
  BY <1>1, LInvariance, PTL

\* A stop that finds the loop in control, with no sensor fail-safe then or
\* later, ends in automatic mode when the restore succeeded, although nobody
\* waits for the loop.
THEOREM CleanExit == LSpec => []CleanExitIsAuto
<1>1. LInv => CleanExitIsAuto
  BY DEF LInv, RestoredInv, CleanExitIsAuto
<1>2. QED
  BY <1>1, LInvariance, PTL

\* A process that never starts its loop leaves the BMC in control of the
\* fans, when the processes before it did.
THEOREM RefusedStart == LSpec => []RefusedStartIsSafe
<1>1. LInv => RefusedStartIsSafe
  BY DEF LInv, PlacesInv, IdleInv, RefusedStartIsSafe
<1>2. QED
  BY <1>1, LInvariance, PTL
=============================================================================
