----------------------------- MODULE FanControl -----------------------------
(***************************************************************************)
(* The fan controller: the control-loop goroutine of FanController, the    *)
(* HTTP and MQTT operations that run concurrently with it, the clock, and  *)
(* the BMC it drives through ipmitool.                                     *)
(*                                                                         *)
(* One pass of controlLoop is split where another goroutine can run or the *)
(* BMC can change: at the sensor read, between any two critical sections,  *)
(* and at each ipmitool command twice, when the BMC acts on it and when    *)
(* the loop learns what came of it.  pc is where the loop stands:          *)
(*                                                                         *)
(*   start    Run's first enableManualMode is in flight                    *)
(*   wait     Run's select                                                 *)
(*   retry    ensureAutoRestored has RestoreAutoMode in flight             *)
(*   read     the sensors are being read                                   *)
(*   reclaim  enableManualMode is in flight, to leave a sensor fail-safe   *)
(*   record   about to run recordReadings                                  *)
(*   decide   about to run calculateTarget                                 *)
(*   write    setFanSpeed has the fan-speed command in flight              *)
(*   fail     about to run handleWriteFailure                              *)
(*   trip     enterFailsafe has RestoreAutoMode in flight                  *)
(***************************************************************************)
EXTENDS TargetSpeed

CONSTANTS
  Samples,              \* what one read of both sensors can return
  Sources,              \* the sources hints are keyed by
  Intensities,          \* the hint intensities clients use
  OverrideSpeeds,       \* the override speeds clients ask for
  Durations,            \* the lifetimes clients ask for, in clock units
  SensorFailureLimit,   \* sensorFailureLimit(), after its default
  WriteFailureLimit,    \* writeFailureLimit(), after its default
  Failing,              \* the commands that can fail without effect
  Lossy                 \* the commands that can take effect yet be reported
                        \* failed: killed at the deadline after the BMC acted

\* The calls of ipmitool, by the place that makes them.
Commands == {"start", "reclaim", "write", "restore"}

ASSUME ControllerAssumption ==
  /\ Samples \subseteq [cpu : Int, gpu : Int]
  /\ OverrideSpeeds \subseteq 0 .. 100
  /\ Durations \subseteq Int
  /\ SensorFailureLimit \in Nat \ {0}
  /\ WriteFailureLimit \in Nat \ {0}
  /\ Failing \subseteq Commands /\ Lossy \subseteq Commands

VARIABLES
  pc,
  reply,             \* what the command in flight came to; "none" before the
                     \* BMC has acted on it, and when none is in flight
  sample,            \* the local cpuReading and gpuReading of this pass
  failsafeCause,
  restoreConfirmed,
  sensorFailCount,
  writeFailCount,
  lastWriteFailed,
  currentSpeed,      \* the last speed confirmed written; 0 before the first
  targetSpeed,
  sinceOver,         \* age of lastOverThreshold
  override,          \* {} or the one override in force
  hints,             \* at most one hint for each source
  bmcMode,           \* the BMC: "auto" or "manual" fan mode
  bmcSpeed           \* the BMC: the last manual speed it was sent

loopVars == <<pc, reply, sample, sensorFailCount, writeFailCount>>
failsafeVars == <<failsafeCause, restoreConfirmed>>
speedVars == <<lastWriteFailed, currentSpeed, targetSpeed, sinceOver>>
requestVars == <<override, hints>>
bmcVars == <<bmcMode, bmcSpeed>>
vars == <<loopVars, failsafeVars, speedVars, requestVars, bmcVars>>

NoTemp == -1       \* a sensor whose read returned an error
Forever == -1      \* the zero ExpiresAt of a hint without a duration

\* readSensors needs both sensors: one failed read discards the other.
SensorsOk(s) == s.cpu # NoTemp /\ s.gpu # NoTemp

Causes == {"none", "sensor", "write"}

Init ==
  /\ pc = "start" /\ reply = "none"
  /\ sample = [cpu |-> NoTemp, gpu |-> NoTemp]
  /\ failsafeCause = "none" /\ restoreConfirmed = FALSE
  /\ sensorFailCount = 0 /\ writeFailCount = 0
  /\ lastWriteFailed = FALSE
  /\ currentSpeed = 0 /\ targetSpeed = 0
  /\ sinceOver = Never
  /\ override = {} /\ hints = {}
  /\ bmcMode = "auto" /\ bmcSpeed = 0

-----------------------------------------------------------------------------
(***************************************************************************)
(* An ipmitool command ends "done", "failed" (no effect), or "lost": it    *)
(* took effect and was reported failed all the same.                       *)
(***************************************************************************)
Outcomes(command) ==
  {"done"} \cup (IF command \in Failing THEN {"failed"} ELSE {})
           \cup (IF command \in Lossy THEN {"lost"} ELSE {})

TakesEffect(o) == o \in {"done", "lost"}

\* Sending the BMC a fan mode; a command without effect leaves it alone.
SendMode(mode, o) ==
  /\ bmcMode' = IF TakesEffect(o) THEN mode ELSE bmcMode
  /\ UNCHANGED bmcSpeed

SendSpeed(speed, o) ==
  /\ bmcSpeed' = IF TakesEffect(o) THEN speed ELSE bmcSpeed
  /\ UNCHANGED bmcMode

(***************************************************************************)
(* The BMC and the command in flight.  Between the two, the BMC has        *)
(* changed and no variable of the controller has.                          *)
(***************************************************************************)
InFlight == [start |-> "start", retry |-> "restore", trip |-> "restore",
             reclaim |-> "reclaim", write |-> "write"]

BmcActs(command, o) ==
  /\ pc \in DOMAIN InFlight /\ InFlight[pc] = command
  /\ reply = "none" /\ reply' = o
  /\ \/ command \in {"start", "reclaim"} /\ SendMode("manual", o)
     \/ command = "restore" /\ SendMode("auto", o)
     \/ command = "write" /\ SendSpeed(targetSpeed, o)
  /\ UNCHANGED <<pc, sample, sensorFailCount, writeFailCount, failsafeVars,
                 speedVars, requestVars>>

BmcStep ==
  \E command \in Commands : \E o \in Outcomes(command) : BmcActs(command, o)

\* A step of the loop: one that issues a command leaves reply at "none".
GoTo(from, to) == pc = from /\ pc' = to /\ UNCHANGED reply

\* ipmitool returns, or is killed at its deadline.
Returns(from, to) ==
  /\ pc = from /\ reply # "none"
  /\ pc' = to /\ reply' = "none"

(***************************************************************************)
(* Run's first enableManualMode.  A failure is only logged: the loop goes  *)
(* on to control the fans either way.                                      *)
(***************************************************************************)
Start ==
  /\ Returns("start", "read")
  /\ UNCHANGED <<sample, sensorFailCount, writeFailCount, failsafeVars,
                 speedVars, requestVars, bmcVars>>

RestorePending == failsafeCause # "none" /\ ~restoreConfirmed

\* Seeded bug: a pending restore is not retried.
TickWithoutRetry ==
  /\ GoTo("wait", "read")
  /\ UNCHANGED <<sample, sensorFailCount, writeFailCount, failsafeVars,
                 speedVars, requestVars, bmcVars>>

\* Seeded bug: every pass asserts manual mode again.
TickAssertingManual ==
  /\ GoTo("wait", IF RestorePending THEN "retry" ELSE "start")
  /\ UNCHANGED <<sample, sensorFailCount, writeFailCount, failsafeVars,
                 speedVars, requestVars, bmcVars>>

\* The ticker fires; controlLoop begins with ensureAutoRestored.
Tick ==
  /\ GoTo("wait", IF RestorePending THEN "retry" ELSE "read")
  /\ UNCHANGED <<sample, sensorFailCount, writeFailCount, failsafeVars,
                 speedVars, requestVars, bmcVars>>

\* Seeded bug: the restore counts as confirmed whatever came back.
RestoreUnchecked ==
  /\ \/ Returns("retry", "read")
     \/ Returns("trip", "wait")
  /\ restoreConfirmed' = TRUE
  /\ UNCHANGED <<sample, sensorFailCount, writeFailCount, failsafeCause,
                 speedVars, requestVars, bmcVars>>

\* attemptRestore, from ensureAutoRestored (retry) or enterFailsafe (trip).
AttemptRestore ==
  /\ \/ Returns("retry", "read")
     \/ Returns("trip", "wait")
  /\ restoreConfirmed' = (restoreConfirmed \/ reply = "done")
  /\ UNCHANGED <<sample, sensorFailCount, writeFailCount, failsafeCause,
                 speedVars, requestVars, bmcVars>>

-----------------------------------------------------------------------------
(***************************************************************************)
(* readSensors and the branches of controlLoop that follow it.             *)
(***************************************************************************)
\* cleanExpired, the end of recordReadings: nothing else drops the lapsed.
Unexpired(requests) == {x \in requests : x.left # 0}

\* Seeded bug: an expired override is left to the next request.
CleanExpiredHints ==
  /\ hints' = Unexpired(hints)
  /\ UNCHANGED override

CleanExpired ==
  /\ override' = Unexpired(override)
  /\ hints' = Unexpired(hints)

\* In a write fail-safe the readings are only recorded, when there are any.
ReadInWriteFailsafe(s) ==
  /\ GoTo("read", "wait")
  /\ failsafeCause = "write"
  /\ sample' = s
  /\ IF SensorsOk(s) THEN CleanExpired ELSE UNCHANGED requestVars
  /\ UNCHANGED <<sensorFailCount, writeFailCount, failsafeVars, speedVars,
                 bmcVars>>

\* The counters are compared with their limit and with 0: they stop there.
Increment(count, limit) == Smaller(count + 1, limit)

\* Seeded bug: a pass without readings goes on to set the fans.
ReadFailsCold(s) ==
  /\ ~SensorsOk(s) /\ failsafeCause = "none"
  /\ GoTo("read", "record")
  /\ sample' = s
  /\ sensorFailCount' = Increment(sensorFailCount, SensorFailureLimit)
  /\ UNCHANGED <<writeFailCount, failsafeVars, speedVars, requestVars,
                 bmcVars>>

\* handleSensorFailure; a trip from active control restores automatic mode,
\* and the fans are left where they are.
ReadFails(s) ==
  LET count == Increment(sensorFailCount, SensorFailureLimit)
      trips == count >= SensorFailureLimit /\ failsafeCause = "none"
  IN  /\ ~SensorsOk(s) /\ failsafeCause # "write"
      /\ GoTo("read", IF trips THEN "trip" ELSE "wait")
      /\ sample' = s
      /\ sensorFailCount' = count
      /\ failsafeCause' = IF trips THEN "sensor" ELSE failsafeCause
      /\ UNCHANGED <<writeFailCount, restoreConfirmed, speedVars,
                     requestVars, bmcVars>>

\* Both sensors read, no fail-safe: on to recordReadings.
ReadHealthy(s) ==
  /\ GoTo("read", "record")
  /\ SensorsOk(s) /\ failsafeCause = "none"
  /\ sample' = s
  /\ sensorFailCount' = 0
  /\ UNCHANGED <<writeFailCount, failsafeVars, speedVars, requestVars,
                 bmcVars>>

\* Sensors recovered, but automatic mode is not confirmed: record and wait.
ReadWhileRestorePending(s) ==
  /\ GoTo("read", "wait")
  /\ SensorsOk(s) /\ failsafeCause = "sensor" /\ ~restoreConfirmed
  /\ sample' = s
  /\ sensorFailCount' = 0
  /\ CleanExpired
  /\ UNCHANGED <<writeFailCount, failsafeVars, speedVars, bmcVars>>

\* Seeded bug: manual mode is reclaimed without a confirmed restore.
ReadRecoveredEarly(s) ==
  /\ GoTo("read", "reclaim")
  /\ SensorsOk(s) /\ failsafeCause = "sensor"
  /\ sample' = s
  /\ sensorFailCount' = 0
  /\ UNCHANGED <<writeFailCount, failsafeVars, speedVars, requestVars,
                 bmcVars>>

\* Sensors recovered from a confirmed fail-safe: ask for manual mode.
ReadRecovered(s) ==
  /\ GoTo("read", "reclaim")
  /\ SensorsOk(s) /\ failsafeCause = "sensor" /\ restoreConfirmed
  /\ sample' = s
  /\ sensorFailCount' = 0
  /\ UNCHANGED <<writeFailCount, failsafeVars, speedVars, requestVars,
                 bmcVars>>

\* clearFailsafe once manual mode is confirmed; on an error the pass ends
\* at once, and the readings it took are not recorded.
Reclaim ==
  /\ \/ /\ reply = "done" /\ Returns("reclaim", "record")
        /\ failsafeCause' = "none" /\ restoreConfirmed' = FALSE
        /\ sensorFailCount' = 0 /\ writeFailCount' = 0
     \/ /\ reply # "done" /\ Returns("reclaim", "wait")
        /\ UNCHANGED <<failsafeVars, sensorFailCount, writeFailCount>>
  /\ UNCHANGED <<sample, speedVars, requestVars, bmcVars>>

-----------------------------------------------------------------------------
(***************************************************************************)
(* Active control: record the readings, decide, write.                     *)
(***************************************************************************)
Record ==
  /\ GoTo("record", "decide")
  /\ CleanExpired
  /\ UNCHANGED <<sample, sensorFailCount, writeFailCount, failsafeVars,
                 speedVars, bmcVars>>

Decide ==
  /\ GoTo("decide", "write")
  /\ targetSpeed' =
       CalculateTarget(sample, currentSpeed, sinceOver, override, hints)
  /\ sinceOver' = LastOverThreshold(sample, sinceOver, override)
  /\ UNCHANGED <<sample, sensorFailCount, writeFailCount, failsafeVars,
                 lastWriteFailed, currentSpeed, requestVars, bmcVars>>

WriteDone ==
  /\ reply = "done" /\ Returns("write", "wait")
  /\ currentSpeed' = targetSpeed
  /\ lastWriteFailed' = FALSE
  /\ writeFailCount' = 0
  /\ UNCHANGED <<sample, sensorFailCount, failsafeVars, targetSpeed,
                 sinceOver, requestVars, bmcVars>>

\* Seeded bug: a failed write is counted but not reported.
WriteFailsUnreported ==
  /\ reply # "done" /\ Returns("write", "fail")
  /\ UNCHANGED <<sample, sensorFailCount, writeFailCount, failsafeVars,
                 speedVars, requestVars, bmcVars>>

\* setFanSpeed's error path.
WriteFails ==
  /\ reply # "done" /\ Returns("write", "fail")
  /\ lastWriteFailed' = TRUE
  /\ UNCHANGED <<sample, sensorFailCount, writeFailCount, failsafeVars,
                 currentSpeed, targetSpeed, sinceOver, requestVars, bmcVars>>

\* handleWriteFailure, and enterFailsafe at the limit.
CountWriteFailure ==
  LET count == Increment(writeFailCount, WriteFailureLimit)
      trips == count >= WriteFailureLimit
  IN  /\ GoTo("fail", IF trips THEN "trip" ELSE "wait")
      /\ writeFailCount' = count
      /\ failsafeCause' = IF trips THEN "write" ELSE failsafeCause
      /\ UNCHANGED <<sample, sensorFailCount, restoreConfirmed, speedVars,
                     requestVars, bmcVars>>

-----------------------------------------------------------------------------
(***************************************************************************)
(* The operations of the HTTP API and the MQTT bridge, on any goroutine,   *)
(* each one critical section.                                              *)
(***************************************************************************)
SetOverride(speed, d) ==
  /\ override' = {[speed |-> ClampSpeed(speed), left |-> OverrideLife(d)]}
  /\ UNCHANGED <<loopVars, failsafeVars, speedVars, hints, bmcVars>>

ClearOverride ==
  /\ override' = {}
  /\ UNCHANGED <<loopVars, failsafeVars, speedVars, hints, bmcVars>>

WithoutHint(source) == {h \in hints : h.source # source}

\* The handlers leave a hint without a positive duration unexpiring, and
\* reject a negative one.
AddHint(source, intensity, d) ==
  /\ d >= 0
  /\ hints' = WithoutHint(source) \cup
                {[source |-> source, min |-> HintMinSpeed(intensity),
                  left |-> IF d > 0 THEN d ELSE Forever]}
  /\ UNCHANGED <<loopVars, failsafeVars, speedVars, override, bmcVars>>

RemoveHint(source) ==
  /\ hints' = WithoutHint(source)
  /\ UNCHANGED <<loopVars, failsafeVars, speedVars, override, bmcVars>>

\* One clock unit passes.
Aged(requests) ==
  {[x EXCEPT !.left = IF @ > 0 THEN @ - 1 ELSE @] : x \in requests}

Elapse ==
  /\ sinceOver' = NextAge(sinceOver)
  /\ override' = Aged(override)
  /\ hints' = Aged(hints)
  /\ UNCHANGED <<loopVars, failsafeVars, lastWriteFailed, currentSpeed,
                 targetSpeed, bmcVars>>

-----------------------------------------------------------------------------
ReadSensors(s) ==
  \/ ReadInWriteFailsafe(s)
  \/ ReadFails(s)
  \/ ReadHealthy(s)
  \/ ReadWhileRestorePending(s)
  \/ ReadRecovered(s)

LoopStep ==
  \/ Start
  \/ Tick
  \/ AttemptRestore
  \/ \E s \in Samples : ReadSensors(s)
  \/ Reclaim
  \/ Record
  \/ Decide
  \/ WriteDone
  \/ WriteFails
  \/ CountWriteFailure

Request ==
  \/ \E speed \in OverrideSpeeds, d \in Durations : SetOverride(speed, d)
  \/ ClearOverride
  \/ \E source \in Sources, i \in Intensities, d \in Durations :
       AddHint(source, i, d)
  \/ \E source \in Sources : RemoveHint(source)

Next == LoopStep \/ BmcStep \/ Request \/ Elapse

Spec == Init /\ [][Next]_vars

(***************************************************************************)
(* The Go scheduler and the ticker run the loop, a command comes to an end *)
(* at its deadline at the latest, and the clock advances; a BMC that is    *)
(* asked again and again to resume automatic control does so at some       *)
(* point, and acknowledges it.                                             *)
(***************************************************************************)
Fairness ==
  /\ WF_vars(LoopStep) /\ WF_vars(BmcStep)
  /\ WF_vars(Elapse)
  /\ SF_vars(BmcActs("restore", "done"))

FairSpec == Spec /\ Fairness

-----------------------------------------------------------------------------
(***************************************************************************)
(* Properties.                                                             *)
(***************************************************************************)
\* The speeds the controller may ask for: the configured band and the
\* emergency speed; 0 stands for no speed written yet.
Speeds == {0, EmergencySpeed} \cup (MinSpeed .. MaxSpeed)

\* Every variable keeps to its values; in particular no speed outside the
\* band is ever computed, reported or sent, whatever a client asks for.
TypeOK ==
  /\ pc \in {"start", "wait", "retry", "read", "reclaim", "record",
             "decide", "write", "fail", "trip"}
  /\ reply \in {"none", "done", "failed", "lost"}
  /\ sample \in [cpu : Int, gpu : Int]
  /\ failsafeCause \in Causes /\ restoreConfirmed \in BOOLEAN
  /\ sensorFailCount \in 0 .. SensorFailureLimit
  /\ writeFailCount \in 0 .. WriteFailureLimit
  /\ lastWriteFailed \in BOOLEAN
  /\ {currentSpeed, targetSpeed, bmcSpeed} \subseteq Speeds
  /\ sinceOver \in Int
  /\ override \subseteq [speed : MinSpeed .. MaxSpeed, left : Int]
  /\ hints \subseteq [source : Sources, min : {15, 25, 45}, left : Int]
  /\ bmcMode \in {"auto", "manual"}

\* While GetStatus reports a fail-safe whose restore is not pending, the BMC
\* is in automatic mode.  The one exception is the end of a sensor fail-safe:
\* with both sensors read again, the BMC may have obeyed the reclaim before
\* ipmitool has told the loop, which then ends the fail-safe.  (A reclaim
\* that takes effect is taken to be acknowledged: SensorLossEndsInAuto is
\* the claim that fails when it is not.)
HandedBackMeansAuto ==
  failsafeCause # "none" /\ restoreConfirmed /\ bmcMode = "manual"
    => /\ pc = "reclaim" /\ TakesEffect(reply)
       /\ failsafeCause = "sensor" /\ SensorsOk(sample)

\* The BMC enters manual mode only when Run starts, or to leave a sensor
\* fail-safe whose restore is confirmed, with both sensors read: nothing
\* re-enables manual mode while a restore is pending, nor ever after the
\* fan-write fail-safe.
ManualOnlyWhenCoherent ==
  [][bmcMode = "auto" /\ bmcMode' = "manual" =>
       \/ pc = "start"
       \/ failsafeCause = "sensor" /\ restoreConfirmed /\ SensorsOk(sample)
    ]_vars

\* The fans are never sent a new speed on a pass without both readings, nor
\* while cooling is, or is being, handed back: a failed read holds the speed.
FansHeldWithoutReadings ==
  [][bmcSpeed' # bmcSpeed =>
       failsafeCause = "none" /\ SensorsOk(sample)]_vars

\* After a pass that read a critical temperature the fans stand at the
\* emergency speed, whatever override and hints came in meanwhile, unless
\* the write failed or cooling is with the BMC.
CriticalIsAnswered ==
  pc = "wait" /\ SensorsOk(sample) /\ IsCritical(sample)
    /\ failsafeCause = "none" /\ ~lastWriteFailed
    => bmcSpeed = EmergencySpeed

\* Unless a failed write is reported, the fans have the current speed that
\* GetStatus reports, or, while a write that the BMC has obeyed has yet to
\* return, the target speed that it reports; also after a write that took
\* effect unacknowledged.
ReportedSpeedIsReal ==
  ~lastWriteFailed /\ bmcSpeed # currentSpeed
    => pc = "write" /\ TakesEffect(reply) /\ bmcSpeed = targetSpeed

\* A sensor that never comes back leaves cooling with the BMC for good.
SensorLossEndsInAuto ==
  <>[]~SensorsOk(sample) => <>[](bmcMode = "auto")

\* The fail-safe is a correct hand-back: it implements HandBack.  Cooling is
\* the BMC's from the moment the restore is confirmed, and the controller's
\* again from the moment the BMC obeys a reclaim that will be acknowledged.
Reclaimed == pc = "reclaim" /\ reply = "done"

HB == INSTANCE HandBack WITH
        owner <- IF failsafeCause = "none" \/ Reclaimed THEN "controller"
                 ELSE IF restoreConfirmed THEN "bmc" ELSE "handing",
        final <- failsafeCause = "write"

ImplementsHandBack == HB!Spec

\* An override in force reaches the fans, unless it is replaced, cleared or
\* expires first, or a critical or missing reading, a failed write or a
\* fail-safe stands in the way.
OverrideTakesEffect ==
  \A speed \in {ClampSpeed(s) : s \in OverrideSpeeds} :
    (\E o \in override : o.speed = speed)
      ~> \/ bmcSpeed = speed
         \/ \A o \in override : o.speed # speed
         \/ ~SensorsOk(sample) \/ IsCritical(sample)
         \/ lastWriteFailed \/ failsafeCause # "none"

\* fan.go, maxOverrideDuration: "a forgotten override must not silently hold
\* the fans off the automatic curve indefinitely".  An override whose time
\* is up is gone at some point, unless readings are no longer recorded: a
\* sensor is lost, or the reclaim that ends a sensor fail-safe fails.
OverrideExpires ==
  (\E o \in override : o.left = 0)
    ~> \/ \A o \in override : o.left # 0
       \/ ~SensorsOk(sample) \/ failsafeCause = "sensor"

\* Under one unchanging reading the curve settles: above a threshold at no
\* less than the speed that excess calls for, below both at the idle speed.
Settled(r) ==
  IF OverThreshold(r) THEN currentSpeed >= ClampSpeed(NeededSpeed(r))
                      ELSE currentSpeed = ClampSpeed(Base)

CurveSettles ==
  \A r \in {s \in Samples : SensorsOk(s) /\ ~IsCritical(s)} :
    <>[](/\ sample = r /\ override = {} /\ hints = {}
         /\ failsafeCause = "none" /\ ~lastWriteFailed)
      => <>[]Settled(r)

-----------------------------------------------------------------------------
(***************************************************************************)
(* A claim of the documentation that the code does not keep.               *)
(***************************************************************************)
\* README.md, "Safety": "Critical temperatures bypass everything.  If
\* critical_cpu_temp or critical_gpu_temp is reached, fans jump straight to
\* max_speed".  A pass that read a critical temperature leaves the fans at
\* the emergency speed, or cooling with the BMC, or reports a failed write.
CriticalRamps ==
  pc = "wait" /\ IsCritical(sample)
    => bmcSpeed = EmergencySpeed \/ bmcMode = "auto" \/ lastWriteFailed
=============================================================================
