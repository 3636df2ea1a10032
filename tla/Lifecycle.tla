----------------------------- MODULE Lifecycle -----------------------------
(***************************************************************************)
(* The process around the control loop: cmd/controller/main.go.  The main  *)
(* goroutine, the goroutine of runControlLoop (whose loop is FanControl)   *)
(* and the API server's goroutine; signals, panics, and the shutdown that  *)
(* gives the fans back to the BMC.  A process that is gone is started      *)
(* again, by its supervisor or an operator, with the BMC as it was left.   *)
(*                                                                         *)
(*   main    loading    the configuration and the history store            *)
(*           refused    run returned before there was a control loop       *)
(*           starting   before signal.Notify                               *)
(*           select     waiting for a signal or an error                   *)
(*           stopping   about to call fanCtrl.Stop                         *)
(*           restoring  in restore()                                       *)
(*           teardown   stopping the MQTT bridge and the history cleanup   *)
(*           exited     run returned                                       *)
(*           killed     dead of a signal that nothing caught               *)
(*   loop    idle (not started), running, recovering (in the deferred      *)
(*           restore of a panic), reporting (sending on errCh), returned   *)
(*   api     idle, serving, failed (sending on errCh), reported            *)
(*   once    the sync.Once around RestoreAutoMode: fresh, the goroutine    *)
(*           that is in it ("main" or "loop"), or done                     *)
(***************************************************************************)
EXTENDS FanControl

CONSTANTS
  Refusals,      \* the configuration may be invalid, or the store not open
  Panics,        \* the control loop may panic
  ApiFails,      \* the API server may fail, to bind its port for instance
  Orphans,       \* a command in flight outlives the process
  Kills          \* a signal nothing can catch, or the host, ends the process

ASSUME LifecycleAssumption ==
  {Refusals, Panics, ApiFails, Orphans, Kills} \subseteq BOOLEAN

VARIABLES
  main, loop, api,
  stopped,       \* stopChan is closed
  once,
  restored,      \* restore() ran and returned no error
  errs,          \* the errors in errCh, whose capacity is 1
  sig,           \* a signal is in sigChan
  restores,      \* history: how often restore() issued its command
  cleanStop,     \* history: since Stop, which found the loop past Run's first
                 \* command, there has been no sensor fail-safe
  clean          \* history: no run before this one left the BMC in doubt

procVars == <<main, loop, api, stopped, once, restored, errs, sig, restores,
              cleanStop>>
processVars == <<vars, procVars>>
lvars == <<processVars, clean>>

LInit ==
  /\ Init
  /\ main = "loading" /\ loop = "idle" /\ api = "idle"
  /\ stopped = FALSE /\ once = "fresh" /\ restored = FALSE
  /\ errs = 0 /\ sig = FALSE
  /\ restores = 0 /\ cleanStop = FALSE /\ clean = TRUE

Gone == main \in {"refused", "exited", "killed"}

Move(from, to) == main = from /\ main' = to

-----------------------------------------------------------------------------
(***************************************************************************)
(* restoreOnce: whoever comes first runs RestoreAutoMode; whoever comes    *)
(* meanwhile waits for it, and whoever comes later finds it done.          *)
(***************************************************************************)
\* Seeded bug: no Once, every caller runs RestoreAutoMode.
EnterAlways(who) ==
  /\ once' = who
  /\ restores' = restores + 1
  /\ UNCHANGED <<vars, main, loop, api, stopped, restored, errs, sig,
                 cleanStop>>

EnterOnce(who) ==
  /\ once = "fresh" /\ once' = who
  /\ restores' = restores + 1
  /\ UNCHANGED <<vars, main, loop, api, stopped, restored, errs, sig,
                 cleanStop>>

\* Seeded bug: the panic handler never gives the Once up.
HoldOnce(who, o) ==
  /\ once = who /\ once' = who
  /\ restored' = (o = "done")
  /\ SendMode("auto", o)
  /\ UNCHANGED <<loopVars, failsafeVars, speedVars, requestVars>>
  /\ UNCHANGED <<api, stopped, errs, sig, restores, cleanStop>>

LeaveOnce(who, o) ==
  /\ once = who /\ once' = "done"
  /\ restored' = (o = "done")
  /\ SendMode("auto", o)
  /\ UNCHANGED <<loopVars, failsafeVars, speedVars, requestVars>>
  /\ UNCHANGED <<api, stopped, errs, sig, restores, cleanStop>>

SkipOnce ==
  /\ once = "done"
  /\ UNCHANGED <<vars, api, stopped, once, restored, errs, sig, restores,
                 cleanStop>>

-----------------------------------------------------------------------------
(***************************************************************************)
(* The control-loop goroutine.                                             *)
(***************************************************************************)
LoopRuns ==
  /\ ~Gone /\ loop = "running"
  /\ LoopStep \/ BmcStep
  /\ cleanStop' = (cleanStop /\ failsafeCause' # "sensor")
  /\ UNCHANGED <<main, loop, api, stopped, once, restored, errs, sig,
                 restores>>

\* Run's select sees stopChan closed.  When the ticker has fired too, select
\* may as well take the tick: LoopRuns stays enabled.
LoopReturns ==
  /\ ~Gone /\ loop = "running" /\ stopped
  /\ pc = "wait"
  /\ loop' = "returned"
  /\ UNCHANGED <<vars, main, api, stopped, once, restored, errs, sig,
                 restores, cleanStop>>

\* A panic in the loop's own code; a command in flight is another process.
LoopPanics ==
  /\ Panics /\ ~Gone /\ loop = "running"
  /\ pc \in {"wait", "read", "record", "decide", "fail"}
  /\ loop' = "recovering"
  /\ UNCHANGED <<vars, main, api, stopped, once, restored, errs, sig,
                 restores, cleanStop>>

RecoverRestores ==
  /\ ~Gone /\ loop = "recovering"
  /\ \/ EnterOnce("loop")
     \/ /\ \/ \E o \in Outcomes("restore") : LeaveOnce("loop", o)
           \/ SkipOnce
        /\ loop' = "reporting"
        /\ UNCHANGED main

\* The send blocks while errCh is full.
PanicReported ==
  /\ ~Gone /\ loop = "reporting" /\ errs = 0
  /\ errs' = errs + 1 /\ loop' = "returned"
  /\ UNCHANGED <<vars, main, api, stopped, once, restored, sig, restores,
                 cleanStop>>

LoopGoroutine ==
  LoopRuns \/ LoopReturns \/ LoopPanics \/ RecoverRestores \/ PanicReported

-----------------------------------------------------------------------------
(***************************************************************************)
(* The API server's goroutine and the signals.                             *)
(***************************************************************************)
ApiServerFails ==
  /\ ApiFails /\ ~Gone
  /\ api = "serving" /\ api' = "failed"
  /\ UNCHANGED <<vars, main, loop, stopped, once, restored, errs, sig,
                 restores, cleanStop>>

\* Seeded bug: errCh holds more than the one error it is made for.
ApiReportsAnyway ==
  /\ ~Gone /\ errs' = errs + 1
  /\ api = "failed" /\ api' = "reported"
  /\ UNCHANGED <<vars, main, loop, stopped, once, restored, sig, restores,
                 cleanStop>>

ApiReports ==
  /\ ~Gone /\ errs = 0 /\ errs' = errs + 1
  /\ api = "failed" /\ api' = "reported"
  /\ UNCHANGED <<vars, main, loop, stopped, once, restored, sig, restores,
                 cleanStop>>

\* SIGINT or SIGTERM: before signal.Notify it ends the process.
Signalled ==
  /\ ~Gone /\ ~sig
  /\ IF main \in {"loading", "starting"}
     THEN main' = "killed" /\ sig' = sig
     ELSE sig' = TRUE /\ main' = main
  /\ UNCHANGED <<vars, loop, api, stopped, once, restored, errs, restores,
                 cleanStop>>

Killed ==
  /\ Kills /\ ~Gone
  /\ main' = "killed"
  /\ UNCHANGED <<vars, loop, api, stopped, once, restored, errs, sig,
                 restores, cleanStop>>

-----------------------------------------------------------------------------
(***************************************************************************)
(* The main goroutine.                                                     *)
(***************************************************************************)
\* Seeded bug: the control loop is started before the history store is open.
RefuseLate ==
  /\ Refusals /\ Move("starting", "refused")
  /\ UNCHANGED <<vars, loop, api, stopped, once, restored, errs, sig,
                 restores, cleanStop>>

\* run returns before it has a controller, and so without a restore.
Refuse ==
  /\ Refusals /\ Move("loading", "refused")
  /\ UNCHANGED <<vars, loop, api, stopped, once, restored, errs, sig,
                 restores, cleanStop>>

\* The two goroutines are started.
Launch ==
  /\ Move("loading", "starting")
  /\ loop' = "running" /\ api' = "serving"
  /\ UNCHANGED <<vars, stopped, once, restored, errs, sig, restores,
                 cleanStop>>

Notified ==
  /\ Move("starting", "select")
  /\ UNCHANGED <<vars, loop, api, stopped, once, restored, errs, sig,
                 restores, cleanStop>>

TakeSignal ==
  /\ Move("select", "stopping")
  /\ sig /\ sig' = FALSE
  /\ UNCHANGED <<vars, loop, api, stopped, once, restored, errs, restores,
                 cleanStop>>

TakeError ==
  /\ Move("select", "stopping")
  /\ errs = 1 /\ errs' = 0
  /\ UNCHANGED <<vars, loop, api, stopped, once, restored, sig, restores,
                 cleanStop>>

\* FanController.Stop closes stopChan and does not wait for the loop.
Stop ==
  /\ Move("stopping", "restoring")
  /\ stopped' = TRUE
  /\ cleanStop' = (pc # "start" /\ failsafeCause # "sensor")
  /\ UNCHANGED <<vars, loop, api, once, restored, errs, sig, restores>>

MainRestores ==
  /\ main = "restoring"
  /\ \/ EnterOnce("main")
     \/ /\ \/ \E o \in Outcomes("restore") : LeaveOnce("main", o)
           \/ SkipOnce
        /\ main' = "teardown"
        /\ UNCHANGED loop

\* The waits for the MQTT bridge and the history cleanup are bounded.
Exit ==
  /\ Move("teardown", "exited")
  /\ UNCHANGED <<vars, loop, api, stopped, once, restored, errs, sig,
                 restores, cleanStop>>

MainGoroutine ==
  \/ Refuse \/ Launch \/ Notified \/ TakeSignal \/ TakeError
  \/ Stop \/ MainRestores \/ Exit

-----------------------------------------------------------------------------
(***************************************************************************)
(* An ipmitool command in flight when the process ends is a process of its *)
(* own, and may still reach the BMC.                                       *)
(***************************************************************************)
OrphanLands ==
  /\ Orphans /\ Gone /\ loop = "running"
  /\ \E command \in Commands : BmcActs(command, "done")
  /\ UNCHANGED procVars

\* The run that ends never had a control loop, or ended as CleanExitIsAuto
\* asks.
EndsClean ==
  \/ loop = "idle"
  \/ main = "exited" /\ cleanStop /\ restored

\* The next process finds the BMC as the last one left it, and nothing else.
Restart ==
  /\ Gone
  /\ pc' = "start" /\ reply' = "none"
  /\ sample' = [cpu |-> NoTemp, gpu |-> NoTemp]
  /\ failsafeCause' = "none" /\ restoreConfirmed' = FALSE
  /\ sensorFailCount' = 0 /\ writeFailCount' = 0
  /\ lastWriteFailed' = FALSE
  /\ currentSpeed' = 0 /\ targetSpeed' = 0 /\ sinceOver' = Never
  /\ override' = {} /\ hints' = {}
  /\ main' = "loading" /\ loop' = "idle" /\ api' = "idle"
  /\ stopped' = FALSE /\ once' = "fresh" /\ restored' = FALSE
  /\ errs' = 0 /\ sig' = FALSE
  /\ restores' = 0 /\ cleanStop' = FALSE
  /\ clean' = (clean /\ EndsClean)
  /\ UNCHANGED bmcVars

LNext ==
  \/ /\ \/ LoopGoroutine
        \/ ApiServerFails \/ ApiReports \/ Signalled \/ Killed
        \/ MainGoroutine
        \/ OrphanLands
     /\ UNCHANGED clean
  \/ Restart

LSpec == LInit /\ [][LNext]_lvars

\* Every goroutine that can run does, and so does every command it waits for.
LFairSpec ==
  /\ LSpec
  /\ WF_processVars(LoopGoroutine) /\ WF_processVars(ApiReports)
  /\ WF_processVars(MainGoroutine)

-----------------------------------------------------------------------------
(***************************************************************************)
(* Properties.                                                             *)
(***************************************************************************)
LTypeOK ==
  /\ TypeOK
  /\ main \in {"loading", "refused", "starting", "select", "stopping",
               "restoring", "teardown", "exited", "killed"}
  /\ loop \in {"idle", "running", "recovering", "reporting", "returned"}
  /\ api \in {"idle", "serving", "failed", "reported"}
  /\ once \in {"fresh", "main", "loop", "done"}
  /\ stopped \in BOOLEAN /\ restored \in BOOLEAN /\ sig \in BOOLEAN
  /\ cleanStop \in BOOLEAN /\ clean \in BOOLEAN
  /\ errs \in 0 .. 1 /\ restores \in 0 .. 2

\* The shutdown path and the panic handler together issue RestoreAutoMode at
\* most once, and run returns only after it has been issued and answered.
RestoreRunsOnce ==
  restores <= 1 /\ (main \in {"teardown", "exited"} => once = "done")

\* When Stop found the loop past Run's first command, no sensor fail-safe
\* was in force then or later, and RestoreAutoMode succeeded, the process
\* leaves the BMC in automatic mode: whatever passes the loop still makes,
\* wherever it panics, and whichever command outlives it.
CleanExitIsAuto ==
  main = "exited" /\ cleanStop /\ restored => bmcMode = "auto"

\* main.go, resolveConfig: "A process that never starts never enables manual
\* mode, so the BMC keeps automatic control".  True when each run before it
\* stopped short of its control loop or ended cleanly, over any number of
\* restarts: a run that was killed may have left the fans to nobody.
RefusedStartIsSafe ==
  main \in {"loading", "refused"} /\ clean => bmcMode = "auto"

\* A signal, an API failure or a panic always ends the process: no goroutine
\* waits for ever on errCh, on the Once or on another goroutine first.
ShutdownCompletes ==
  (sig \/ errs = 1 \/ api = "failed" \/ loop \in {"recovering", "reporting"})
    ~> Gone

(***************************************************************************)
(* A claim of the documentation that the code does not keep.               *)
(***************************************************************************)
\* main.go, run: "Restore BMC automatic fan control on every exit path.
\* This is the single choke point that keeps the machine cooled once we
\* leave manual mode".  With every command successful, run returns with the
\* BMC in automatic mode.
ExitIsAuto == main = "exited" /\ restored => bmcMode = "auto"
=============================================================================
