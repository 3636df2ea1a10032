# Only-Fan Controller in TLA+

A verification development of the fan controller in `src/`: a Go service that
reads CPU and GPU temperatures, drives the fans of a Dell server through its
BMC (`ipmitool`), and is observed and commanded over HTTP and over MQTT (Home
Assistant).  It takes the fans away from the hardware that would otherwise keep
the machine alive, so most of what has to be right is about *who cools the
machine when something goes wrong*.

The modules are translated from the code.  TLC checks small instances of them;
TLAPS proves some of the results for every value of the constants.
`PROJECT.json` lists the runs, the theorems, the code lines behind every
definition, and the hazards the properties are for.

## The system

| Component | State it keeps | Operations | Module |
|---|---|---|---|
| Fan speed policy, `controller/fan.go` `calculateTarget`, `config` thresholds | none of its own | critical branch, override branch, curve with hysteresis, hint floors, clamp | `TargetSpeed` |
| Control loop and fail-safe, `controller/fan.go` | fail-safe cause, restore confirmed, two failure counters, current/target speed, last over-threshold time, override, hints | a pass of `controlLoop` every tick; `SetOverride`, `ClearOverride`, `AddHint`, `RemoveHint` from other goroutines | `FanControl`, `Hysteresis`, abstract `HandBack` |
| Temperature monitors, `monitor` | none | run `ipmitool` and `nvidia-smi`, parse their output, take the hottest | `Monitors`, composed with the loop in `Sensing` |
| Process lifecycle, `cmd/controller/main.go` | the `errCh`, the signal channel, the `sync.Once` around the restore | refused start, start, panic recovery, API failure, signal, shutdown; restarts by a supervisor | `Lifecycle` |
| MQTT bridge, `mqtt/bridge.go`, `state.go`, `discovery.go`, `client.go` | announced devices, stop channel, connection; at the broker: availability, state, discovery configs | publish loop, `onConnect`, `Stop` | `Bridge` |
| Commands, `mqtt/command.go`, `api/server.go`, `validate` | none; they change the controller's override and hints | HTTP handlers behind `requireAuth`, MQTT command topics, validation | `Commands` |
| Configuration, `config` and `main.go` `resolveConfig` | the configuration | defaults, file, validation, environment, refusal to start | `Configuration`, composed with `Commands` |
| Broker address, `mqtt/broker.go` | none | normalise what the operator wrote | `Broker`, composed with `Commands` |
| History, `storage` | an SQLite table | insert, query, prune | not modelled |
| Demo mode, dashboard, hint client | | | not modelled |

### How they interact

- The **control loop** is one goroutine.  Each pass reads both sensors, records
  the readings under the mutex, computes a target under the mutex, and writes
  it; every `ipmitool` call is made without the mutex and can take until its
  deadline.  The **API** and **MQTT** goroutines set overrides and hints under
  the same mutex at any moment in between.
- The **main goroutine** starts the loop and the API server, waits for a signal
  or an error on `errCh` (capacity 1), stops the loop *without waiting for it*,
  and restores automatic mode through a `sync.Once` that it shares with the
  loop's panic handler.
- The **bridge** reads the controller's status on a ticker of its own and
  publishes it; the client library calls `onConnect` on a fresh goroutine for
  every connection, concurrently with the publish loop and with `Stop`.

### What is hard

- A command can fail, or take effect and be reported failed (killed at its
  deadline after the BMC or the broker acted).
- Sensors come and go, and a fail-safe has to be entered, retried, and left
  only when it is safe.
- Requests arrive between two critical sections of one pass.
- Shutdown overlaps a loop that is still running, and a child process of
  `ipmitool` may outlive the controller.
- Callbacks of two connections overlap; a broker may restart empty; a process
  may die and leave its will to the broker.
- Durations overflow, retained commands come back.
- A tool that prints less than usual must not look like a cold machine.
- A process may die with the BMC in manual mode, and the next one may refuse to
  start; the environment is applied after the configuration was validated.

### What makes each component correct

- *Policy*: the target is in the configured band or is the emergency speed;
  critical wins over override, override over curve.
- *Control loop*: fans only slow down after the cooldown; a critical reading is
  answered on the same pass; the reported speed is the real one; a missing
  reading moves nothing; a lost sensor, or a BMC that refuses writes, ends with
  the BMC in charge, and manual mode is not taken back before that is confirmed.
- *Lifecycle*: whatever ends the process, automatic mode is restored once, and
  nothing blocks the exit; a start that is refused after clean runs finds the BMC
  in automatic mode.
- *Monitors*: a critical temperature that was printed is answered; output without
  a temperature moves nothing.
- *Configuration*: every process that starts has an emergency ramp it can use, and
  dials the broker the operator meant.
- *Bridge*: every device gets announced, its sensors show one device, and
  availability follows the connection and the process.
- *Commands*: both ways in keep the same bounds, and a command is carried out
  once at most.

## Modules

```
TargetSpeed ────────────────────────────────── TargetSpeedProofs
   │
FanControl ─── implements HandBack ─────────── FanControlProofs
   ├─ Sensing = FanControl + Monitors ──────── SensingProofs
   ├─ Hysteresis  (and a history variable) ─── HysteresisProofs
   └─ Lifecycle   (FanControl inside main.go) ─ LifecycleProofs

Broker ─────────────────────────────────────── BrokerProofs
   └─ Configuration ── Commands ────────────── CommandsProofs
            (TargetSpeed of the configuration in force)

Bridge (on its own: it reads the last readings) ─ BridgeProofs
```

`MCFanControl`, `MCSensing`, `MCHysteresis`, `MCLifecycle`, `MCBridge` and
`MCCommands` give the finite sets that the configurations use.

### TargetSpeed

Pure operators.  Temperatures are whole degrees and times are clock units.
`ConfigAssumption` is exactly what `Config.Validate` checks: the idle speed, the
step and the cooldown are *not* validated and may be any integer (0 selects the
built-in default).  `lastOverThreshold` is kept as an age, which stops counting
once it is past the cooldown, and is `Never` for Go's zero time.

### FanControl

`pc` says where the goroutine of `controlLoop` stands.  A pass is cut into
actions where another goroutine can get in or the BMC can change:

| `pc` | code | actions |
|---|---|---|
| `start` | `Run`'s first `enableManualMode` | `Start` |
| `wait` | `Run`'s `select` | `Tick` |
| `retry`, `trip` | `attemptRestore` from `ensureAutoRestored`, from `enterFailsafe` | `AttemptRestore` |
| `read` | `readSensors`, then the branches of `controlLoop` | `ReadInWriteFailsafe`, `ReadFails`, `ReadHealthy`, `ReadWhileRestorePending`, `ReadRecovered` |
| `reclaim` | `enableManualMode` after recovery, then `clearFailsafe` | `Reclaim` |
| `record` | `recordReadings`, with `cleanExpired` | `Record` |
| `decide` | `calculateTarget` | `Decide` |
| `write` | `setFanSpeed` | `WriteDone`, `WriteFails` |
| `fail` | `handleWriteFailure`, with `enterFailsafe` | `CountWriteFailure` |

A command takes two steps.  In the first (`BmcActs`) the BMC acts on it, or fails
to, and `reply` says which; in the second the loop learns of it and updates its
own state, under the mutex where the code does.  In between, which can be seconds,
the BMC and what `GetStatus` reports disagree, and any other goroutine can run.
Each command ends `done`, `failed` (no effect) or `lost` (took effect, reported
failed).  `Failing` and `Lossy` say which commands may do so in an instance.
The requests of the API and the bridge are `Request`; `Elapse` is the clock.

Left out: the temperature trend, the zone name and the error text, which only
the dashboard shows; the demo mode; the history insert, which never blocks a
pass.  The failure counters stop at their limits, since the code only compares
them with the limit and with zero.

### Monitors and Sensing

`Monitors` says what `CPUMonitor.Read` and `GPUMonitor.Read` return for a run of
their tool.  A line of `ipmitool` is its label (CPU, chassis, other) and its
degrees; a row of `nvidia-smi` is its number of fields and its temperature field,
readable or not; since only the hottest device counts, an output is a set of them.
A CPU line counts below 120 degrees only, any non-chassis line stands in when no
CPU line counts, a ragged row is skipped, and an unreadable temperature is 0.

`Sensing` is `FanControl` whose readings come from `Monitors`: a pass takes the
output of both tools, and `output` keeps it, so that what the fans do is compared
with what was *printed*, past the parsers.  `Samples` is exactly what the monitors
make of `Outputs` (`SensingAssumption`), so that every behaviour of `Sensing` is
one of `FanControl` (`SensingImplements`).

### HandBack

What the fail-safe promises without any of its mechanism: an owner of the
cooling, the BMC's mode, and the rule that a hand-back because of failed fan
writes is final.  `FanControl` implements it under the mapping

- owner = `controller` when there is no fail-safe, or the BMC has obeyed a
  reclaim that will be acknowledged (`Reclaimed`), `bmc` when the restore is
  confirmed, `handing` otherwise;
- final = the cause is `write`.

### Hysteresis

Adds to `FanControl` the age of the last reading over a threshold, *whatever
branch then used the reading*.  The code's own `lastOverThreshold` is set by the
curve branch only; the property compares the two.

### Lifecycle

`FanControl`'s loop inside `runControlLoop`, with the main goroutine and the API
server.  The `Once` has three states so that a second caller blocks while the
first one is inside.  A process can be refused before it has a controller
(`Refuse`), be killed at any moment (`Killed`), or end by its shutdown; after it is
gone, `OrphanLands` lets the command that was in flight still reach the BMC, and
`Restart` starts the next process with nothing but the BMC as it was left
(`docker-compose.yml` restarts it always).  Temperature and time are not the
subject here, so the clock and the requests of `FanControl` do not run.

### Bridge

The publish loop is cut at each publication; `callback` holds the position of
each running `onConnect`.  The broker keeps the last availability, state
document and one array position for each sensor's template; it publishes the
will when a connection breaks and not when the client disconnects in order.
`stopCh` can be nil while the loop still runs: that is the abandoned loop after
`Stop` gave up waiting, which ticks on until the process ends.
GPUs have three sensors in the code; `CardSensors` says how many an instance
has.  A config is represented by the array position its template reads, and the
position is the one the device had when it was announced: what the template shows
later is what the document then lists there.

### Broker, Configuration and Commands

An address is a sequence of tokens (separators, names, numbers).  `Broker` has
both readings of one: `NormalizeBrokerURL`, which is forgiving, and `ValidBroker`,
which is how `Validate` parses the address in a file.  `Written` and `Canonical`
are the reference: the ways to write a broker, and the address they mean, for
any broker that is an `IsAddress`.

A configuration is a record of the fields that decide something in the models.
`ResolveConfig` gives the configuration of a file or none (only an absent file
selects the defaults), `ApplyEnvOverrides` lays the environment over it without
validating anything.  `Policy(c)` is `TargetSpeed` under configuration `c`.

`Commands` starts with the configuration of any file and environment of `Launches`
and keeps it.  HTTP requests are authorised first.  Every request in small sets of
speeds, durations, names and actions goes to either way in.  Durations are
integers of a fixed width that wrap around.  HTTP takes effect at once; MQTT goes through the broker, an inbox, and the retained
message of each topic, which is replayed on every subscription.  `FanControl`
covers what becomes of an override or a hint afterwards.

## Runs

All instances use the default thresholds (65 and 60 degrees), critical
temperatures (85 and 90) and a band of 10 to 100, with readings on either side
of each.  Failure limits are 2 so that a first failure does not trip and a
second one does.

| Run | Checks | What it shows |
|---|---|---|
| `fail_safe` (`MCSensing`) | `TypeOK`, `HandedBackMeansAuto`, `CriticalIsAnswered`, `ReportedSpeedIsReal`, `PrintedCriticalIsAnswered`, `ManualOnlyWhenCoherent`, `FansHeldWithoutReadings`, `BlindPassHoldsFans` | safety of the loop and its monitors with every command failing, and all but the reclaim taking effect unseen; each tool printing too little, overrides and hints at every moment |
| `liveness` | `OverrideTakesEffect`, `OverrideExpires`, `CurveSettles`, `ImplementsHandBack`, `SensorLossEndsInAuto` | the same faults under fairness: the loop implements `HandBack`, its liveness included; a lost sensor ends with the BMC in charge; an override reaches the fans, and ends; a constant reading settles at the speed it calls for |
| `cooldown` | `CooldownRespected` | below critical and without overrides, no slowing down before the cooldown is over |
| `shutdown` | `LTypeOK`, `RestoreRunsOnce`, `CleanExitIsAuto`, `RefusedStartIsSafe`, `ShutdownCompletes` | panic, API failure, signal and kill together, over any number of restarts and refused starts: one restore, no deadlock; without a sensor fail-safe the BMC ends up automatic, although `Stop` does not wait for the loop and a command may outlive the process; and a start refused after clean runs finds it there |
| `announcing` | `SensorsAgree`, `AnnouncedIsRetained`, `DevicesAnnounced` | a card in the middle of the list that comes and goes, a config that fails or goes unacknowledged, a lost connection and a broker that restarts empty between ticks: no device counts as announced without all its configs, and all end up announced; the configs of one card read one place of the document |
| `connection` | `BridgeTypeOK`, `ConnectedMeansReady`, `ConnectionSettles`, `GoneMeansUnavailable` | two overlapping `onConnect`, `Stop`, death of the process: a connection is complete as soon as no callback runs, a lasting one stays so, and a bridge that is gone is unavailable |
| `commands` | `RequestsBounded`, `NothingReplayed`, `EmergencyArmed`, `BrokerReached` | which files and environments start a process, with which ramp and towards which broker; bounds on both ways in, wrap-around included; retained commands |

Each property above has a *seeded bug* beside the definition it would be made
in (`RestoreUnchecked`, `MarkUnclean`, ...): a plausible slip of the code under
which the property fails, so that none of them holds merely by the shape of the
model.

The step of 40 in the `FanControl` instances makes the curve cross the band in
three passes; the arithmetic for other steps is in the theorems about the policy.  A cooldown
of one or two units is enough to be before, at and after its end.  `Liveness`
leaves out the hints, which only `fail_safe` and `cooldown` need, and asks for one
override speed, between what the two hot readings call for.  `Cooldown` leaves
out critical readings and overrides, because with them the property is false
(below).  `Bridge`'s runs bound the connections at two and the faults on a live
connection at none or one: the properties concern a reconnect and a fault in
every place, and nothing counts them.  `connection` has two callbacks and no
faults, since a failed subscription is never repeated (below); `announcing` has
one callback and a fault, and does not end (`Ends = FALSE`): `connection` covers
the end.  A card has two sensors in `announcing`, so that one config can fail and
the other not, and a reconnect can fall between the two; its readings
(`ShiftingScans`) have a socket and two cards, or the socket and the second card
only, which then moves up.  It has 742,436 states, and `connection` 459,542.
`Commands` sends one
MQTT command over two connections (what is checked is the *second* delivery of
one command) beside any number of HTTP requests.  Durations there are four
units to the second in an 8-bit integer, so that 32 seconds overflow to a
negative duration and 64 to zero.

`fail_safe` uses eight pairs of outputs: each of the two tools cold, over its
threshold, critical and unusable, two of them with a critical temperature beside
one that is discarded; it has 2,032,846 states (`liveness` 252,355, `cooldown`
164,723).  `commands` starts 104 different
processes: files on either side of each bound of `Validate`, an environment that
breaks the band and one that sets a token, and every way to write two hosts with
every scheme, in the environment with and without a port; it has 432,288
states.  `shutdown` (398,362 states) bounds nothing but the failure limits: the
restarts need no bound, since a process takes over the BMC's state only.

`CHECK_DEADLOCK FALSE` stands only where the process ends (`Lifecycle`,
`Bridge`).

### Fairness

- `FanControl`: weak fairness of the loop and the clock (the goroutine and the
  ticker run) and of the command in flight (`BmcStep`: it has a deadline), and
  strong fairness of a *successful* restore: a BMC that is
  asked again and again acknowledges at some point.  Without that no fail-safe
  can promise anything; the code's part is to keep asking, and the seeded bug
  that does not retry is caught.
- `Lifecycle`: weak fairness of the loop's goroutine, the API goroutine's report
  and main.  Every command has a deadline, so none of them blocks.  Nothing
  forces a signal, a failure or a panic.
- `Bridge`: weak fairness of the goroutines and of the broker noticing a broken
  connection; strong fairness of the loop seeing its closed stop channel, since
  Go's `select` picks among ready cases at random.  Connecting is not fair: the
  properties are conditional on a connection that lasts.

### Where the code disagrees with what is said of it

Each has a run that ends in a counterexample, and an entry under `findings`.

| Run | What happens |
|---|---|
| `lost_reclaim` | A reclaim that takes effect but is reported failed leaves the BMC in manual mode while the restore counts as confirmed: no retry ever comes. |
| `cooldown_after_critical` | After a critical reading (or an override) fans drop without a cooldown, because those branches do not set `lastOverThreshold`. |
| `critical_one_sensor` | A critical CPU reading beside a failed GPU read is thrown away with it. |
| `shutdown_race` | A loop in the middle of enabling manual mode undoes the shutdown's restore. |
| `online_after_stop` | A running `onConnect` publishes `online` after `Stop`'s `offline`. |

Further divergences met while modelling, for which no run is kept:

- If `Run`'s first `enableManualMode` fails it is only logged (`fan.go:179`);
  the loop then writes and reports speeds that a BMC in automatic mode does not
  apply (`Start` with the outcome `failed`).
- The loop is started before `signal.Notify` (`main.go:279` and `309`): a signal
  in between ends the process in manual mode (`Signalled`).
- When the row of a card in the middle of the list stops parsing, the later ones
  move up in the document, and their templates, whose positions were computed once
  per connection (`discovery.go:177`), show another card: `SensorShowsItsDevice`
  fails as an invariant of `announcing`.  What holds is `SensorsAgree`.
- A device that the loop is announcing when `onConnect` clears the map is marked
  afterwards (`state.go:218` after `bridge.go:180`).  If the broker lost its memory
  meanwhile, the config is missing until the next reconnect, which is not what
  `bridge.go:176-178` says: `DevicesAnnounced` and `AnnouncedIsRetained` fail in
  `announcing` with `Forgets <- Everywhere`.  The loop has to be held up for as
  long as a reconnection takes.
- The floors of a low and of a medium hint are 15 and 25 % (`fan.go:710-713`),
  which `README.md:304-305` documents as 25 and 35 %; `TargetSpeed` has the code's.
- A failed subscription is logged only (`command.go:56`), and the device goes
  online with dead command topics: `ConnectionSettles` fails in `connection` once
  `subscribe` is in `Failing` and a fault is allowed.
- A process that starts over a threshold ramps up from 0, so its first passes
  give the fans less than the idle speed, which a cool reading gets at once
  (`fan.go:569` against `fan.go:581`): `HotterIsNoSlower` assumes fans no more
  than a step below the base.
- `step_size` is not validated, and a negative one makes heat lower the fans
  (`README.md:50`: over a threshold "fans increase"): the theorems about ramps
  assume `Step > 0`.
- MQTT accepts an override whose speed is 0 or missing, as the slowest speed;
  HTTP rejects it (`HttpAcceptsOverride` against `Accepts`).
- A GPU whose temperature field is `[N/A]` or garbage counts as 0 degrees
  (`gpu.go:132`), although `gpu.go:67-70` says that such output must not look
  like a cold card: only a read without any complete row is an error.
- A CPU printed at 120 degrees or more is dropped (`cpu.go:127`), and a cooler
  socket is followed instead, whatever `README.md:95-97` says of critical
  temperatures: `PrintedCriticalRamps` fails as an invariant of `fail_safe`.
- When no CPU line is plausible, any other sensor outside the chassis stands in
  for the CPUs (`cpu.go:134`): `BlindPassHoldsFans` allows it.
- `config.example.yaml:35-37` says that cooling stays with the BMC "until
  reads/writes succeed again"; after failed writes it stays there for good
  (`fan.go:214`), as `README.md:85-89` says and `ManualOnlyWhenCoherent` checks.
- A `critical_cpu_temp` of 120 passes `Validate`, but no CPU reading reaches it
  (`cpu.go:127`).
- `README.md:208` calls the broker's format forgiving; `Validate` refuses a bare
  host, `host:port` and a web address in the file (`config.go:205`), so that only
  the environment variable is forgiving.  A file that enables MQTT and leaves the
  broker to `MQTT_BROKER` is refused too (`config.go:198` before `main.go:225`),
  while `MQTT_ENABLED` without any broker is not.
- A broker with user information or a path passes `Validate`, and
  `splitAuthority` mangles it (`broker.go:146`).
- The environment bypasses `Validate`: `FAN_MIN_SPEED=150` makes the controller
  send speeds above 100 (`RequestsBounded` excludes an environment that sets the
  band), `FAN_MAX_SPEED=10` makes the emergency ramp one to 10 %, a threshold may be
  set above the critical temperature, and `CHECK_INTERVAL` of 0 or less makes `time.NewTicker` panic after
  manual mode was enabled (`fan.go:183`), at every restart.
- `main.go:189-192` says that a process that never starts leaves the BMC in
  automatic mode.  After a run that was killed it does not: `RefusedStartIsSafe`
  needs the history variable `clean`.
- A retention beyond 292 years overflows, and the whole history is pruned
  (`main.go:251`).

The passing runs stay clear of all these on purpose, each by a named constant or
premise: `clean` in `RefusedStartIsSafe`; `Lossy` without `reclaim` in `fail_safe` and `liveness`; `BelowCritical`
readings in `cooldown`; the history variable `cleanStop` in `CleanExitIsAuto`;
`Forgets = {"wait"}` in `announcing`; sockets below 120 degrees in
`PrintedCriticalIsAnswered`; no faults in `connection`, and no `onConnect` while
`Stop` runs in `GoneMeansUnavailable`.

## Proofs

Thirty-one theorems in eight modules, from the named assumptions of the modules
they are about: `ConfigAssumption` (what `Validate` guarantees),
`ControllerAssumption`, `MonitorsAssumption`, `SensingAssumption`,
`LifecycleAssumption`, `CommandsAssumption` and `BridgeAssumption` (types and
finiteness of the parameters, and that the addresses operators mean are
`IsAddress`).  A theorem that needs more says so in its `ASSUME`.

- `TargetSpeedProofs`: `TargetInBand`, every target is in the band or is the
  emergency speed, for any integer idle speed, step and cooldown.  With a positive
  step: `HeatNeverSlows`; `HotterIsNoSlower`, the target is monotonic in the
  temperatures, across every branch; `HintsOnlyRaise`; and `HeatIsAnswered` and
  `CoolnessIsReached`, each pass closes in on the speed where the curve settles
  and never leaves it, which is the step that `CurveSettles` repeats.
- `TypeCorrect`, `ManualIsCoherent`, `FansHeld`, `CriticalAnswered`,
  `ReportedIsReal` (`FanControlProofs`): the five safety properties of
  `fail_safe` that hold whatever the fault model, a lost reclaim included.
- `HandedBackIsAuto` and `HandsBack`: while `GetStatus` reports a confirmed
  fail-safe the BMC is in automatic mode, but for the moment between its obeying a
  reclaim and the loop learning of it; and `Spec => HB!SafetySpec`.  Both assume `ReclaimNeverLost`, which is
  the assumption of the comment at `fan.go:246`; `lost_reclaim` shows that they
  are false without it.
- `CooldownKept` (`HysteresisProofs`): `CooldownRespected`, under
  `CooldownPremises`: no critical reading and no override (`cooldown_after_critical`
  shows what they do), a restore and a reclaim that are always answered, no write
  that is lost, and a positive step.  Writes may fail, and so may the first
  `enableManualMode`.
- `PrintedCriticalAnswered`, `BlindPassHolds` (`SensingProofs`): the two
  properties that relate the fans to what the tools printed.
- `ProcessTypeCorrect`, `RestoresOnce`, `CleanExit`, `RefusedStart`
  (`LifecycleProofs`): the four invariants of `shutdown`.
- `NormalizesToMeant` (`BrokerProofs`): `NormalizeBrokerURL(Written(a)) =
  Canonical(a)` for every address, of any host and port.
- `EmergencyIsArmed`, `BoundsHold`, `AppliedOnce`, `MeantBrokerIsDialled`
  (`CommandsProofs`): the invariants of `commands`, for every file, environment
  and request.
- `BridgeTypeCorrect`, `TemplatesAgree`, `AnnouncedAreRetained`,
  `ConnectedIsReady` (`BridgeProofs`): the invariants of `connection` and
  `announcing`, for any number of devices, callbacks, connections and faults.  The
  third assumes `ForgetsBetweenTicks`, the fourth `AnnouncesReliably`: each premise
  is where the code stops keeping the property (see the divergences above).  The
  first two assume nothing: `SensorsAgree` holds for any list of devices, and
  wherever the broker loses its memory.
- `GoneIsUnavailable`, `UnavailableForGood`: the safety parts of
  `GoneMeansUnavailable`, under its own premise that no `onConnect` runs while
  `Stop` does.  That the broker notices the broken connection, fairly, is what is
  left of the property.

*TargetSpeed.*  The clamp, the larger of two speeds and the needed speed are
monotonic (`ClampIsMonotonic`, `FloorIsMonotonic`, `NeededIsMonotonic`); what is
left is the comparison of the branches of the curve at one speed and age.

*FanControl.*  The argument has two layers.  `TypeOK` is inductive once
`TargetIsASpeed` supplies the range of `Decide`'s result, which comes from
`TargetInBand`.  The safety properties are not inductive by themselves: that a
reclaim starts from a confirmed fail-safe, for instance, depends on where the loop
stands, not on the step that sends the command.  `ControlInv` ties `pc` to the
fail-safe and to the reply of the command in flight: the loop is past the read
only without a fail-safe and with both readings; it reclaims only from a confirmed sensor fail-safe; it restores only
while one is pending; without a fail-safe nothing is confirmed; and a reply is
there only at a place that waits for one.  `HandBackInv` adds that a restore that
was answered has left the BMC in automatic mode.  `SpeedInv`
adds what is needed between `decide` and `wait`: the target of a critical reading
is the emergency speed, the confirmed speed is the BMC's until it obeys a write,
and the target is from then on.  From `TypeOK /\
ControlInv` the action properties follow from one lemma about each of the BMC's
two variables (`StepToManual`, `StepToSpeed`), and the refinement from one lemma
that maps each kind of step.

*Hysteresis.*  The loop's own age of the last hot reading is compared with the age
in the history variable.  `LagInv` says that the first is no greater than the
second, except after a hot reading that `calculateTarget` has yet to see, when
cooling is lost to the fail-safe of failed writes, or when the second is past
the cooldown anyway; it is what fails when a branch does not set
`lastOverThreshold`.  `HeldInv` ties the confirmed speed to the BMC's, `PromptInv`
says that a hand-back that began is confirmed and that no critical reading is in
use, and `SlowInv` that a target below the present speed is on its way only after
the cooldown; `HeatNeverSlows`'s kind of argument about the curve gives the last.
TLC finds `CooldownRespected` violated when any one of the premises on commands,
readings or overrides is dropped.

*Sensing.*  Every step of `SSpec` is one of `Spec` (`SensingImplements`), so the
invariants above carry over; what is added is that `sample` is what the monitors
make of `output` wherever the loop uses it.  With `MaxIsGreatest`, a printed
critical temperature is at most the reading, and the reading is critical.

*Lifecycle.*  The invariant says who is inside the `Once` and where that goroutine
stands (the main goroutine restoring, or the loop recovering), that after a clean
stop the loop is past its first command and in no sensor fail-safe, and so has no
manual command left to send, and that a process before `Launch` has restored
nothing.  `clean` carries the BMC's mode from
one process to the next.

*Commands.*  `ConfigInv` is what validation leaves after the environment: the
critical temperatures, which no variable sets, and the band unless one sets it.
`OnceInv` counts: the commands carried out and the live messages still in the
inbox are together no more than those sent; a replayed message is not live.

*Broker.*  `CutAtSeparator` says what `Before` and `After` make of `u \o <<e>> \o v`
when `u` has no `e`, and `ContainsEither` which separators a concatenation has;
with them each function of the code is taken in turn (`SlashRemoved`,
`SchemeSplit`, `AuthoritySplit` for a bare literal, one in brackets and a name,
`SchemeResolved`).  Since what is written determines what is dialled, no way of
writing is shared by two brokers, and `Meaning`'s choice is the only one
(`MeaningIsNormal`).

*Bridge.*  `SetsOK` says that the loop announces devices of its snapshot and has one
to announce when it does; `ConfigsOK`, that a template is absent or reads its
device's position in some reading.  `FirstIsOne` shows that the order of devices
has a first one in every finite set.  `RenewedOK` says that the device being
announced does not count as announced, and that as long as none of its configs
failed, those published so far (or lost again with the broker's memory) read its
place in the snapshot: when it is marked, nothing is left of an earlier
announcement.  `AnnouncedOK` keeps, for each announced device,
that its configs are retained *or* that a callback, or the next connection's, is
about to forget it; it needs `ProgressOK`, what the loop has published of the
device it is announcing.  `ReadyInv` keeps, for each of the three things a
connection needs, that it is there or that some callback still stands before it;
a callback left behind by an earlier connection only adds to these.  `GoneInv`
says that without a connection nothing but a will that is due stands between the
device and its unavailability, and that `Disconnect`, which drops the will, comes
after `offline`.

Only model-checked: everything temporal (`HandBack`'s liveness, `SensorLossEndsInAuto`,
settling, expiry, shutdown, announcing), because liveness is out of reach of the
prover; the safety core of each is proved where there is one, as above.  Every
invariant and action property that a passing run checks is a theorem.

## Not modelled

- The **history** store: SQL that nothing but the dashboard reads; its daily
  clean-up only waits for a ticker, and its stop is bounded.
- The **read-only handlers** and the rate limits of the logs: they change nothing.
- **Text**: lines, rows, addresses and requests are records and tokens of what the
  code tells apart.  Upper case, blanks and log notes are left out.
- **Late delivery** by the MQTT library: a publication that timed out counts as
  failed or as done unseen at that moment; the library may in fact send it later.
- Demo mode (simulated temperatures), the dashboard, the shell hint client.

## Plan

1. Done: policy, control loop and fail-safe, hand-back refinement, hysteresis,
   monitors, lifecycle with restarts, bridge, configuration, broker addresses,
   commands; a theorem for every invariant and action property of the runs.
2. `Bridge`: publications that the library sends late, after a newer one.
3. The safety parts of `OverrideTakesEffect` and `ShutdownCompletes`: that an
   override in force is what the next pass computes, and that no goroutine waits
   for one that waits for it.
