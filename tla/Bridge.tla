------------------------------- MODULE Bridge -------------------------------
(***************************************************************************)
(* The MQTT bridge to Home Assistant (internal/mqtt): the publish loop,    *)
(* the onConnect callbacks that the client library runs on goroutines of   *)
(* its own, Stop, and the broker with what it retains: the availability,   *)
(* the last state document, and the discovery configs of the sensors.      *)
(*                                                                         *)
(* The broker and the client library are not in the repository; they are   *)
(* modelled from how client.go sets them up: automatic reconnection, a     *)
(* clean session, and a retained will, which the broker publishes when the *)
(* connection breaks and drops when the client disconnects.                *)
(*                                                                         *)
(*   callback   where a run of onConnect stands: about to do gpus, cpus    *)
(*              (forget the announced devices), discovery, subscribe,      *)
(*              online; or idle                                            *)
(*   loop       publishLoop: wait (its select), state (publishState is     *)
(*              publishing), check, announce, mark (publishNew*Discovery,  *)
(*              for the first device in left), returned                    *)
(*   stop       Stop: running (not called), waiting (for the loop),        *)
(*              offline, disconnect, stopped                               *)
(***************************************************************************)
EXTENDS Integers, FiniteSets

CONSTANTS
  Devices,       \* [kind : {"cpu", "gpu"}, index : Nat]: sockets and cards
  Scans,         \* the sets of devices that a reading can list
  CardSensors,   \* sensors announced for one GPU: 3 in gpuDeviceSpecs
  Callbacks,     \* bound: how many runs of onConnect can overlap
  MaxConnects,   \* bound: how many connections are made
  MaxFaults,     \* bound: how many requests fail on a live connection
  Failing,       \* the requests that can fail on a live connection
  Forgets,       \* the places of the loop at which the broker may restart
                 \* and lose what it retained
  Ends           \* the bridge may be stopped, and the process may end

Requests == {"state", "config", "discovery", "subscribe", "online", "offline"}

ASSUME BridgeAssumption ==
  /\ Devices \subseteq [kind : {"cpu", "gpu"}, index : Nat]
  /\ Scans \subseteq SUBSET Devices /\ \A s \in Scans : IsFiniteSet(s)
  /\ CardSensors \in Nat \ {0}
  /\ MaxConnects \in Nat /\ MaxFaults \in Nat
  /\ Failing \subseteq Requests
  /\ Ends \in BOOLEAN

VARIABLES
  alive,         \* the process runs
  scan,          \* the devices in the controller's last readings
  link,          \* the client's connection: down, up, or closed for good
  connects, faults,
  callback,
  loop, snapshot, left, sensor, clean,
  announced,     \* gpuDiscovered and cpuDiscovered
  stop,
  stopCh,        \* open, closed, or nil
  willDue,       \* the broker has yet to notice a broken connection
  availability,  \* retained: none, online or offline
  registered,    \* retained: the configs of the fixed entities
  configs,       \* retained: the array position each sensor's template reads
  state,         \* retained: the devices of the last state document
  subscribed     \* the command topics, on this connection

callbackVars == <<callback, announced>>
loopVars == <<loop, snapshot, left, sensor, clean>>
stopVars == <<stop, stopCh>>
linkVars == <<link, connects, willDue, subscribed>>
retainedVars == <<availability, registered, configs, state>>
vars == <<alive, scan, faults, callbackVars, loopVars, stopVars, linkVars,
          retainedVars>>

Sensors(d) == IF d.kind = "gpu" THEN CardSensors ELSE 1

Absent == -1     \* no config is retained for the sensor
Nothing == {}    \* a state document without devices, or none at all

NoConfigs == [d \in Devices |-> [k \in 1 .. Sensors(d) |-> Absent]]

Init ==
  /\ alive = TRUE
  /\ scan = {}           \* MQTT connects before the first reading
  /\ link = "down" /\ connects = 0 /\ faults = 0
  /\ callback = [c \in Callbacks |-> "idle"]
  /\ loop = "wait" /\ snapshot = {} /\ left = {} /\ sensor = 1 /\ clean = TRUE
  /\ announced = {}
  /\ stop = "running" /\ stopCh = "open"
  /\ willDue = FALSE
  /\ availability = "none" /\ registered = FALSE
  /\ configs = NoConfigs /\ state = Nothing
  /\ subscribed = FALSE

-----------------------------------------------------------------------------
(***************************************************************************)
(* A request to the broker waits two seconds at most.  It is done, which   *)
(* takes a connection; or it fails; or it is lost, done but not            *)
(* acknowledged in time.                                                   *)
(***************************************************************************)
Outcomes(request) ==
  IF link # "up" THEN {"failed"}
  ELSE {"done"} \cup (IF request \in Failing /\ faults < MaxFaults
                      THEN {"failed", "lost"} ELSE {})

TakesEffect(o) == o \in {"done", "lost"}

CountFault(o) ==
  faults' = IF link = "up" /\ o # "done" THEN faults + 1 ELSE faults

(***************************************************************************)
(* The connection and the broker.                                          *)
(***************************************************************************)
\* The client connects again by itself.  The broker publishes the will of
\* the broken connection before it accepts the next one.
Connect(c) ==
  /\ alive /\ link = "down" /\ ~willDue
  /\ connects < MaxConnects /\ callback[c] = "idle"
  /\ link' = "up"
  /\ connects' = connects + 1
  /\ callback' = [callback EXCEPT ![c] = "gpus"]
  /\ UNCHANGED <<alive, scan, faults, announced, loopVars, stopVars, willDue,
                 subscribed, retainedVars>>

Drop ==
  /\ link = "up" /\ link' = "down"
  /\ willDue' = TRUE /\ subscribed' = FALSE
  /\ UNCHANGED <<alive, scan, faults, connects, callbackVars, loopVars,
                 stopVars, retainedVars>>

\* The broker restarts without the messages it retained, or any session.
BrokerRestarts ==
  /\ link = "up" /\ loop \in Forgets
  /\ link' = "down"
  /\ availability' = "none" /\ registered' = FALSE
  /\ configs' = NoConfigs /\ state' = Nothing
  /\ subscribed' = FALSE
  /\ UNCHANGED <<alive, scan, faults, connects, callbackVars, loopVars,
                 stopVars, willDue>>

WillFires ==
  /\ willDue /\ willDue' = FALSE
  /\ availability' = "offline"
  /\ UNCHANGED <<alive, scan, faults, link, connects, subscribed,
                 callbackVars, loopVars, stopVars, registered, configs,
                 state>>

\* The process ends, by whatever means: its connection breaks.
Die ==
  /\ Ends /\ alive /\ alive' = FALSE
  /\ willDue' = (willDue \/ link = "up")
  /\ link' = "closed" /\ subscribed' = FALSE
  /\ UNCHANGED <<scan, faults, connects, callbackVars, loopVars, stopVars,
                 retainedVars>>

\* A pass of the control loop stores new readings.
NewReadings(s) ==
  /\ alive /\ scan' = s
  /\ UNCHANGED <<alive, faults, callbackVars, loopVars, stopVars, linkVars,
                 retainedVars>>

-----------------------------------------------------------------------------
(***************************************************************************)
(* onConnect, on a goroutine of the client library.                        *)
(***************************************************************************)
CallbackGoes(c, from, to) ==
  /\ alive /\ callback[c] = from
  /\ callback' = [callback EXCEPT ![c] = to]
  /\ UNCHANGED <<alive, scan, loopVars, stopVars>>

\* resetGPUDiscovery and resetCPUDiscovery, under a lock each.
ResetDiscovery(c, from, to, kind) ==
  /\ CallbackGoes(c, from, to)
  /\ announced' = {d \in announced : d.kind # kind}
  /\ UNCHANGED <<faults, linkVars, retainedVars>>

\* publishDiscovery: the entities that do not depend on the devices.
PublishDiscovery(c, o) ==
  /\ CallbackGoes(c, "discovery", "subscribe")
  /\ CountFault(o)
  /\ registered' = (registered \/ TakesEffect(o))
  /\ UNCHANGED <<announced, linkVars, availability, configs, state>>

\* Seeded bug: the topics are subscribed on the first connection only.
SubscribeOnce(c, o) ==
  /\ CallbackGoes(c, "subscribe", "online")
  /\ CountFault(o)
  /\ subscribed' = (subscribed \/ (TakesEffect(o) /\ connects = 1))
  /\ UNCHANGED <<announced, link, connects, willDue, retainedVars>>

\* subscribeCommands; a failure is logged and onConnect goes on.
SubscribeCommands(c, o) ==
  /\ CallbackGoes(c, "subscribe", "online")
  /\ CountFault(o)
  /\ subscribed' = (subscribed \/ TakesEffect(o))
  /\ UNCHANGED <<announced, link, connects, willDue, retainedVars>>

\* publishAvailability(true).
PublishOnline(c, o) ==
  /\ CallbackGoes(c, "online", "idle")
  /\ CountFault(o)
  /\ availability' = IF TakesEffect(o) THEN "online" ELSE availability
  /\ UNCHANGED <<announced, linkVars, registered, configs, state>>

-----------------------------------------------------------------------------
(***************************************************************************)
(* publishLoop.                                                            *)
(***************************************************************************)
LoopGoes(from, to) ==
  /\ alive /\ loop = from /\ loop' = to
  /\ UNCHANGED <<alive, scan, callback, stopVars, linkVars>>

\* The ticker fires; publishState takes the controller's status.
Tick ==
  /\ LoopGoes("wait", "state")
  /\ snapshot' = scan
  /\ UNCHANGED <<left, sensor, clean, announced, faults, retainedVars>>

\* Only a state document that was acknowledged goes on to discovery.
PublishState(o) ==
  /\ LoopGoes("state", IF o = "done" THEN "check" ELSE "wait")
  /\ CountFault(o)
  /\ left' = IF o = "done" THEN snapshot ELSE {}
  /\ state' = IF TakesEffect(o) THEN snapshot ELSE state
  /\ UNCHANGED <<snapshot, sensor, clean, announced, availability,
                 registered, configs>>

\* The cards come first, then the sockets, each in the order of the reading.
Before(d, e) ==
  \/ d.kind = "gpu" /\ e.kind = "cpu"
  \/ d.kind = e.kind /\ d.index < e.index

FirstOf(devices) ==
  CHOOSE d \in devices : \A e \in devices \ {d} : Before(d, e)

\* Where the state document lists a device: its place in the array of its
\* kind.
Position(d, devices) ==
  Cardinality({e \in devices : e.kind = d.kind /\ Before(e, d)})

\* Seeded bug: the place is that of the latest reading, not of the document.
TemplateByScan(d, devices) == Position(d, scan)

\* The array index that a device's templates read.
TemplateIndex(d, devices) == Position(d, devices)

SkipAnnounced ==
  /\ left # {} /\ FirstOf(left) \in announced
  /\ LoopGoes("check", "check")
  /\ left' = left \ {FirstOf(left)}
  /\ UNCHANGED <<snapshot, sensor, clean, announced, faults, retainedVars>>

BeginAnnouncing ==
  /\ left # {} /\ FirstOf(left) \notin announced
  /\ LoopGoes("check", "announce")
  /\ sensor' = 1 /\ clean' = TRUE
  /\ UNCHANGED <<snapshot, left, announced, faults, retainedVars>>

\* Seeded bug: only the last config of a device counts.
LastClean(o) == o = "done"

\* No config of the device has failed so far.
StillClean(o) == clean /\ o = "done"

\* A config that fails does not keep the device's others from being sent.
PublishConfig(o) ==
  LET d == FirstOf(left)
      last == sensor = Sensors(d)
  IN  /\ LoopGoes("announce", IF last THEN "mark" ELSE "announce")
      /\ CountFault(o)
      /\ configs' = IF TakesEffect(o)
                    THEN [configs EXCEPT ![d][sensor] =
                                      TemplateIndex(d, snapshot)]
                    ELSE configs
      /\ clean' = StillClean(o)
      /\ sensor' = IF last THEN 1 ELSE sensor + 1
      /\ UNCHANGED <<snapshot, left, announced, availability, registered,
                     state>>

\* Seeded bug: a device counts as announced whatever became of its configs.
MarkUnclean ==
  /\ LoopGoes("mark", "check")
  /\ announced' = announced \cup {FirstOf(left)}
  /\ left' = left \ {FirstOf(left)}
  /\ UNCHANGED <<snapshot, sensor, clean, faults, retainedVars>>

Mark ==
  /\ LoopGoes("mark", "check")
  /\ announced' = IF clean THEN announced \cup {FirstOf(left)} ELSE announced
  /\ left' = left \ {FirstOf(left)}
  /\ UNCHANGED <<snapshot, sensor, clean, faults, retainedVars>>

EndTick ==
  /\ left = {}
  /\ LoopGoes("check", "wait")
  /\ UNCHANGED <<snapshot, left, sensor, clean, announced, faults,
                 retainedVars>>

\* A nil channel is never ready: a loop that Stop gave up on ticks on.
LoopStops ==
  /\ stopCh = "closed"
  /\ LoopGoes("wait", "returned")
  /\ UNCHANGED <<snapshot, left, sensor, clean, announced, faults,
                 retainedVars>>

-----------------------------------------------------------------------------
(***************************************************************************)
(* Stop.                                                                   *)
(***************************************************************************)
StopGoes(from, to) ==
  /\ alive /\ stop = from /\ stop' = to
  /\ UNCHANGED <<alive, scan, callbackVars, loopVars>>

StopBegins ==
  /\ Ends /\ StopGoes("running", "waiting")
  /\ stopCh' = "closed"
  /\ UNCHANGED <<faults, linkVars, retainedVars>>

\* The loop has returned, or stopWaitTimeout is over and it is abandoned; a
\* loop that stands in its select returns in time.
StopWaited ==
  /\ loop # "wait"
  /\ StopGoes("waiting", "offline")
  /\ stopCh' = "nil"
  /\ UNCHANGED <<faults, linkVars, retainedVars>>

\* Seeded bug: offline is published without the retain flag.
PublishOfflineUnretained(o) ==
  /\ StopGoes("offline", "disconnect")
  /\ CountFault(o)
  /\ UNCHANGED <<stopCh, linkVars, retainedVars>>

\* publishAvailability(false).
PublishOffline(o) ==
  /\ StopGoes("offline", "disconnect")
  /\ CountFault(o)
  /\ availability' = IF TakesEffect(o) THEN "offline" ELSE availability
  /\ UNCHANGED <<stopCh, linkVars, registered, configs, state>>

\* Seeded bug: the connection is dropped, but the client connects again.
DisconnectOnly ==
  /\ StopGoes("disconnect", "stopped")
  /\ link' = "down" /\ subscribed' = FALSE
  /\ UNCHANGED <<faults, stopCh, connects, willDue, retainedVars>>

\* A connection that is up is closed in order, and the broker drops the will.
Disconnect ==
  /\ StopGoes("disconnect", "stopped")
  /\ link' = "closed" /\ subscribed' = FALSE
  /\ UNCHANGED <<faults, stopCh, connects, willDue, retainedVars>>

-----------------------------------------------------------------------------
CallbackStep(c) ==
  \/ ResetDiscovery(c, "gpus", "cpus", "gpu")
  \/ ResetDiscovery(c, "cpus", "discovery", "cpu")
  \/ \E o \in Outcomes("discovery") : PublishDiscovery(c, o)
  \/ \E o \in Outcomes("subscribe") : SubscribeCommands(c, o)
  \/ \E o \in Outcomes("online") : PublishOnline(c, o)

LoopStep ==
  \/ Tick
  \/ \E o \in Outcomes("state") : PublishState(o)
  \/ SkipAnnounced
  \/ BeginAnnouncing
  \/ \E o \in Outcomes("config") : PublishConfig(o)
  \/ Mark
  \/ EndTick
  \/ LoopStops

StopStep ==
  \/ StopWaited
  \/ \E o \in Outcomes("offline") : PublishOffline(o)
  \/ Disconnect

Next ==
  \/ \E c \in Callbacks : Connect(c) \/ CallbackStep(c)
  \/ Drop \/ BrokerRestarts \/ WillFires \/ Die
  \/ \E s \in Scans : NewReadings(s)
  \/ LoopStep \/ StopBegins \/ StopStep

Spec == Init /\ [][Next]_vars

(***************************************************************************)
(* Every goroutine that can go on does, the select of the publish loop     *)
(* does not pass over a closed channel for ever, and the broker notices a  *)
(* broken connection at the end of its keep-alive.                         *)
(***************************************************************************)
Fairness ==
  /\ WF_vars(LoopStep) /\ SF_vars(LoopStops)
  /\ WF_vars(StopStep)
  /\ \A c \in Callbacks : WF_vars(CallbackStep(c))
  /\ WF_vars(WillFires)

FairSpec == Spec /\ Fairness

-----------------------------------------------------------------------------
(***************************************************************************)
(* Properties.                                                             *)
(***************************************************************************)
\* Every variable keeps to its values, and once Stop has returned the client
\* is closed for good and never connects again.
BridgeTypeOK ==
  /\ {alive, willDue, registered, subscribed, clean} \subseteq BOOLEAN
  /\ {scan, snapshot, left, announced, state} \subseteq SUBSET Devices
  /\ link \in {"down", "up", "closed"}
  /\ connects \in 0 .. MaxConnects /\ faults \in 0 .. MaxFaults
  /\ callback \in [Callbacks -> {"idle", "gpus", "cpus", "discovery",
                                 "subscribe", "online"}]
  /\ loop \in {"wait", "state", "check", "announce", "mark", "returned"}
  /\ sensor \in Nat \ {0}
  /\ stop \in {"running", "waiting", "offline", "disconnect", "stopped"}
  /\ stopCh \in {"open", "closed", "nil"}
  /\ availability \in {"none", "online", "offline"}
  /\ DOMAIN configs = Devices
  /\ stop = "stopped" => link = "closed"

Running == alive /\ stop = "running"

\* What a template shows when it reads this position of the document.
Shown(kind, position) ==
  {d \in state : d.kind = kind /\ Position(d, state) = position}

\* The templates that the broker retains of a device that counts as
\* announced all read one place of the document: an announcement that broke
\* off half-way, on whichever connection, and was repeated after the list
\* had shifted, never leaves a card's temperature beside the memory of
\* another one.
SensorsAgree ==
  \A d \in announced : \A j, k \in 1 .. Sensors(d) :
    configs[d][j] # Absent /\ configs[d][k] # Absent
      => configs[d][j] = configs[d][k]

\* On a connection whose callbacks have forgotten the announced devices, the
\* broker retains every config of each device that counts as announced: no
\* device is passed over whose configs failed, or are lost with the broker's
\* memory.
AnnouncedIsRetained ==
  link = "up" /\ (\A c \in Callbacks : callback[c] \notin {"gpus", "cpus"})
    => \A d \in announced : \A k \in 1 .. Sensors(d) : configs[d][k] # Absent

\* On a connection that lasts, every device the controller keeps reading
\* ends up with all its configs at the broker, though some of them failed or
\* were lost, the connection was lost midway, and the broker restarted empty
\* while the publish loop waited for its next tick.
DevicesAnnounced ==
  \A s \in Scans :
    <>[](Running /\ link = "up" /\ scan = s)
      => <>[](\A d \in s : \A k \in 1 .. Sensors(d) : configs[d][k] # Absent)

\* On a connection that lasts the bridge ends up available, its fixed
\* entities registered and its command topics subscribed, however many
\* connections, and callbacks still running, came before.
ConnectionSettles ==
  <>[](Running /\ link = "up")
    => <>[](availability = "online" /\ registered /\ subscribed)

\* As soon as no onConnect runs any more, a connection that is up is one on
\* which Home Assistant sees the bridge, its entities and its commands: no
\* callback that outlived its connection undoes what a later one did.  A
\* request that fails is not repeated, so this takes connections on which
\* none does.
ConnectedMeansReady ==
  Running /\ link = "up" /\ (\A c \in Callbacks : callback[c] = "idle")
    => availability = "online" /\ registered /\ subscribed

\* A process that is gone, or has stopped the bridge, ends up not available,
\* provided no onConnect was running while Stop ran, and publishing offline
\* does not fail on a live connection: Stop disconnects all the same, which
\* drops the will.
GoneMeansUnavailable ==
  [](stop # "running" => \A c \in Callbacks : callback[c] = "idle")
    => ((~alive \/ stop = "stopped") ~> [](availability # "online"))

-----------------------------------------------------------------------------
(***************************************************************************)
(* Claims of the documentation that the code does not keep.                *)
(***************************************************************************)
\* discovery.go: a template's index "is the device's position in the state
\* gpus array (what the value_templates index into)", and its entity is named
\* after the card.  The sensor of a device that the state document lists
\* shows that device, and no other, for every config the broker retains.
SensorShowsItsDevice ==
  \A d \in state : \A k \in 1 .. Sensors(d) :
    configs[d][k] # Absent => Shown(d.kind, configs[d][k]) = {d}

\* bridge.go, onConnect: "Clearing the discovered maps on every (re)connect
\* makes that loop re-announce everything on the new connection".  This is
\* DevicesAnnounced, wherever the loop stands when the broker is lost.

\* bridge.go, Stop: "publishes the offline availability state, and
\* disconnects".  Once it returned, with no fault, nothing is online.
StoppedMeansOffline == stop = "stopped" => availability # "online"
=============================================================================
