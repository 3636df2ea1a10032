------------------------------ MODULE Commands ------------------------------
(***************************************************************************)
(* The two ways in: the HTTP handlers of internal/api and the MQTT command *)
(* topics of internal/mqtt, with the validation they share, in front of    *)
(* the controller's override and hints.  HTTP requests are decided at      *)
(* once; MQTT commands pass through the broker, which may retain them and  *)
(* delivers a retained one again on every new connection.                  *)
(*                                                                         *)
(* The configuration in force is any that a file and an environment give a *)
(* process that starts.                                                    *)
(*                                                                         *)
(* Names and reasons are tokens: a set says which are well formed.         *)
(***************************************************************************)
EXTENDS Configuration

CONSTANTS
  Launches,       \* the files and environments that processes start with
  Addresses,      \* the brokers operators mean
  Reachable,      \* the canonical addresses at which there is a broker
  Clients,        \* HTTP clients: on the loopback or not, and their token
  Second,         \* time.Second, in clock units
  HalfRange,      \* an integer lies in -HalfRange .. HalfRange - 1
  Speeds,         \* the speeds clients ask for
  Seconds,        \* the durations clients ask for, in seconds
  Names,          \* the hint sources and types clients use
  WellFormed,     \* the names HintField accepts, and the reasons
                  \* OverrideReason accepts
  Actions,        \* the hint actions clients use
  Intensities,    \* the intensities clients use
  MaxSent,        \* bound: how many MQTT commands are sent
  MaxConnects     \* bound: how many connections are made

ASSUME CommandsAssumption ==
  /\ \A l \in Launches : /\ l.file.state \in {"absent", "broken", "parsed"}
                         /\ DOMAIN l.file.given \subseteq DOMAIN Default
                         /\ DOMAIN l.env \subseteq EnvFields
                         /\ Typed(l.file.given) /\ Typed(l.env)
  /\ \A a \in Addresses : IsAddress(a)
  /\ Clients \subseteq [loopback : BOOLEAN, token : STRING]
  /\ MaxOverrideDuration \in Nat \ {0}
  /\ Second \in Nat \ {0} /\ HalfRange \in Nat \ {0}
  /\ Speeds \cup Seconds \subseteq (-HalfRange) .. (HalfRange - 1)
  /\ MaxSent \in Nat /\ MaxConnects \in Nat

VARIABLES
  cfg,          \* the configuration in force
  env,          \* the fields of it that the environment sets
  broker,       \* the bridge: the address it dials, once it has started
  override,     \* the controller: {} or the one override in force
  hints,        \* the controller: at most one hint for each source
  connects,     \* how many connections were made; the bridge is connected
  connected,
  inbox,        \* the messages on their way to the bridge's handlers
  retained,     \* the broker: the retained commands, one for each topic
  sent,         \* history: how many commands were published
  applied       \* history: how many commands the handlers applied

startVars == <<cfg, env, broker>>
brokerVars == <<connects, connected, inbox, retained, sent, applied>>
vars == <<startVars, override, hints, brokerVars>>

OverrideRequests ==
  [topic : {"override"}, speed : Speeds, duration : Seconds, reason : Names]
HintRequests ==
  [topic : {"hint"}, source : Names, type : Names, action : Actions,
   intensity : Intensities, estimate : Seconds]

\* A message on the clear topic needs no payload; one on another may not
\* parse.
Clear == [topic |-> "clear"]
Malformed == {[topic |-> "override", broken |-> TRUE],
              [topic |-> "hint", broken |-> TRUE]}
Messages == OverrideRequests \cup HintRequests \cup {Clear} \cup Malformed

\* run and Bridge.Start: without a configuration there is no process, and
\* the bridge of one that has MQTT enabled dials the normalised address.
Start ==
  \E l \in Launches :
    \E c \in ResolveConfig(l.file) :
      /\ cfg = ApplyEnvOverrides(c, l.env) /\ env = DOMAIN l.env
      /\ broker = IF cfg.mqttEnabled THEN NormalizeBrokerURL(cfg.broker)
                                     ELSE <<>>

Init ==
  /\ Start
  /\ override = {} /\ hints = {}
  /\ connects = 0 /\ connected = FALSE /\ inbox = <<>> /\ retained = {}
  /\ sent = 0 /\ applied = 0

-----------------------------------------------------------------------------
(***************************************************************************)
(* Validation.                                                             *)
(***************************************************************************)
ValidOverride(q) == q.speed \in 0 .. 100 /\ q.reason \in WellFormed

ValidHint(q) ==
  /\ q.source \in WellFormed /\ q.type \in WellFormed
  /\ q.action \in {"start", "stop"}
  /\ q.intensity \in {"", "low", "medium", "high"}
  /\ q.estimate >= 0

\* The "required" binding of OverrideRequest takes a speed of 0 for none.
HttpAcceptsOverride(q) == q.speed # 0 /\ ValidOverride(q)

(***************************************************************************)
(* time.Duration(seconds) * time.Second, which wraps around.               *)
(***************************************************************************)
ToDuration(seconds) ==
  ((seconds * Second + HalfRange) % (2 * HalfRange)) - HalfRange

(***************************************************************************)
(* What an accepted request does to the controller.                        *)
(***************************************************************************)
Forever == -1

SetOverride(q) ==
  /\ override' = {[speed |-> Policy(cfg)!ClampSpeed(q.speed),
                   life |-> Policy(cfg)!OverrideLife(ToDuration(q.duration))]}
  /\ UNCHANGED <<startVars, hints>>

ClearOverride == override' = {} /\ UNCHANGED <<startVars, hints>>

WithoutHint(source) == {h \in hints : h.source # source}

RemoveHint(source) ==
  /\ hints' = WithoutHint(source)
  /\ UNCHANGED <<startVars, override>>

\* A hint without an estimate never expires; ToDuration may make the others
\* expire in the past.
AddHint(q) ==
  /\ hints' = WithoutHint(q.source) \cup
       {[source |-> q.source, min |-> Policy(cfg)!HintMinSpeed(q.intensity),
         life |-> IF q.estimate > 0 THEN ToDuration(q.estimate) ELSE Forever]}
  /\ UNCHANGED <<startVars, override>>

ApplyHint(q) ==
  IF q.action = "stop" THEN RemoveHint(q.source) ELSE AddHint(q)

-----------------------------------------------------------------------------
(***************************************************************************)
(* HTTP: handleOverride, handleClearOverride, handleHint and               *)
(* handleRemoveHint, behind requireAuth; a rejected request changes        *)
(* nothing.                                                                *)
(***************************************************************************)
\* Without a token only the loopback may change anything, and with one only
\* who bears it.
RequireAuth(client) ==
  IF cfg.token = "" THEN client.loopback ELSE client.token = cfg.token

HandleOverride(q) == HttpAcceptsOverride(q) /\ SetOverride(q)

HandleHint(q) == ValidHint(q) /\ ApplyHint(q)

HttpRequest ==
  /\ \E client \in Clients : RequireAuth(client)
  /\ \/ \E q \in OverrideRequests : HandleOverride(q)
     \/ ClearOverride
     \/ \E q \in HintRequests : HandleHint(q)
     \/ \E source \in Names : RemoveHint(source)
  /\ UNCHANGED brokerVars

-----------------------------------------------------------------------------
(***************************************************************************)
(* The broker and the connection (client.go: a clean session).             *)
(***************************************************************************)
CanConnect == cfg.mqttEnabled /\ broker \in Reachable

\* Somebody publishes a command; the broker forwards it as a live message.
\* What is published where the bridge never connects has no effect on it.
Send(m, retain) ==
  /\ CanConnect /\ sent < MaxSent /\ sent' = sent + 1
  /\ retained' = IF retain THEN {r \in retained : r.topic # m.topic} \cup {m}
                           ELSE retained
  /\ inbox' = IF connected THEN Append(inbox, [body |-> m, old |-> FALSE])
                           ELSE inbox
  /\ UNCHANGED <<startVars, override, hints, connects, connected, applied>>

\* subscribeCommands, on every connection: the broker replays what it
\* retained, one topic after the other.
Topics == <<"override", "clear", "hint">>

Replay ==
  LET Retained(topic) == {r \in retained : r.topic = topic}
      Of(topic) == IF Retained(topic) = {} THEN <<>>
                   ELSE <<[body |-> CHOOSE r \in Retained(topic) : TRUE,
                           old |-> TRUE]>>
  IN  Of(Topics[1]) \o Of(Topics[2]) \o Of(Topics[3])

SubscribeCommands ==
  /\ CanConnect /\ ~connected /\ connected' = TRUE
  /\ connects < MaxConnects /\ connects' = connects + 1
  /\ inbox' = inbox \o Replay
  /\ UNCHANGED <<startVars, override, hints, retained, sent, applied>>

\* Messages the client has received are still handled; others are lost.
Drop ==
  /\ connected /\ connected' = FALSE
  /\ \/ UNCHANGED inbox
     \/ inbox' = <<>>
  /\ UNCHANGED <<startVars, override, hints, connects, retained, sent, applied>>

Accepts(m) ==
  /\ m \notin Malformed
  /\ m.topic = "override" => ValidOverride(m)
  /\ m.topic = "hint" => ValidHint(m)

\* handleOverrideCommand, handleClearCommand, handleHintCommand.
Apply(m) ==
  \/ m.topic = "override" /\ SetOverride(m)
  \/ m.topic = "clear" /\ ClearOverride
  \/ m.topic = "hint" /\ ApplyHint(m)

\* Seeded bug: a replayed command is applied like a live one.
DeliverReplayed ==
  /\ inbox # <<>> /\ inbox' = Tail(inbox)
  /\ \/ /\ Accepts(Head(inbox).body) /\ Apply(Head(inbox).body)
        /\ applied' = applied + 1
     \/ /\ ~Accepts(Head(inbox).body)
        /\ UNCHANGED <<startVars, override, hints, applied>>
  /\ UNCHANGED <<connects, connected, retained, sent>>

\* The handlers run one after the other, and drop a replayed command.
Deliver ==
  LET m == Head(inbox).body
      carriedOut == ~Head(inbox).old /\ Accepts(m)
  IN  /\ inbox # <<>> /\ inbox' = Tail(inbox)
      /\ \/ carriedOut /\ Apply(m) /\ applied' = applied + 1
         \/ ~carriedOut /\ UNCHANGED <<startVars, override, hints, applied>>
      /\ UNCHANGED <<connects, connected, retained, sent>>

-----------------------------------------------------------------------------
Next ==
  \/ HttpRequest
  \/ \E m \in Messages, retain \in BOOLEAN : Send(m, retain)
  \/ SubscribeCommands \/ Drop \/ Deliver

Spec == Init /\ [][Next]_vars

-----------------------------------------------------------------------------
(***************************************************************************)
(* Properties.                                                             *)
(***************************************************************************)
\* README.md, "API Security": an override is held to the speed band and to a
\* finite, positive lifetime of at most 24 h, also when the requested
\* duration overflows.  The band is a part of 0 .. 100 in every process that
\* started, unless the environment set it.
RequestsBounded ==
  /\ env \cap {"minSpeed", "maxSpeed"} = {} =>
       {o.speed : o \in override} \subseteq
         (cfg.minSpeed .. cfg.maxSpeed) \cap (0 .. 100)
  /\ {o.life : o \in override} \subseteq 1 .. MaxOverrideDuration
  /\ {h.source : h \in hints} \subseteq WellFormed

\* config.go, Validate: the critical temperatures "are the sole trigger for
\* the emergency ramp".  In every process that started they are within the
\* limits of Validate and the ramp goes to a speed that is one, whatever the
\* file left out or the environment set.  How high that speed is, and whether
\* it is above a threshold, is the environment's to spoil.
EmergencyArmed ==
  /\ {cfg.criticalCPUTemp, cfg.criticalGPUTemp} \subseteq 40 .. 120
  /\ Policy(cfg)!EmergencySpeed \in 1 .. 100

\* A command that was published once is carried out once at most, however
\* often the bridge reconnects and the broker replays it.
NothingReplayed == applied <= sent

Meaning ==
  [b \in {Written(a) : a \in Addresses} |->
     Canonical(CHOOSE a \in Addresses : Written(a) = b)]

\* README.md, "MQTT": "broker is forgiving about format: a bare host,
\* host:port, or even a browser URL".  Every way to write a broker that
\* starts the process is dialled at the host and port it means, over TLS when
\* it says so.
BrokerReached ==
  cfg.mqttEnabled /\ cfg.broker \in DOMAIN Meaning
    => broker = Meaning[cfg.broker]
=============================================================================
