--------------------------- MODULE CommandsProofs ---------------------------
(***************************************************************************)
(* Theorems about Commands, for every set of files, environments, requests *)
(* and messages: the configuration of a process that started arms the      *)
(* emergency ramp, whatever gets in is held to its bounds, and a command   *)
(* is carried out once at most.                                            *)
(***************************************************************************)
EXTENDS Commands, BrokerProofs

-----------------------------------------------------------------------------
(***************************************************************************)
(* The configuration: the fields that no environment variable sets are     *)
(* those of a configuration that was validated.                            *)
(***************************************************************************)
LEMMA DefaultIsValid ==
  /\ \A f \in IntFields : Default[f] \in Int
  /\ Policy(Default)!ValidConfig
BY DEF Default, IntFields, Policy!ValidConfig,
       Policy!EffectiveCPUThreshold, Policy!EffectiveGPUThreshold,
       Policy!EffectiveThreshold

\* What resolveConfig hands to run.
Resolved(c) ==
  /\ DOMAIN c = DOMAIN Default
  /\ \A f \in IntFields : c[f] \in Int
  /\ 0 <= c.minSpeed /\ c.minSpeed <= c.maxSpeed /\ c.maxSpeed <= 100
  /\ {c.criticalCPUTemp, c.criticalGPUTemp} \subseteq 40 .. 120

LEMMA ResolvedConfigs ==
  ASSUME NEW l \in Launches, NEW c \in ResolveConfig(l.file)
  PROVE  Resolved(c)
<1>1. CASE l.file.state = "absent"
  <2>1. c = Default
    BY <1>1 DEF ResolveConfig
  <2>2. QED
    BY <2>1, DefaultIsValid DEF Resolved, Policy!ValidConfig
<1>2. CASE l.file.state # "absent"
  <2>1. c = Laid(l.file.given, Default) /\ Validate(c)
    BY <1>2 DEF ResolveConfig, Load
  <2>2. DOMAIN c = DOMAIN Default
    BY <2>1 DEF Laid
  <2>3. \A f \in IntFields : c[f] \in Int
    <3>1. IntFields \subseteq DOMAIN Default
      BY DEF IntFields, Default
    <3>2. Typed(l.file.given)
      BY CommandsAssumption
    <3>3. QED
      BY <2>1, <3>1, <3>2, DefaultIsValid DEF Laid, Typed
  <2>4. Policy(c)!ValidConfig
    BY <2>1 DEF Validate
  <2>5. QED
    BY <2>2, <2>3, <2>4 DEF Resolved, Policy!ValidConfig
<1>3. QED
  BY <1>1, <1>2

ConfigInv ==
  /\ \A f \in IntFields : cfg[f] \in Int
  /\ env \cap {"minSpeed", "maxSpeed"} = {} =>
       0 <= cfg.minSpeed /\ cfg.minSpeed <= cfg.maxSpeed /\ cfg.maxSpeed <= 100
  /\ {cfg.criticalCPUTemp, cfg.criticalGPUTemp} \subseteq 40 .. 120

LEMMA StartConfig == Start => ConfigInv
<1> SUFFICES ASSUME NEW l \in Launches, NEW c \in ResolveConfig(l.file),
                    cfg = Laid(l.env, c), env = DOMAIN l.env
             PROVE  ConfigInv
  BY DEF Start, ApplyEnvOverrides
<1>1. Resolved(c) /\ DOMAIN l.env \subseteq EnvFields /\ Typed(l.env)
  BY ResolvedConfigs, CommandsAssumption
<1>2. IntFields \subseteq DOMAIN c
  BY <1>1 DEF Resolved, IntFields, Default
<1>3. \A f \in IntFields : cfg[f] \in Int
  BY <1>1, <1>2 DEF Laid, Typed, Resolved
<1>4. \A f \in IntFields : f \notin env => cfg[f] = c[f]
  BY <1>2 DEF Laid
<1>5. {"minSpeed", "maxSpeed", "criticalCPUTemp", "criticalGPUTemp"}
        \subseteq IntFields
  BY DEF IntFields
<1>6. cfg.criticalCPUTemp = c.criticalCPUTemp
      /\ cfg.criticalGPUTemp = c.criticalGPUTemp
  BY <1>1, <1>4, <1>5 DEF EnvFields
<1>7. env \cap {"minSpeed", "maxSpeed"} = {} =>
        cfg.minSpeed = c.minSpeed /\ cfg.maxSpeed = c.maxSpeed
  BY <1>4, <1>5
<1>8. QED
  BY <1>1, <1>3, <1>6, <1>7 DEF ConfigInv, Resolved

LEMMA NextKeepsConfig == [Next]_vars => UNCHANGED startVars
BY DEF Next, vars, HttpRequest, HandleOverride, HandleHint, ApplyHint,
       SetOverride, ClearOverride, AddHint, RemoveHint, Send,
       SubscribeCommands, Drop, Deliver, Apply, startVars

LEMMA ConfigInvariance == Spec => []ConfigInv
<1>1. Init => ConfigInv
  BY StartConfig DEF Init
<1>2. ConfigInv /\ [Next]_vars => ConfigInv'
  BY NextKeepsConfig DEF ConfigInv, startVars
<1>3. QED
  BY <1>1, <1>2, PTL DEF Spec

\* Every process that starts has plausible critical temperatures, and ramps
\* to a speed that is one, whatever the environment sets.
THEOREM EmergencyIsArmed == Spec => []EmergencyArmed
<1>1. ConfigInv => EmergencyArmed
  <2> SUFFICES ASSUME ConfigInv
               PROVE  Policy(cfg)!EmergencySpeed \in 1 .. 100
    BY DEF ConfigInv, EmergencyArmed
  <2>1. cfg.maxSpeed \in Int
    BY DEF ConfigInv, IntFields
  <2>2. QED
    BY <2>1 DEF Policy!EmergencySpeed
<1>2. QED
  BY <1>1, ConfigInvariance, PTL

-----------------------------------------------------------------------------
(***************************************************************************)
(* The bridge dials the normalised address from the start.                 *)
(***************************************************************************)
DialInv ==
  broker = IF cfg.mqttEnabled THEN NormalizeBrokerURL(cfg.broker) ELSE <<>>

LEMMA DialInvariance == Spec => []DialInv
<1>1. Init => DialInv
  BY DEF Init, Start, DialInv
<1>2. DialInv /\ [Next]_vars => DialInv'
  <2>1. [Next]_vars => broker' = broker /\ cfg' = cfg
    BY NextKeepsConfig DEF startVars
  <2>2. QED
    BY <2>1 DEF DialInv
<1>3. QED
  BY <1>1, <1>2, PTL DEF Spec

\* Two brokers that are written in the same way are the same broker, so what
\* an address means is what normalizeBrokerURL makes of it.
LEMMA MeaningIsNormal ==
  ASSUME NEW b \in DOMAIN Meaning
  PROVE  Meaning[b] = NormalizeBrokerURL(b)
<1>1. PICK a \in Addresses : Written(a) = b
  BY DEF Meaning
<1> DEFINE c == CHOOSE x \in Addresses : Written(x) = b
<1>2. c \in Addresses /\ Written(c) = b
  BY <1>1
<1>3. IsAddress(c)
  BY <1>2, CommandsAssumption
<1>4. NormalizeBrokerURL(b) = Canonical(c)
  BY <1>2, <1>3, NormalizesToMeant
<1>5. QED
  BY <1>4 DEF Meaning

\* Whatever the launch, the bridge of a process that has MQTT enabled dials
\* the broker that its configuration means, of any scheme, host and port.
THEOREM MeantBrokerIsDialled == Spec => []BrokerReached
<1>1. DialInv => BrokerReached
  BY MeaningIsNormal DEF DialInv, BrokerReached
<1>2. QED
  BY <1>1, DialInvariance, PTL

-----------------------------------------------------------------------------
(***************************************************************************)
(* The messages on their way.                                              *)
(***************************************************************************)
Delivery == [body : Messages, old : BOOLEAN]

MailInv == inbox \in Seq(Delivery) /\ retained \subseteq Messages

\* What the broker replays is marked as retained.
Retransmission == [body : Messages, old : {TRUE}]

LEMMA ReplayIsMarked ==
  ASSUME retained \subseteq Messages
  PROVE  Replay \in Seq(Retransmission)
<1> DEFINE Retained(topic) == {r \in retained : r.topic = topic}
           Kept(topic) == CHOOSE r \in Retained(topic) : TRUE
           Of(topic) == IF Retained(topic) = {} THEN <<>>
                        ELSE <<[body |-> Kept(topic), old |-> TRUE]>>
<1>1. ASSUME NEW topic
      PROVE  Of(topic) \in Seq(Retransmission)
  <2>1. CASE Retained(topic) = {}
    BY <2>1
  <2>2. CASE Retained(topic) # {}
    <3>1. Kept(topic) \in Messages
      <4>1. Kept(topic) \in Retained(topic)
        BY <2>2
      <4>2. QED
        BY <4>1
    <3> HIDE DEF Kept
    <3>2. [body |-> Kept(topic), old |-> TRUE] \in Retransmission
      BY <3>1 DEF Retransmission
    <3>3. <<[body |-> Kept(topic), old |-> TRUE]>> \in Seq(Retransmission)
      BY <3>2
    <3>4. QED
      BY <2>2, <3>3
  <2>3. QED
    BY <2>1, <2>2
<1>2. Replay = Of(Topics[1]) \o Of(Topics[2]) \o Of(Topics[3])
  BY DEF Replay
<1> HIDE DEF Of
<1>3. Of(Topics[1]) \o Of(Topics[2]) \in Seq(Retransmission)
  BY <1>1, ConcatProperties
<1>4. QED
  BY <1>1, <1>2, <1>3, ConcatProperties

LEMMA ReplayIsMail ==
  ASSUME retained \subseteq Messages
  PROVE  Replay \in Seq(Delivery)
<1>1. Retransmission \subseteq Delivery
  BY DEF Retransmission, Delivery
<1>2. QED
  BY <1>1, ReplayIsMarked

LEMMA Mail ==
  ASSUME MailInv, inbox # <<>>
  PROVE  Head(inbox).body \in Messages /\ Tail(inbox) \in Seq(Delivery)
<1>1. Head(inbox) \in Delivery /\ Tail(inbox) \in Seq(Delivery)
  BY HeadTailProperties DEF MailInv
<1>2. QED
  BY <1>1 DEF Delivery

LEMMA NextMailInv == MailInv /\ [Next]_vars => MailInv'
<1> SUFFICES ASSUME MailInv, [Next]_vars PROVE MailInv'
  OBVIOUS
<1> USE DEF MailInv
<1>1. CASE HttpRequest
  BY <1>1 DEF HttpRequest, brokerVars
<1>2. ASSUME NEW m \in Messages, NEW retain \in BOOLEAN, Send(m, retain)
      PROVE  MailInv'
  <2>1. [body |-> m, old |-> FALSE] \in Delivery
    BY DEF Delivery
  <2>2. QED
    BY <1>2, <2>1 DEF Send
<1>3. CASE SubscribeCommands
  <2>1. inbox \o Replay \in Seq(Delivery)
    BY ReplayIsMail, ConcatProperties
  <2>2. QED
    BY <1>3, <2>1 DEF SubscribeCommands
<1>4. CASE Drop
  <2>1. UNCHANGED retained /\ (inbox' = inbox \/ inbox' = <<>>)
    BY <1>4 DEF Drop
  <2>2. <<>> \in Seq(Delivery)
    OBVIOUS
  <2>3. QED
    BY <2>1, <2>2
<1>5. CASE Deliver
  <2>1. inbox # <<>> /\ inbox' = Tail(inbox) /\ UNCHANGED retained
    BY <1>5 DEF Deliver
  <2>2. Tail(inbox) \in Seq(Delivery)
    BY <2>1, Mail
  <2>3. QED
    BY <2>1, <2>2
<1>6. CASE UNCHANGED vars
  BY <1>6 DEF vars, brokerVars
<1>7. QED
  BY <1>1, <1>2, <1>3, <1>4, <1>5, <1>6 DEF Next

LEMMA MailInvariance == Spec => []MailInv
<1>1. Init => MailInv
  BY DEF Init, MailInv
<1>2. QED
  BY <1>1, NextMailInv, PTL DEF Spec

-----------------------------------------------------------------------------
(***************************************************************************)
(* The bounds of what gets in.                                             *)
(***************************************************************************)
LEMMA RequestTypes ==
  /\ \A q \in OverrideRequests : q.speed \in Int /\ q.duration \in Int
  /\ \A q \in HintRequests : q.estimate \in Int
BY CommandsAssumption DEF OverrideRequests, HintRequests

LEMMA DurationType ==
  ASSUME NEW d \in Int
  PROVE  ToDuration(d) \in Int
BY CommandsAssumption DEF ToDuration

LEMMA SetOverrideBounded ==
  ASSUME ConfigInv, RequestsBounded, NEW q \in OverrideRequests,
         SetOverride(q)
  PROVE  RequestsBounded'
<1> DEFINE o == [speed |-> Policy(cfg)!ClampSpeed(q.speed),
                 life |-> Policy(cfg)!OverrideLife(ToDuration(q.duration))]
<1>1. /\ q.speed \in Int /\ ToDuration(q.duration) \in Int
      /\ cfg.minSpeed \in Int /\ cfg.maxSpeed \in Int
  BY RequestTypes, DurationType DEF ConfigInv, IntFields
<1>2. o.life \in 1 .. MaxOverrideDuration
  BY <1>1, CommandsAssumption DEF Policy!OverrideLife
<1>3. env \cap {"minSpeed", "maxSpeed"} = {} =>
        o.speed \in (cfg.minSpeed .. cfg.maxSpeed) \cap (0 .. 100)
  BY <1>1 DEF ConfigInv, Policy!ClampSpeed, Policy!Smaller, Policy!Larger
<1>4. override' = {o} /\ UNCHANGED <<cfg, env, hints>>
  BY DEF SetOverride, startVars
<1>5. {x.speed : x \in override'} = {o.speed}
      /\ {x.life : x \in override'} = {o.life}
  BY <1>4
<1>6. QED
  BY <1>2, <1>3, <1>4, <1>5 DEF RequestsBounded

LEMMA ApplyHintBounded ==
  ASSUME RequestsBounded, NEW q \in HintRequests, ValidHint(q), ApplyHint(q)
  PROVE  RequestsBounded'
<1>1. hints' \subseteq hints \cup {h \in hints' : h.source = q.source}
  BY DEF ApplyHint, RemoveHint, AddHint, WithoutHint
<1>2. q.source \in WellFormed
  BY DEF ValidHint
<1>3. UNCHANGED <<cfg, env, override>>
  BY DEF ApplyHint, RemoveHint, AddHint, startVars
<1>4. QED
  BY <1>1, <1>2, <1>3 DEF RequestsBounded

LEMMA AcceptedMessages ==
  ASSUME NEW m \in Messages, Accepts(m)
  PROVE  /\ m.topic = "override" => m \in OverrideRequests
         /\ m.topic = "hint" => m \in HintRequests /\ ValidHint(m)
BY DEF Messages, Accepts, OverrideRequests, HintRequests, Clear

LEMMA ClearBounded ==
  ASSUME RequestsBounded, UNCHANGED <<cfg, env>>,
         override' \in {{}, override}, hints' \subseteq hints
  PROVE  RequestsBounded'
BY DEF RequestsBounded

LEMMA NextBounded ==
  ASSUME ConfigInv, MailInv, RequestsBounded, [Next]_vars
  PROVE  RequestsBounded'
<1>1. CASE HttpRequest
  <2>1. ASSUME NEW q \in OverrideRequests, HandleOverride(q)
        PROVE  RequestsBounded'
    BY <2>1, SetOverrideBounded DEF HandleOverride
  <2>2. CASE ClearOverride
    BY <2>2, ClearBounded DEF ClearOverride, startVars
  <2>3. ASSUME NEW q \in HintRequests, HandleHint(q)
        PROVE  RequestsBounded'
    BY <2>3, ApplyHintBounded DEF HandleHint
  <2>4. ASSUME NEW source \in Names, RemoveHint(source)
        PROVE  RequestsBounded'
    BY <2>4, ClearBounded DEF RemoveHint, WithoutHint, startVars
  <2>5. QED
    BY <1>1, <2>1, <2>2, <2>3, <2>4 DEF HttpRequest
<1>2. ASSUME NEW m \in Messages, NEW retain \in BOOLEAN, Send(m, retain)
      PROVE  RequestsBounded'
  BY <1>2, ClearBounded DEF Send, startVars
<1>3. CASE SubscribeCommands \/ Drop \/ UNCHANGED vars
  BY <1>3, ClearBounded DEF SubscribeCommands, Drop, vars, startVars
<1>4. CASE Deliver
  <2> DEFINE m == Head(inbox).body
  <2>1. m \in Messages
    BY <1>4, Mail DEF Deliver
  <2>2. CASE Accepts(m) /\ Apply(m)
    <3>1. CASE m.topic = "override" /\ SetOverride(m)
      BY <2>1, <2>2, <3>1, AcceptedMessages, SetOverrideBounded
    <3>2. CASE m.topic = "clear" /\ ClearOverride
      BY <3>2, ClearBounded DEF ClearOverride, startVars
    <3>3. CASE m.topic = "hint" /\ ApplyHint(m)
      BY <2>1, <2>2, <3>3, AcceptedMessages, ApplyHintBounded
    <3>4. QED
      BY <2>2, <3>1, <3>2, <3>3 DEF Apply
  <2>3. CASE UNCHANGED <<startVars, override, hints>>
    BY <2>3, ClearBounded DEF startVars
  <2>4. QED
    BY <1>4, <2>2, <2>3 DEF Deliver
<1>5. QED
  BY <1>1, <1>2, <1>3, <1>4 DEF Next

\* Overrides and hints are held to their bounds by both ways in, whatever
\* the requests and however long their durations.
THEOREM BoundsHold == Spec => []RequestsBounded
<1>1. Init => RequestsBounded
  BY DEF Init, RequestsBounded
<1>2. ConfigInv /\ MailInv /\ RequestsBounded /\ [Next]_vars
        => RequestsBounded'
  BY NextBounded
<1>3. QED
  BY <1>1, <1>2, ConfigInvariance, MailInvariance, PTL DEF Spec

-----------------------------------------------------------------------------
(***************************************************************************)
(* A command is carried out once at most: the commands that were carried   *)
(* out and the live messages still on their way are together no more than  *)
(* the commands that were sent.                                            *)
(***************************************************************************)
Live == {i \in DOMAIN inbox : ~inbox[i].old}

OnceInv ==
  /\ sent \in Nat /\ applied \in Nat
  /\ applied + Cardinality(Live) <= sent

LEMMA LiveIsFinite ==
  ASSUME MailInv
  PROVE  IsFiniteSet(Live) /\ Cardinality(Live) \in Nat
<1>1. Live \in SUBSET (1 .. Len(inbox)) /\ Len(inbox) \in Int
  BY DEF MailInv, Live
<1>2. IsFiniteSet(1 .. Len(inbox))
  BY <1>1, FS_Interval
<1>3. QED
  BY <1>1, <1>2, FS_Subset, FS_CardinalityType

LEMMA SendOnce ==
  ASSUME MailInv, OnceInv, NEW m \in Messages, NEW retain \in BOOLEAN,
         Send(m, retain)
  PROVE  OnceInv'
<1> DEFINE d == [body |-> m, old |-> FALSE]
           n == Len(inbox) + 1
<1>1. IsFiniteSet(Live) /\ Cardinality(Live) \in Nat
  BY LiveIsFinite
<1>2. applied' = applied /\ sent' = sent + 1
  BY DEF Send
<1>3. Live' \in {Live, Live \cup {n}}
  <2>1. CASE inbox' = Append(inbox, d)
    <3>1. d \in Delivery /\ ~d.old
      BY DEF Delivery
    <3>2. /\ DOMAIN inbox = 1 .. Len(inbox) /\ Len(inbox) \in Nat
          /\ DOMAIN inbox' = 1 .. n
          /\ \A i \in 1 .. Len(inbox) : inbox'[i] = inbox[i]
          /\ inbox'[n] = d
      BY <2>1, <3>1, AppendProperties DEF MailInv
    <3> HIDE DEF d
    <3>3. Live' = Live \cup {n}
      BY <3>1, <3>2 DEF Live
    <3>4. QED
      BY <3>3
  <2>2. CASE inbox' = inbox
    BY <2>2 DEF Live
  <2>3. QED
    BY <2>1, <2>2 DEF Send
<1>4. /\ Cardinality(Live \cup {n}) \in {Cardinality(Live), Cardinality(Live) + 1}
  BY <1>1, FS_AddElement
<1>5. Cardinality(Live') \in {Cardinality(Live), Cardinality(Live) + 1}
  BY <1>3, <1>4
<1>6. QED
  BY <1>1, <1>2, <1>5 DEF OnceInv

LEMMA ReplayAddsNoLiveMessage ==
  ASSUME MailInv, inbox' = inbox \o Replay
  PROVE  Live' = Live
<1>1. Replay \in Seq(Retransmission) /\ Replay \in Seq(Delivery)
  BY ReplayIsMarked, ReplayIsMail DEF MailInv
<1>2. \A j \in 1 .. Len(Replay) : Replay[j].old
  <2>1. \A j \in 1 .. Len(Replay) : Replay[j] \in Retransmission
    BY <1>1
  <2>2. \A r \in Retransmission : r.old = TRUE
    BY DEF Retransmission
  <2>3. QED
    BY <2>1, <2>2
<1>3. /\ DOMAIN inbox = 1 .. Len(inbox) /\ Len(inbox) \in Nat
      /\ Len(Replay) \in Nat
      /\ DOMAIN inbox' = 1 .. (Len(inbox) + Len(Replay))
      /\ \A i \in 1 .. (Len(inbox) + Len(Replay)) :
           inbox'[i] = IF i <= Len(inbox) THEN inbox[i]
                                          ELSE Replay[i - Len(inbox)]
  BY <1>1, ConcatProperties DEF MailInv
<1>4. ASSUME NEW i \in DOMAIN inbox'
      PROVE  /\ i \in DOMAIN inbox => inbox'[i] = inbox[i]
             /\ i \notin DOMAIN inbox => inbox'[i].old
  <2>1. CASE i <= Len(inbox)
    BY <1>3, <2>1
  <2>2. CASE ~(i <= Len(inbox))
    <3>1. i - Len(inbox) \in 1 .. Len(Replay)
      BY <1>3, <2>2
    <3>2. inbox'[i] = Replay[i - Len(inbox)] /\ i \notin DOMAIN inbox
      BY <1>3, <2>2
    <3>3. QED
      BY <1>2, <3>1, <3>2
  <2>3. QED
    BY <2>1, <2>2
<1>5. DOMAIN inbox \subseteq DOMAIN inbox'
  BY <1>3
<1>6. QED
  BY <1>4, <1>5 DEF Live

\* One message leaves, and it was live if the command is carried out.
LEMMA TailOfLive ==
  ASSUME MailInv, inbox # <<>>, inbox' = Tail(inbox)
  PROVE  /\ Cardinality(Live') \in Nat
         /\ Cardinality(Live') <= Cardinality(Live)
         /\ ~Head(inbox).old => Cardinality(Live') <= Cardinality(Live) - 1
<1> DEFINE shift == [i \in Live' |-> i + 1]
<1>1. /\ DOMAIN inbox = 1 .. Len(inbox) /\ Len(inbox) \in Nat
      /\ Len(inbox) > 0 /\ Head(inbox) = inbox[1]
      /\ DOMAIN inbox' = 1 .. (Len(inbox) - 1)
      /\ \A i \in 1 .. (Len(inbox) - 1) : inbox'[i] = inbox[i + 1]
  BY HeadTailProperties, EmptySeq DEF MailInv
<1>2. IsFiniteSet(Live) /\ Cardinality(Live) \in Nat
  BY LiveIsFinite
<1>3. /\ IsFiniteSet(Live \ {1})
      /\ Cardinality(Live \ {1}) = IF 1 \in Live THEN Cardinality(Live) - 1
                                                  ELSE Cardinality(Live)
  BY <1>2, FS_RemoveElement
<1>4. Live' \subseteq Int /\ \A i \in Live' : i + 1 \in Live \ {1}
  BY <1>1 DEF Live
<1>5. shift \in Injection(Live', Live \ {1})
  BY <1>4 DEF Injection, IsInjective
<1>6. /\ IsFiniteSet(Live')
      /\ Cardinality(Live') <= Cardinality(Live \ {1})
  BY <1>3, <1>5, FS_Injection
<1>7. Cardinality(Live') \in Nat
  BY <1>6, FS_CardinalityType
<1>8. ~Head(inbox).old => 1 \in Live
  BY <1>1 DEF Live
<1>9. QED
  BY <1>2, <1>3, <1>6, <1>7, <1>8

LEMMA NextOnce == MailInv /\ OnceInv /\ [Next]_vars => OnceInv'
<1> SUFFICES ASSUME MailInv, OnceInv, [Next]_vars PROVE OnceInv'
  OBVIOUS
<1>1. IsFiniteSet(Live) /\ Cardinality(Live) \in Nat
  BY LiveIsFinite
<1>2. CASE HttpRequest \/ UNCHANGED vars
  BY <1>2 DEF HttpRequest, brokerVars, vars, OnceInv, Live
<1>3. ASSUME NEW m \in Messages, NEW retain \in BOOLEAN, Send(m, retain)
      PROVE  OnceInv'
  BY <1>3, SendOnce
<1>4. CASE SubscribeCommands
  <2>1. UNCHANGED <<sent, applied>> /\ Live' = Live
    BY <1>4, ReplayAddsNoLiveMessage DEF SubscribeCommands
  <2>2. QED
    BY <2>1 DEF OnceInv
<1>5. CASE Drop
  <2>1. UNCHANGED <<sent, applied>>
    BY <1>5 DEF Drop
  <2>2. CASE inbox' = inbox
    BY <2>1, <2>2 DEF OnceInv, Live
  <2>3. CASE inbox' = <<>>
    <3>1. Live' = {}
      BY <2>3 DEF Live
    <3>2. Cardinality(Live') = 0
      BY <3>1, FS_EmptySet
    <3>3. QED
      BY <1>1, <2>1, <3>2 DEF OnceInv
  <2>4. QED
    BY <1>5, <2>2, <2>3 DEF Drop
<1>6. CASE Deliver
  <2>1. /\ inbox # <<>> /\ inbox' = Tail(inbox) /\ sent' = sent
        /\ \/ ~Head(inbox).old /\ applied' = applied + 1
           \/ applied' = applied
    BY <1>6 DEF Deliver
  <2>2. /\ Cardinality(Live') \in Nat
        /\ Cardinality(Live') <= Cardinality(Live)
        /\ ~Head(inbox).old => Cardinality(Live') <= Cardinality(Live) - 1
    BY <2>1, TailOfLive
  <2>3. QED
    BY <1>1, <2>1, <2>2 DEF OnceInv
<1>7. QED
  BY <1>2, <1>3, <1>4, <1>5, <1>6 DEF Next

\* However often the bridge reconnects and the broker replays what it
\* retained, no more commands are carried out than were sent.
THEOREM AppliedOnce == Spec => []NothingReplayed
<1>1. Init => OnceInv
  <2>1. Init => Live = {}
    BY DEF Init, Live
  <2>2. QED
    BY <2>1, FS_EmptySet DEF Init, OnceInv
<1>2. MailInv /\ OnceInv => NothingReplayed
  BY LiveIsFinite DEF OnceInv, NothingReplayed
<1>3. QED
  BY <1>1, <1>2, NextOnce, MailInvariance, PTL DEF Spec
=============================================================================
