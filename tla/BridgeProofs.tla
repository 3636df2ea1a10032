---------------------------- MODULE BridgeProofs ----------------------------
(***************************************************************************)
(* Theorems about Bridge, for every set of devices and readings, any       *)
(* number of overlapping callbacks, connections and faults.                *)
(***************************************************************************)
EXTENDS Bridge, FiniteSetTheorems, WellFoundedInduction, TLAPS

-----------------------------------------------------------------------------
(***************************************************************************)
(* Type correctness, in parts that do not depend on each other.            *)
(***************************************************************************)
PlacesOK ==
  /\ link \in {"down", "up", "closed"}
  /\ loop \in {"wait", "state", "check", "announce", "mark", "returned"}
  /\ stop \in {"running", "waiting", "offline", "disconnect", "stopped"}
  /\ stopCh \in {"open", "closed", "nil"}
  /\ availability \in {"none", "online", "offline"}
  /\ stop = "stopped" => link = "closed"

CallbacksOK ==
  callback \in [Callbacks -> {"idle", "gpus", "cpus", "discovery",
                              "subscribe", "online"}]

CountsOK ==
  /\ connects \in 0 .. MaxConnects /\ faults \in 0 .. MaxFaults
  /\ sensor \in Nat \ {0}

FlagsOK ==
  /\ alive \in BOOLEAN /\ willDue \in BOOLEAN /\ registered \in BOOLEAN
  /\ subscribed \in BOOLEAN /\ clean \in BOOLEAN

\* The publish loop announces devices of its snapshot.
SetsOK ==
  /\ scan \in {{}} \cup Scans /\ snapshot \in {{}} \cup Scans
  /\ state \in {{}} \cup Scans
  /\ left \subseteq snapshot
  /\ loop \in {"wait", "state"} => left = {}
  /\ loop \in {"announce", "mark"} => left # {}
  /\ announced \subseteq Devices

USE DEF vars, callbackVars, loopVars, stopVars, linkVars, retainedVars

LEMMA NextPlaces == PlacesOK /\ [Next]_vars => PlacesOK'
<1> USE DEF Next, Connect, CallbackStep, Drop, BrokerRestarts, WillFires,
      Die, NewReadings, LoopStep, StopBegins, StopStep, ResetDiscovery,
      PublishDiscovery, SubscribeCommands, PublishOnline, CallbackGoes,
      LoopGoes, Tick, PublishState, SkipAnnounced, BeginAnnouncing,
      PublishConfig, Mark, EndTick, LoopStops, StopGoes, StopWaited,
      PublishOffline, Disconnect
<1> SUFFICES ASSUME PlacesOK, [Next]_vars PROVE PlacesOK'
  OBVIOUS
<1>1. link' \in {"down", "up", "closed"}
  BY DEF PlacesOK
<1>2. loop' \in {"wait", "state", "check", "announce", "mark", "returned"}
  BY DEF PlacesOK
<1>3. stop' \in {"running", "waiting", "offline", "disconnect", "stopped"}
  BY DEF PlacesOK
<1>4. stopCh' \in {"open", "closed", "nil"}
  BY DEF PlacesOK
<1>5. availability' \in {"none", "online", "offline"}
  BY DEF PlacesOK
<1>6. stop' = "stopped" => link' = "closed"
  BY DEF PlacesOK
<1>7. QED
  BY <1>1, <1>2, <1>3, <1>4, <1>5, <1>6 DEF PlacesOK

LEMMA NextCallbacks == CallbacksOK /\ [Next]_vars => CallbacksOK'
BY DEF CallbacksOK, Next, Connect, CallbackStep, Drop, BrokerRestarts,
       WillFires, Die, NewReadings, LoopStep, StopBegins, StopStep,
       ResetDiscovery, PublishDiscovery, SubscribeCommands, PublishOnline,
       CallbackGoes, LoopGoes, Tick, PublishState, SkipAnnounced,
       BeginAnnouncing, PublishConfig, Mark, EndTick, LoopStops, StopGoes,
       StopWaited, PublishOffline, Disconnect

LEMMA Faults ==
  ASSUME CountsOK, NEW request, NEW o \in Outcomes(request), CountFault(o)
  PROVE  faults' \in 0 .. MaxFaults
BY BridgeAssumption DEF CountsOK, Outcomes, CountFault

LEMMA NextCounts == CountsOK /\ [Next]_vars => CountsOK'
<1> SUFFICES ASSUME CountsOK, [Next]_vars PROVE CountsOK'
  OBVIOUS
<1> USE DEF Next, Connect, CallbackStep, Drop, BrokerRestarts, WillFires,
      Die, NewReadings, LoopStep, StopBegins, StopStep, ResetDiscovery,
      PublishDiscovery, SubscribeCommands, PublishOnline, CallbackGoes,
      LoopGoes, Tick, PublishState, SkipAnnounced, BeginAnnouncing,
      PublishConfig, Mark, EndTick, LoopStops, StopGoes, StopWaited,
      PublishOffline, Disconnect
<1>1. connects' \in 0 .. MaxConnects
  BY BridgeAssumption DEF CountsOK
<1>2. faults' \in 0 .. MaxFaults
  BY Faults DEF CountsOK
<1>3. sensor' \in Nat \ {0}
  BY DEF CountsOK
<1>4. QED
  BY <1>1, <1>2, <1>3 DEF CountsOK

LEMMA NextFlags == FlagsOK /\ [Next]_vars => FlagsOK'
<1> SUFFICES ASSUME FlagsOK, [Next]_vars PROVE FlagsOK'
  OBVIOUS
<1> USE DEF Next, Connect, CallbackStep, Drop, BrokerRestarts, WillFires,
      Die, NewReadings, LoopStep, StopBegins, StopStep, ResetDiscovery,
      PublishDiscovery, SubscribeCommands, PublishOnline, CallbackGoes,
      LoopGoes, Tick, PublishState, SkipAnnounced, BeginAnnouncing,
      PublishConfig, Mark, EndTick, LoopStops, StopGoes, StopWaited,
      PublishOffline, Disconnect, TakesEffect, StillClean
<1>1. alive' \in BOOLEAN
  BY DEF FlagsOK
<1>2. willDue' \in BOOLEAN
  BY DEF FlagsOK
<1>3. registered' \in BOOLEAN
  BY DEF FlagsOK
<1>4. subscribed' \in BOOLEAN
  BY DEF FlagsOK
<1>5. clean' \in BOOLEAN
  BY DEF FlagsOK
<1>6. QED
  BY <1>1, <1>2, <1>3, <1>4, <1>5 DEF FlagsOK

\* FirstOf finds a device: the one that no other comes before.
LEMMA FirstIsOne ==
  ASSUME NEW D \in SUBSET Devices, D # {}, IsFiniteSet(D)
  PROVE  FirstOf(D) \in D
<1> DEFINE Earlier(d) == {e \in D : Before(e, d)}
           Earliers == {Earlier(d) : d \in D}
<1>1. \A d \in D : d.kind \in {"cpu", "gpu"} /\ d.index \in Nat
  BY BridgeAssumption
<1>2. \A d, e \in D : d # e => Before(d, e) \/ Before(e, d)
  <2> SUFFICES ASSUME NEW d \in D, NEW e \in D, ~Before(d, e), ~Before(e, d)
               PROVE  d = e
    OBVIOUS
  <2>1. d.kind = e.kind /\ d.index = e.index
    BY <1>1 DEF Before
  <2>2. QED
    BY <2>1, BridgeAssumption
<1>3. \A d, e, f \in D : Before(d, e) /\ Before(e, f) => Before(d, f)
  BY <1>1 DEF Before
<1>4. \A d \in D : ~Before(d, d)
  BY <1>1 DEF Before
<1>5. PICK A \in Earliers :
        \A B \in Earliers : <<B, A>> \notin StrictSubsetOrdering(D)
  <2>1. \A d \in D : Earlier(d) \subseteq D
    OBVIOUS
  <2>2. \A d \in D : Earlier(d) \in FiniteSubsetsOf(D)
    BY <2>1, FS_Subset DEF FiniteSubsetsOf
  <2>3. Earliers # {} /\ Earliers \subseteq FiniteSubsetsOf(D)
    BY <2>2
  <2>4. QED
    BY <2>3, FS_StrictSubsetOrderingWellFounded, WFMin
<1>6. PICK d \in D : A = Earlier(d)
  OBVIOUS
<1>7. ASSUME NEW e \in D, Before(e, d) PROVE FALSE
  <2>1. Earlier(e) \subseteq Earlier(d)
    BY <1>3, <1>7
  <2>2. e \in Earlier(d) /\ e \notin Earlier(e)
    BY <1>4, <1>7
  <2>3. <<Earlier(e), Earlier(d)>> \in StrictSubsetOrdering(D)
    BY <2>1, <2>2 DEF StrictSubsetOrdering
  <2>4. QED
    BY <1>5, <1>6, <2>3
<1>8. \A e \in D \ {d} : Before(d, e)
  BY <1>2, <1>7
<1>9. QED
  BY <1>8 DEF FirstOf

LEMMA FirstOfLeft ==
  ASSUME SetsOK, left # {}
  PROVE  FirstOf(left) \in left /\ FirstOf(left) \in Devices
<1>1. IsFiniteSet(snapshot) /\ snapshot \subseteq Devices
  BY FS_EmptySet, BridgeAssumption DEF SetsOK
<1>2. IsFiniteSet(left) /\ left \in SUBSET Devices
  BY <1>1, FS_Subset DEF SetsOK
<1>3. QED
  BY <1>2, FirstIsOne

LEMMA NextSets == SetsOK /\ [Next]_vars => SetsOK'
<1> SUFFICES ASSUME SetsOK, [Next]_vars PROVE SetsOK'
  OBVIOUS
<1> USE DEF Next, Connect, CallbackStep, Drop, BrokerRestarts, WillFires,
      Die, NewReadings, LoopStep, StopBegins, StopStep, ResetDiscovery,
      PublishDiscovery, SubscribeCommands, PublishOnline, CallbackGoes,
      LoopGoes, Tick, PublishState, SkipAnnounced, BeginAnnouncing,
      PublishConfig, Mark, EndTick, LoopStops, StopGoes, StopWaited,
      PublishOffline, Disconnect
<1>1. scan' \in {{}} \cup Scans
  BY DEF SetsOK
<1>2. snapshot' \in {{}} \cup Scans
  BY DEF SetsOK
<1>3. state' \in {{}} \cup Scans
  BY DEF SetsOK, Nothing
<1>4. left' \subseteq snapshot'
  BY DEF SetsOK
<1>5. loop' \in {"announce", "mark"} => left' # {}
  BY DEF SetsOK
<1>6. loop' \in {"wait", "state"} => left' = {}
  BY DEF SetsOK
<1>7. announced' \subseteq Devices
  <2>1. left # {} => FirstOf(left) \in Devices
    BY FirstOfLeft, BridgeAssumption DEF SetsOK
  <2>2. QED
    BY <2>1 DEF SetsOK
<1>8. QED
  BY <1>1, <1>2, <1>3, <1>4, <1>5, <1>6, <1>7 DEF SetsOK

-----------------------------------------------------------------------------
(***************************************************************************)
(* The templates: each is absent, or reads the position its device has in  *)
(* one of the readings.                                                    *)
(***************************************************************************)
Templates(d) ==
  {Absent} \cup {Position(d, s) : s \in {t \in Scans : d \in t}}

ConfigsOK ==
  /\ DOMAIN configs = Devices
  /\ \A d \in Devices : configs[d] \in [1 .. Sensors(d) -> Templates(d)]

LEMMA NoConfigsOK ==
  ASSUME configs' = NoConfigs
  PROVE  ConfigsOK'
BY DEF NoConfigs, ConfigsOK, Templates

LEMMA PublishConfigOK ==
  ASSUME SetsOK, ConfigsOK, NEW o \in Outcomes("config"), PublishConfig(o)
  PROVE  ConfigsOK'
<1> DEFINE d == FirstOf(left)
           position == TemplateIndex(d, snapshot)
<1>1. left # {} /\ (configs' = configs \/
                       configs' = [configs EXCEPT ![d][sensor] = position])
  BY DEF PublishConfig, LoopGoes, SetsOK
<1>2. d \in Devices /\ d \in snapshot /\ snapshot \in Scans
  BY <1>1, FirstOfLeft DEF SetsOK
<1>3. position \in Templates(d)
  BY <1>2 DEF TemplateIndex, Templates
<1> HIDE DEF d, position
<1>4. CASE configs' = [configs EXCEPT ![d][sensor] = position]
  <2>1. DOMAIN configs' = Devices
    BY <1>4 DEF ConfigsOK
  <2>2. ASSUME NEW e \in Devices
        PROVE  configs'[e] \in [1 .. Sensors(e) -> Templates(e)]
    <3>1. CASE e = d
      <4>1. configs'[e] = [configs[d] EXCEPT ![sensor] = position]
        BY <1>2, <1>4, <3>1 DEF ConfigsOK
      <4>2. configs[d] \in [1 .. Sensors(d) -> Templates(d)]
        BY <1>2 DEF ConfigsOK
      <4>3. QED
        BY <1>3, <3>1, <4>1, <4>2
    <3>2. CASE e # d
      BY <1>4, <3>2 DEF ConfigsOK
    <3>3. QED
      BY <3>1, <3>2
  <2>3. QED
    BY <2>1, <2>2 DEF ConfigsOK
<1>5. QED
  BY <1>1, <1>4 DEF ConfigsOK

LEMMA NextConfigs == SetsOK /\ ConfigsOK /\ [Next]_vars => ConfigsOK'
<1> SUFFICES ASSUME SetsOK, ConfigsOK, [Next]_vars PROVE ConfigsOK'
  OBVIOUS
<1>1. \/ configs' = configs
      \/ configs' = NoConfigs
      \/ \E o \in Outcomes("config") : PublishConfig(o)
  BY DEF Next, Connect, CallbackStep, Drop, BrokerRestarts, WillFires, Die,
         NewReadings, LoopStep, StopBegins, StopStep, ResetDiscovery,
         PublishDiscovery, SubscribeCommands, PublishOnline, CallbackGoes,
         Tick, PublishState, SkipAnnounced, BeginAnnouncing, Mark, EndTick,
         LoopStops, StopGoes, StopWaited, PublishOffline, Disconnect
<1>2. QED
  BY <1>1, NoConfigsOK, PublishConfigOK DEF ConfigsOK

-----------------------------------------------------------------------------
BridgeInv ==
  PlacesOK /\ CallbacksOK /\ CountsOK /\ FlagsOK /\ SetsOK /\ ConfigsOK

LEMMA BridgeInvariance == Spec => []BridgeInv
<1>1. Init => BridgeInv
  <2> SUFFICES ASSUME Init PROVE BridgeInv
    OBVIOUS
  <2>1. PlacesOK
    BY DEF Init, PlacesOK
  <2>2. CallbacksOK /\ FlagsOK /\ SetsOK
    BY DEF Init, CallbacksOK, FlagsOK, SetsOK, Nothing
  <2>3. CountsOK
    BY BridgeAssumption DEF Init, CountsOK
  <2>4. ConfigsOK
    BY DEF Init, NoConfigs, ConfigsOK, Templates
  <2>5. QED
    BY <2>1, <2>2, <2>3, <2>4 DEF BridgeInv
<1>2. BridgeInv /\ [Next]_vars => BridgeInv'
  BY NextPlaces, NextCallbacks, NextCounts, NextFlags, NextSets, NextConfigs
     DEF BridgeInv
<1>3. QED
  BY <1>1, <1>2, PTL DEF Spec

\* Every variable keeps to its values, whatever overlaps, fails or restarts;
\* a bridge that has stopped never opens its connection again.
THEOREM BridgeTypeCorrect == Spec => []BridgeTypeOK
<1>1. BridgeInv => BridgeTypeOK
  <2> SUFFICES ASSUME BridgeInv PROVE BridgeTypeOK
    OBVIOUS
  <2>1. {alive, willDue, registered, subscribed, clean} \subseteq BOOLEAN
    BY DEF BridgeInv, FlagsOK
  <2>2. {scan, snapshot, left, announced, state} \subseteq SUBSET Devices
    BY BridgeAssumption DEF BridgeInv, SetsOK
  <2>3. QED
    BY <2>1, <2>2
       DEF BridgeInv, BridgeTypeOK, PlacesOK, CallbacksOK, CountsOK, ConfigsOK
<1>2. QED
  BY <1>1, BridgeInvariance, PTL

-----------------------------------------------------------------------------
(***************************************************************************)
(* The templates of one device.  While it is being announced it does not   *)
(* count as announced, and as long as no config failed, those that the     *)
(* broker retains are of the document that was published first: a later    *)
(* announcement has replaced what an earlier one left behind.              *)
(***************************************************************************)
Reads(d, n) ==
  \A k \in 1 .. n : configs[d][k] \in {Absent, TemplateIndex(d, snapshot)}

RenewedOK ==
  /\ loop \in {"announce", "mark"} => FirstOf(left) \notin announced
  /\ loop = "announce" =>
       /\ sensor \in 1 .. Sensors(FirstOf(left))
       /\ clean => Reads(FirstOf(left), sensor - 1)
  /\ loop = "mark" /\ clean => Reads(FirstOf(left), Sensors(FirstOf(left)))

LEMMA SensorsCounted == \A d \in Devices : Sensors(d) \in Nat \ {0}
BY BridgeAssumption DEF Sensors

\* A config that is published says where the document lists the device.
LEMMA PublishConfigRenews ==
  ASSUME SetsOK, ConfigsOK, RenewedOK,
         NEW o \in Outcomes("config"), PublishConfig(o)
  PROVE  /\ \A e \in Devices : \A k \in 1 .. Sensors(e) :
              e # FirstOf(left) \/ k # sensor => configs'[e][k] = configs[e][k]
         /\ o = "done" => configs'[FirstOf(left)][sensor]
                             = TemplateIndex(FirstOf(left), snapshot)
<1> DEFINE d == FirstOf(left)
           position == TemplateIndex(d, snapshot)
<1>1. loop = "announce" /\ left # {} /\ sensor \in 1 .. Sensors(d)
  BY DEF SetsOK, RenewedOK, PublishConfig, LoopGoes
<1>2. d \in Devices
  BY <1>1, FirstOfLeft
<1>3. configs' = IF TakesEffect(o)
                 THEN [configs EXCEPT ![d][sensor] = position] ELSE configs
  BY DEF PublishConfig
<1> HIDE DEF d, position
<1>4. ASSUME NEW e \in Devices, NEW k \in 1 .. Sensors(e), TakesEffect(o)
      PROVE  configs'[e][k] = IF e = d /\ k = sensor THEN position
                                                   ELSE configs[e][k]
  BY <1>2, <1>3, <1>4 DEF ConfigsOK
<1>5. \A e \in Devices : \A k \in 1 .. Sensors(e) :
        e # d \/ k # sensor => configs'[e][k] = configs[e][k]
  BY <1>3, <1>4
<1>6. o = "done" => configs'[d][sensor] = position
  BY <1>1, <1>2, <1>4 DEF TakesEffect
<1>7. QED
  BY <1>5, <1>6 DEF d, position

LEMMA NextRenewed ==
  ASSUME SetsOK, ConfigsOK, RenewedOK, [Next]_vars
  PROVE  RenewedOK'
<1>1. CASE UNCHANGED <<configs, loopVars>> /\ announced' \subseteq announced
  BY <1>1 DEF RenewedOK, Reads, TemplateIndex
<1>2. CASE BrokerRestarts
  <2>1. UNCHANGED <<loopVars, announced>>
    BY <1>2 DEF BrokerRestarts
  <2>2. ASSUME left # {} PROVE
          \A k \in 1 .. Sensors(FirstOf(left)) :
            configs'[FirstOf(left)][k] = Absent
    <3>1. FirstOf(left) \in Devices
      BY <2>2, FirstOfLeft
    <3>2. QED
      BY <1>2, <3>1 DEF BrokerRestarts, NoConfigs
  <2>3. ASSUME loop = "announce" PROVE
          /\ sensor \in 1 .. Sensors(FirstOf(left))
          /\ Sensors(FirstOf(left)) \in Nat
          /\ left # {}
    BY <2>3, FirstOfLeft, SensorsCounted DEF SetsOK, RenewedOK
  <2>4. loop = "announce" => Reads(FirstOf(left), sensor - 1)'
    BY <2>1, <2>2, <2>3 DEF Reads
  <2>5. loop = "mark" => Reads(FirstOf(left), Sensors(FirstOf(left)))'
    BY <2>1, <2>2 DEF Reads, SetsOK
  <2>6. QED
    BY <2>1, <2>3, <2>4, <2>5 DEF RenewedOK
<1>3. CASE loop' \notin {"announce", "mark"}
  BY <1>3 DEF RenewedOK
<1>4. CASE BeginAnnouncing
  <2>1. /\ left # {} /\ left' = left /\ sensor' = 1 /\ loop' = "announce"
        /\ announced' = announced /\ FirstOf(left) \notin announced
    BY <1>4 DEF BeginAnnouncing, LoopGoes
  <2>2. Sensors(FirstOf(left)) \in Nat \ {0}
    BY <2>1, FirstOfLeft, SensorsCounted
  <2>3. QED
    BY <2>1, <2>2 DEF RenewedOK, Reads
<1>5. ASSUME NEW o \in Outcomes("config"), PublishConfig(o) PROVE RenewedOK'
  <2> DEFINE d == FirstOf(left)
             place == TemplateIndex(d, snapshot)
  <2>1. /\ loop = "announce" /\ left # {} /\ d \notin announced
        /\ UNCHANGED <<left, snapshot, announced>>
        /\ loop' = IF sensor = Sensors(d) THEN "mark" ELSE "announce"
        /\ sensor' = IF sensor = Sensors(d) THEN 1 ELSE sensor + 1
        /\ clean' = (clean /\ o = "done")
    BY <1>5 DEF PublishConfig, StillClean, LoopGoes, SetsOK, RenewedOK
  <2>2. d \in Devices /\ Sensors(d) \in Nat \ {0}
    BY <2>1, FirstOfLeft, SensorsCounted
  <2>3. /\ sensor \in 1 .. Sensors(d)
        /\ clean => \A k \in 1 .. (sensor - 1) : configs[d][k] \in {Absent, place}
    BY <2>1 DEF RenewedOK, Reads
  <2>4. /\ \A k \in 1 .. Sensors(d) :
             k # sensor => configs'[d][k] = configs[d][k]
        /\ o = "done" => configs'[d][sensor] = place
    BY <1>5, <2>2, PublishConfigRenews
  <2>5. FirstOf(left') = d /\ TemplateIndex(d, snapshot') = place
    BY <2>1
  <2> HIDE DEF d, place
  <2>6. ASSUME clean' PROVE
          \A k \in 1 .. sensor : configs'[d][k] \in {Absent, place}
    <3>1. clean /\ o = "done"
      BY <2>1, <2>6, Zenon
    <3>2. /\ \A k \in 1 .. (sensor - 1) : configs'[d][k] \in {Absent, place}
          /\ configs'[d][sensor] = place
      BY <2>2, <2>3, <2>4, <3>1
    <3>3. QED
      BY <2>3, <3>2
  <2>7. QED
    BY <2>1, <2>2, <2>3, <2>5, <2>6 DEF RenewedOK, Reads
<1>6. CASE \/ Tick \/ SkipAnnounced \/ Mark \/ EndTick \/ LoopStops
           \/ \E o \in Outcomes("state") : PublishState(o)
  <2>1. loop' \notin {"announce", "mark"}
    BY <1>6 DEF LoopGoes, Tick, SkipAnnounced, Mark, EndTick, LoopStops,
         PublishState
  <2>2. QED
    BY <1>3, <2>1
<1>7. CASE \/ Drop \/ WillFires \/ Die \/ \E s \in Scans : NewReadings(s)
           \/ \E c \in Callbacks : Connect(c) \/ CallbackStep(c)
           \/ StopBegins \/ StopStep \/ UNCHANGED vars
  <2>1. UNCHANGED <<configs, loopVars>> /\ announced' \subseteq announced
    BY <1>7 DEF Drop, WillFires, Die, NewReadings, Connect, CallbackStep,
         CallbackGoes, ResetDiscovery, PublishDiscovery, SubscribeCommands,
         PublishOnline, StopBegins, StopStep, StopGoes, StopWaited,
         PublishOffline, Disconnect
  <2>2. QED
    BY <1>1, <2>1
<1>8. QED
  BY <1>2, <1>4, <1>5, <1>6, <1>7 DEF Next, LoopStep

LEMMA NextAgree ==
  ASSUME SetsOK, ConfigsOK, RenewedOK, SensorsAgree, [Next]_vars
  PROVE  SensorsAgree'
<1>1. CASE configs' = configs /\ announced' \subseteq announced
  BY <1>1 DEF SensorsAgree
<1>2. CASE BrokerRestarts
  <2>1. announced' \subseteq Devices /\ configs' = NoConfigs
    BY <1>2 DEF BrokerRestarts, SetsOK
  <2>2. QED
    BY <2>1 DEF NoConfigs, SensorsAgree
<1>3. CASE Mark
  <2>1. /\ loop = "mark" /\ configs' = configs
        /\ announced' = IF clean THEN announced \cup {FirstOf(left)}
                                 ELSE announced
    BY <1>3 DEF Mark, LoopGoes
  <2>2. clean => \A k \in 1 .. Sensors(FirstOf(left)) :
          configs[FirstOf(left)][k]
            \in {Absent, TemplateIndex(FirstOf(left), snapshot)}
    BY <2>1 DEF RenewedOK, Reads
  <2>3. QED
    BY <2>1, <2>2 DEF SensorsAgree
<1>4. ASSUME NEW o \in Outcomes("config"), PublishConfig(o)
      PROVE  SensorsAgree'
  <2>1. FirstOf(left) \notin announced /\ announced' = announced
    BY <1>4 DEF PublishConfig, LoopGoes, RenewedOK
  <2>2. \A e \in announced : \A k \in 1 .. Sensors(e) :
          configs'[e][k] = configs[e][k]
    BY <1>4, <2>1, PublishConfigRenews DEF SetsOK
  <2>3. QED
    BY <2>1, <2>2 DEF SensorsAgree
<1>5. CASE \/ Tick \/ SkipAnnounced \/ BeginAnnouncing \/ EndTick \/ LoopStops
           \/ \E o \in Outcomes("state") : PublishState(o)
           \/ Drop \/ WillFires \/ Die \/ \E s \in Scans : NewReadings(s)
           \/ \E c \in Callbacks : Connect(c) \/ CallbackStep(c)
           \/ StopBegins \/ StopStep \/ UNCHANGED vars
  <2>1. configs' = configs /\ announced' \subseteq announced
    BY <1>5 DEF Tick, SkipAnnounced, BeginAnnouncing, EndTick, LoopStops,
         PublishState, LoopGoes, Drop, WillFires, Die, NewReadings, Connect,
         CallbackStep, CallbackGoes, ResetDiscovery, PublishDiscovery,
         SubscribeCommands, PublishOnline, StopBegins, StopStep, StopGoes,
         StopWaited, PublishOffline, Disconnect
  <2>2. QED
    BY <1>1, <2>1
<1>6. QED
  BY <1>2, <1>3, <1>4, <1>5 DEF Next, LoopStep

\* The sensors of a device that counts as announced read one place of the
\* document, whatever the readings list, whichever requests fail, and
\* wherever the connection and the broker's memory are lost.
THEOREM TemplatesAgree == Spec => []SensorsAgree
<1>1. Init => RenewedOK /\ SensorsAgree
  BY DEF Init, RenewedOK, SensorsAgree
<1>2. BridgeInv /\ RenewedOK /\ SensorsAgree /\ [Next]_vars
        => RenewedOK' /\ SensorsAgree'
  BY NextRenewed, NextAgree DEF BridgeInv
<1>3. QED
  BY <1>1, <1>2, BridgeInvariance, PTL DEF Spec

-----------------------------------------------------------------------------
(***************************************************************************)
(* The devices that count as announced.  The premise is that the broker    *)
(* does not restart while a device is being announced.                     *)
(***************************************************************************)
ForgetsBetweenTicks == Forgets \subseteq {"wait"}

Retained(d) == \A k \in 1 .. Sensors(d) : configs[d][k] # Absent

\* A callback is about to forget the device, or the next connection's will.
ToBeForgotten(d) ==
  \/ link # "up"
  \/ \E c \in Callbacks : callback[c] = "gpus"
  \/ d.kind = "cpu" /\ \E c \in Callbacks : callback[c] = "cpus"

AnnouncedOK == \A d \in announced : Retained(d) \/ ToBeForgotten(d)

\* The device that the loop is announcing: so far, no config failed.
ProgressOK ==
  /\ loop = "announce" =>
       /\ sensor \in 1 .. Sensors(FirstOf(left))
       /\ clean => \A k \in 1 .. (sensor - 1) :
                     configs[FirstOf(left)][k] # Absent
  /\ loop = "mark" /\ clean => Retained(FirstOf(left))

LEMMA PositionIsNatural ==
  ASSUME NEW s \in Scans, NEW d
  PROVE  Position(d, s) \in Nat
<1> DEFINE Earlier == {e \in s : e.kind = d.kind /\ Before(e, d)}
<1>1. IsFiniteSet(Earlier)
  BY FS_Subset, BridgeAssumption
<1>2. QED
  BY <1>1, FS_CardinalityType DEF Position

\* A config that is published takes none away.
LEMMA PublishConfigAdds ==
  ASSUME SetsOK, ConfigsOK, ProgressOK, loop = "announce",
         NEW o \in Outcomes("config"), PublishConfig(o)
  PROVE  /\ \A e \in Devices : \A k \in 1 .. Sensors(e) :
               configs[e][k] # Absent => configs'[e][k] # Absent
         /\ o = "done" => configs'[FirstOf(left)][sensor] # Absent
<1> DEFINE d == FirstOf(left)
           position == TemplateIndex(d, snapshot)
<1>1. left # {} /\ sensor \in 1 .. Sensors(d)
  BY DEF SetsOK, ProgressOK
<1>2. d \in Devices /\ d \in snapshot /\ snapshot \in Scans
  BY <1>1, FirstOfLeft DEF SetsOK
<1>3. position # Absent
  BY <1>2, PositionIsNatural DEF TemplateIndex, Absent
<1>4. configs' = IF TakesEffect(o)
                 THEN [configs EXCEPT ![d][sensor] = position] ELSE configs
  BY DEF PublishConfig
<1> HIDE DEF d, position
<1>5. ASSUME NEW e \in Devices, NEW k \in 1 .. Sensors(e),
             TakesEffect(o)
      PROVE  configs'[e][k] = IF e = d /\ k = sensor THEN position
                                                   ELSE configs[e][k]
  BY <1>2, <1>4, <1>5 DEF ConfigsOK
<1>6. \A e \in Devices : \A k \in 1 .. Sensors(e) :
        configs[e][k] # Absent => configs'[e][k] # Absent
  BY <1>3, <1>4, <1>5
<1>7. o = "done" => configs'[d][sensor] # Absent
  BY <1>1, <1>2, <1>3, <1>5 DEF TakesEffect
<1>8. QED
  BY <1>6, <1>7 DEF d

LEMMA NextProgress ==
  ASSUME ForgetsBetweenTicks, SetsOK, ConfigsOK, ProgressOK, [Next]_vars
  PROVE  ProgressOK'
<1>1. CASE UNCHANGED <<configs, loopVars>>
  BY <1>1 DEF ProgressOK, Retained
<1>2. CASE BrokerRestarts
  BY <1>2 DEF BrokerRestarts, ForgetsBetweenTicks, ProgressOK
<1>3. CASE loop' \notin {"announce", "mark"}
  BY <1>3 DEF ProgressOK
<1>4. CASE BeginAnnouncing
  <2>1. left # {} /\ left' = left /\ sensor' = 1 /\ loop' = "announce"
    BY <1>4 DEF BeginAnnouncing, LoopGoes
  <2>2. Sensors(FirstOf(left)) \in Nat \ {0}
    BY <2>1, FirstOfLeft, SensorsCounted
  <2>3. QED
    BY <2>1, <2>2 DEF ProgressOK
<1>5. ASSUME NEW o \in Outcomes("config"), PublishConfig(o) PROVE ProgressOK'
  <2> DEFINE d == FirstOf(left)
  <2>1. /\ loop = "announce" /\ left' = left /\ left # {}
        /\ loop' = IF sensor = Sensors(d) THEN "mark" ELSE "announce"
        /\ sensor' = IF sensor = Sensors(d) THEN 1 ELSE sensor + 1
        /\ clean' = (clean /\ o = "done")
    BY <1>5 DEF PublishConfig, StillClean, LoopGoes, SetsOK
  <2>2. d \in Devices /\ Sensors(d) \in Nat \ {0}
    BY <2>1, FirstOfLeft, SensorsCounted
  <2>3. /\ sensor \in 1 .. Sensors(d)
        /\ clean => \A k \in 1 .. (sensor - 1) : configs[d][k] # Absent
    BY <2>1 DEF ProgressOK
  <2>4. /\ \A k \in 1 .. Sensors(d) :
             configs[d][k] # Absent => configs'[d][k] # Absent
        /\ o = "done" => configs'[d][sensor] # Absent
    BY <1>5, <2>1, <2>2, PublishConfigAdds
  <2>5. FirstOf(left') = d
    BY <2>1
  <2> HIDE DEF d
  <2>6. ASSUME clean' PROVE \A k \in 1 .. sensor : configs'[d][k] # Absent
    <3>1. clean /\ o = "done"
      BY <2>1, <2>6, Zenon
    <3>2. /\ \A k \in 1 .. (sensor - 1) : configs'[d][k] # Absent
          /\ configs'[d][sensor] # Absent
      BY <2>2, <2>3, <2>4, <3>1
    <3>3. QED
      BY <2>3, <3>2
  <2>7. QED
    BY <2>1, <2>2, <2>3, <2>5, <2>6 DEF ProgressOK, Retained
<1>6. CASE \/ Tick \/ SkipAnnounced \/ Mark \/ EndTick \/ LoopStops
           \/ \E o \in Outcomes("state") : PublishState(o)
  <2>1. loop' \notin {"announce", "mark"}
    BY <1>6 DEF LoopGoes, Tick, SkipAnnounced, Mark, EndTick, LoopStops,
         PublishState
  <2>2. QED
    BY <1>3, <2>1
<1>7. CASE \/ Drop \/ WillFires \/ Die \/ \E s \in Scans : NewReadings(s)
           \/ \E c \in Callbacks : Connect(c) \/ CallbackStep(c)
           \/ StopBegins \/ StopStep \/ UNCHANGED vars
  <2>1. UNCHANGED <<configs, loopVars>>
    BY <1>7 DEF Drop, WillFires, Die, NewReadings, Connect, CallbackStep,
         CallbackGoes, ResetDiscovery, PublishDiscovery, SubscribeCommands,
         PublishOnline, StopBegins, StopStep, StopGoes, StopWaited,
         PublishOffline, Disconnect
  <2>2. QED
    BY <1>1, <2>1
<1>8. QED
  BY <1>2, <1>4, <1>5, <1>6, <1>7 DEF Next, LoopStep

LEMMA NextAnnounced ==
  ASSUME SetsOK, CallbacksOK, ConfigsOK, ProgressOK,
         AnnouncedOK, [Next]_vars
  PROVE  AnnouncedOK'
<1>1. ASSUME NEW c \in Callbacks, Connect(c) PROVE AnnouncedOK'
  <2>1. callback'[c] = "gpus"
    BY <1>1 DEF Connect, CallbacksOK
  <2>2. QED
    BY <2>1 DEF AnnouncedOK, ToBeForgotten
<1>2. ASSUME NEW c \in Callbacks, CallbackStep(c) PROVE AnnouncedOK'
  <2>1. /\ UNCHANGED <<configs, link>>
        /\ \A e \in Callbacks \ {c} : callback'[e] = callback[e]
    BY <1>2 DEF CallbacksOK, CallbackStep, CallbackGoes, ResetDiscovery,
         PublishDiscovery, SubscribeCommands, PublishOnline
  <2>2. \A d \in announced : d.kind \in {"cpu", "gpu"}
    BY BridgeAssumption DEF SetsOK
  <2>3. CASE ResetDiscovery(c, "gpus", "cpus", "gpu")
    <3>1. /\ callback'[c] = "cpus"
          /\ announced' = {d \in announced : d.kind # "gpu"}
      BY <2>3 DEF ResetDiscovery, CallbackGoes, CallbacksOK
    <3>2. \A d \in announced' : ToBeForgotten(d)'
      BY <2>2, <3>1 DEF ToBeForgotten
    <3>3. QED
      BY <3>2 DEF AnnouncedOK
  <2>4. CASE ResetDiscovery(c, "cpus", "discovery", "cpu")
    <3>1. /\ callback[c] = "cpus"
          /\ announced' = {d \in announced : d.kind # "cpu"}
      BY <2>4 DEF ResetDiscovery, CallbackGoes
    <3>2. ASSUME NEW d \in announced' PROVE Retained(d)' \/ ToBeForgotten(d)'
      BY <2>1, <3>1 DEF AnnouncedOK, Retained, ToBeForgotten
    <3>3. QED
      BY <3>2 DEF AnnouncedOK
  <2>5. CASE callback[c] \notin {"gpus", "cpus"} /\ announced' = announced
    <3>1. ASSUME NEW d \in announced PROVE Retained(d)' \/ ToBeForgotten(d)'
      BY <2>1, <2>5 DEF AnnouncedOK, Retained, ToBeForgotten
    <3>2. QED
      BY <2>5, <3>1 DEF AnnouncedOK
  <2>6. QED
    BY <1>2, <2>3, <2>4, <2>5 DEF CallbackStep, CallbackGoes,
       PublishDiscovery, SubscribeCommands, PublishOnline
<1>3. CASE Drop \/ BrokerRestarts \/ Die
  BY <1>3 DEF Drop, BrokerRestarts, Die, AnnouncedOK, ToBeForgotten
<1>4. CASE WillFires \/ \E s \in Scans : NewReadings(s)
  BY <1>4 DEF WillFires, NewReadings, AnnouncedOK, Retained, ToBeForgotten
<1>5. CASE StopBegins \/ StopStep
  BY <1>5 DEF StopBegins, StopStep, StopGoes, StopWaited, PublishOffline,
       Disconnect, AnnouncedOK, Retained, ToBeForgotten
<1>6. CASE Mark
  BY <1>6 DEF Mark, LoopGoes, ProgressOK, AnnouncedOK, Retained, ToBeForgotten
<1>7. ASSUME NEW o \in Outcomes("config"), PublishConfig(o)
      PROVE  AnnouncedOK'
  <2>1. /\ loop = "announce" /\ UNCHANGED <<announced, callback, link>>
    BY <1>7 DEF PublishConfig, LoopGoes
  <2>2. \A d \in announced : Retained(d) => Retained(d)'
    BY <1>7, <2>1, PublishConfigAdds DEF Retained, SetsOK
  <2>3. QED
    BY <2>1, <2>2 DEF AnnouncedOK, ToBeForgotten
<1>8. CASE \/ Tick \/ SkipAnnounced \/ BeginAnnouncing \/ EndTick \/ LoopStops
           \/ \E o \in Outcomes("state") : PublishState(o)
  BY <1>8 DEF LoopGoes, Tick, PublishState, SkipAnnounced, BeginAnnouncing,
       EndTick, LoopStops, AnnouncedOK, Retained, ToBeForgotten
<1>9. CASE UNCHANGED vars
  BY <1>9 DEF AnnouncedOK, Retained, ToBeForgotten
<1>10. QED
  BY <1>1, <1>2, <1>3, <1>4, <1>5, <1>6, <1>7, <1>8, <1>9 DEF Next, LoopStep

\* A device counts as announced only while the broker retains all its
\* configs, or the next callback is to forget it: whatever fails, connects
\* and restarts between two passes of the publish loop, and whichever
\* callbacks overlap.
THEOREM AnnouncedAreRetained ==
  ASSUME ForgetsBetweenTicks
  PROVE  Spec => []AnnouncedIsRetained
<1>1. Init => ProgressOK /\ AnnouncedOK
  BY DEF Init, ProgressOK, AnnouncedOK
<1>2. BridgeInv /\ ProgressOK /\ AnnouncedOK /\ [Next]_vars
        => ProgressOK' /\ AnnouncedOK'
  BY NextProgress, NextAnnounced DEF BridgeInv
<1>3. AnnouncedOK => AnnouncedIsRetained
  BY DEF AnnouncedOK, ToBeForgotten, Retained, AnnouncedIsRetained
<1>4. QED
  BY <1>1, <1>2, <1>3, BridgeInvariance, PTL DEF Spec

-----------------------------------------------------------------------------
(***************************************************************************)
(* What a connection that is up is good for.                               *)
(***************************************************************************)
\* While a connection is up, what it still lacks is before one of the
\* callbacks: it is the run of onConnect that the connection began, or one
\* that an earlier connection left behind.
ReadyInv ==
  Running /\ link = "up" =>
    /\ ~willDue
    /\ availability = "online" \/ \E c \in Callbacks : callback[c] # "idle"
    /\ registered \/ \E c \in Callbacks :
                       callback[c] \in {"gpus", "cpus", "discovery"}
    /\ subscribed \/ \E c \in Callbacks :
                      callback[c] \in {"gpus", "cpus", "discovery", "subscribe"}

AnnouncesReliably == {"discovery", "subscribe", "online"} \cap Failing = {}

LEMMA NextReady ==
  ASSUME AnnouncesReliably, PlacesOK, CallbacksOK, ReadyInv, [Next]_vars
  PROVE  ReadyInv'
<1>1. \A request \in {"discovery", "subscribe", "online"} :
        \A o \in Outcomes(request) : link = "up" => TakesEffect(o)
  BY DEF AnnouncesReliably, Outcomes, TakesEffect
<1> SUFFICES ASSUME Running', link' = "up" PROVE ReadyInv'
  BY DEF ReadyInv
<1>2. ASSUME NEW c \in Callbacks, Connect(c) PROVE ReadyInv'
  <2>1. ~willDue' /\ callback'[c] = "gpus"
    BY <1>2 DEF Connect, CallbacksOK
  <2>2. QED
    BY <2>1 DEF ReadyInv
<1>3. ASSUME NEW c \in Callbacks, CallbackStep(c) PROVE ReadyInv'
  <2> USE DEF CallbackGoes, stopVars, linkVars, retainedVars
  <2>1. link = "up" /\ Running
    BY <1>3 DEF CallbackStep, ResetDiscovery, PublishDiscovery,
         SubscribeCommands, PublishOnline, Running
  <2>2. CASE ResetDiscovery(c, "gpus", "cpus", "gpu")
    <3>1. callback'[c] = "cpus"
      BY <2>2 DEF ResetDiscovery, CallbacksOK
    <3>2. QED
      BY <2>1, <2>2, <3>1 DEF ResetDiscovery, ReadyInv
  <2>3. CASE ResetDiscovery(c, "cpus", "discovery", "cpu")
    <3>1. callback'[c] = "discovery"
      BY <2>3 DEF ResetDiscovery, CallbacksOK
    <3>2. QED
      BY <2>1, <2>3, <3>1 DEF ResetDiscovery, ReadyInv
  <2>4. ASSUME NEW o \in Outcomes("discovery"), PublishDiscovery(c, o)
        PROVE  ReadyInv'
    <3>1. callback'[c] = "subscribe" /\ registered'
      BY <1>1, <2>1, <2>4 DEF PublishDiscovery, CallbacksOK
    <3>2. QED
      BY <2>1, <2>4, <3>1 DEF PublishDiscovery, ReadyInv
  <2>5. ASSUME NEW o \in Outcomes("subscribe"), SubscribeCommands(c, o)
        PROVE  ReadyInv'
    <3>1. callback'[c] = "online" /\ subscribed'
      BY <1>1, <2>1, <2>5 DEF SubscribeCommands, CallbacksOK
    <3>2. \A e \in Callbacks \ {c} : callback'[e] = callback[e]
      BY <2>5 DEF SubscribeCommands, CallbacksOK
    <3>3. callback[c] = "subscribe"
      BY <2>5 DEF SubscribeCommands
    <3>4. QED
      BY <2>1, <2>5, <3>1, <3>2, <3>3 DEF SubscribeCommands, ReadyInv
  <2>6. ASSUME NEW o \in Outcomes("online"), PublishOnline(c, o)
        PROVE  ReadyInv'
    <3>1. availability' = "online"
      BY <1>1, <2>1, <2>6 DEF PublishOnline
    <3>2. \A e \in Callbacks \ {c} : callback'[e] = callback[e]
      BY <2>6 DEF PublishOnline, CallbacksOK
    <3>3. callback[c] = "online"
      BY <2>6 DEF PublishOnline
    <3>4. QED
      BY <2>1, <2>6, <3>1, <3>2, <3>3 DEF PublishOnline, ReadyInv
  <2>7. QED
    BY <1>3, <2>2, <2>3, <2>4, <2>5, <2>6 DEF CallbackStep
<1>4. CASE Drop \/ BrokerRestarts \/ Die
  BY <1>4 DEF Drop, BrokerRestarts, Die
<1>5. CASE WillFires
  BY <1>5 DEF WillFires, ReadyInv, Running
<1>6. CASE \E s \in Scans : NewReadings(s)
  BY <1>6 DEF NewReadings, ReadyInv, Running
<1>7. CASE LoopStep
  BY <1>7 DEF ReadyInv, Running, LoopStep, LoopGoes, Tick, PublishState,
       SkipAnnounced, BeginAnnouncing, PublishConfig, Mark, EndTick, LoopStops
<1>8. CASE StopBegins \/ StopStep
  BY <1>8 DEF Running, PlacesOK, StopBegins, StopStep, StopGoes, StopWaited,
       PublishOffline, Disconnect
<1>9. CASE UNCHANGED vars
  BY <1>9 DEF ReadyInv, Running
<1>10. QED
  BY <1>2, <1>3, <1>4, <1>5, <1>6, <1>7, <1>8, <1>9 DEF Next

\* However connections come and go and their callbacks overlap, once these
\* have returned a connection that is up has the device online, its entities
\* registered and its command topics subscribed, as long as none of the
\* three requests of onConnect fails on a live connection.
THEOREM ConnectedIsReady ==
  ASSUME AnnouncesReliably
  PROVE  Spec => []ConnectedMeansReady
<1>1. Init => ReadyInv
  BY DEF Init, ReadyInv
<1>2. BridgeInv /\ ReadyInv /\ [Next]_vars => ReadyInv'
  BY NextReady DEF BridgeInv
<1>3. ReadyInv => ConnectedMeansReady
  BY DEF ReadyInv, ConnectedMeansReady
<1>4. QED
  BY <1>1, <1>2, <1>3, BridgeInvariance, PTL DEF Spec

-----------------------------------------------------------------------------
(***************************************************************************)
(* What is left of a bridge that is gone.  The premise is the one of       *)
(* GoneMeansUnavailable: no onConnect runs while Stop does.                *)
(***************************************************************************)
Quiet == stop # "running" => \A c \in Callbacks : callback[c] = "idle"
Gone  == ~alive \/ stop = "stopped"

\* Without a connection, nothing but a will that is still due stands between
\* the device and its unavailability; and Stop disconnects, which drops the
\* will, only when offline has been published.
GoneInv ==
  /\ link # "up" /\ ~willDue => availability # "online"
  /\ stop \in {"disconnect", "stopped"} /\ link = "up"
       => availability # "online"
  /\ ~alive => link = "closed"

LEMMA NextGone ==
  ASSUME "offline" \notin Failing, PlacesOK, CallbacksOK, GoneInv,
         Quiet, Quiet', [Next]_vars
  PROVE  GoneInv'
<1>1. \A o \in Outcomes("offline") : link = "up" => TakesEffect(o)
  BY DEF Outcomes, TakesEffect
<1>2. \A o \in Outcomes("online") : link # "up" => ~TakesEffect(o)
  BY DEF Outcomes, TakesEffect
<1>3. ASSUME NEW c \in Callbacks, Connect(c) PROVE GoneInv'
  <2>1. callback'[c] = "gpus" /\ stop' = stop /\ link' = "up" /\ alive'
    BY <1>3 DEF Connect, CallbacksOK
  <2>2. stop = "running"
    BY <2>1 DEF Quiet
  <2>3. QED
    BY <2>1, <2>2 DEF GoneInv
<1>4. ASSUME NEW c \in Callbacks, CallbackStep(c) PROVE GoneInv'
  <2>1. /\ stop = "running" /\ alive /\ alive' = alive
        /\ link' = link /\ stop' = stop /\ willDue' = willDue
    BY <1>4 DEF Quiet, CallbackStep, ResetDiscovery, PublishDiscovery,
         SubscribeCommands, PublishOnline, CallbackGoes
  <2>2. link # "up" => availability' = availability
    BY <1>2, <1>4 DEF CallbackStep, ResetDiscovery, PublishDiscovery,
         SubscribeCommands, PublishOnline, CallbackGoes
  <2>3. QED
    BY <2>1, <2>2 DEF GoneInv
<1>5. CASE Drop \/ BrokerRestarts \/ Die \/ WillFires
  BY <1>5 DEF Drop, BrokerRestarts, Die, WillFires, GoneInv
<1>6. CASE \E s \in Scans : NewReadings(s)
  BY <1>6 DEF NewReadings, GoneInv
<1>7. CASE LoopStep
  BY <1>7 DEF GoneInv, LoopStep, LoopGoes, Tick, PublishState,
       SkipAnnounced, BeginAnnouncing, PublishConfig, Mark, EndTick, LoopStops
<1>8. CASE StopBegins \/ StopStep
  BY <1>1, <1>8 DEF GoneInv, StopBegins, StopStep, StopGoes, StopWaited,
       PublishOffline, Disconnect
<1>9. CASE UNCHANGED vars
  BY <1>9 DEF GoneInv
<1>10. QED
  BY <1>3, <1>4, <1>5, <1>6, <1>7, <1>8, <1>9 DEF Next

\* The safety part of GoneMeansUnavailable: a process that is gone, or has
\* stopped the bridge, leaves the device unavailable, or a will that is due
\* and makes it so, as long as publishing offline does not fail on a live
\* connection.
THEOREM GoneIsUnavailable ==
  ASSUME "offline" \notin Failing
  PROVE  Spec /\ []Quiet => [](Gone => availability # "online" \/ willDue)
<1>1. Init => GoneInv
  BY DEF Init, GoneInv
<1>2. BridgeInv /\ GoneInv /\ Quiet /\ Quiet' /\ [Next]_vars => GoneInv'
  BY NextGone DEF BridgeInv
<1>3. BridgeInv /\ GoneInv => (Gone => availability # "online" \/ willDue)
  BY DEF BridgeInv, PlacesOK, GoneInv, Gone
<1>4. QED
  BY <1>1, <1>2, <1>3, BridgeInvariance, PTL DEF Spec

\* Nothing makes a device available again that is gone: the other part of
\* GoneMeansUnavailable.
THEOREM UnavailableForGood ==
  Spec /\ []Quiet
    => [][Gone /\ availability # "online"
            => Gone' /\ availability' # "online"]_vars
<1>1. ASSUME PlacesOK, Quiet, [Next]_vars, Gone, availability # "online"
      PROVE  Gone' /\ availability' # "online"
  <2> USE DEF Gone
  <2>1. ASSUME NEW c \in Callbacks, Connect(c) \/ CallbackStep(c) PROVE FALSE
    BY <1>1, <2>1 DEF PlacesOK, Quiet, Connect, CallbackStep, CallbackGoes,
         ResetDiscovery, PublishDiscovery, SubscribeCommands, PublishOnline
  <2>2. CASE Drop \/ BrokerRestarts \/ Die \/ WillFires
    BY <1>1, <2>2 DEF Drop, BrokerRestarts, Die, WillFires
  <2>3. CASE \E s \in Scans : NewReadings(s)
    BY <1>1, <2>3 DEF NewReadings
  <2>4. CASE LoopStep
    BY <1>1, <2>4 DEF LoopStep, LoopGoes, Tick, PublishState, SkipAnnounced,
         BeginAnnouncing, PublishConfig, Mark, EndTick, LoopStops
  <2>5. CASE StopBegins \/ StopStep
    BY <1>1, <2>5 DEF StopBegins, StopStep, StopGoes, StopWaited,
         PublishOffline, Disconnect
  <2>6. CASE UNCHANGED vars
    BY <1>1, <2>6
  <2>7. QED
    BY <1>1, <2>1, <2>2, <2>3, <2>4, <2>5, <2>6 DEF Next
<1>2. BridgeInv => PlacesOK
  BY DEF BridgeInv
<1>3. QED
  BY <1>1, <1>2, BridgeInvariance, PTL DEF Spec

=============================================================================
