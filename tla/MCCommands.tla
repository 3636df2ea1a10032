----------------------------- MODULE MCCommands -----------------------------
(***************************************************************************)
(* A small instance of Commands for TLC.  A second is four clock units of  *)
(* an integer that ends at 128: 32 seconds wrap around to a negative       *)
(* duration, and 64 seconds to none.                                       *)
(***************************************************************************)
EXTENDS Commands

SmallSpeeds  == {0, 50, 101}
EdgeSeconds  == {-1, 0, 1, 5, 32, 64}

AllClients == {[loopback |-> TRUE, token |-> ""],
               [loopback |-> FALSE, token |-> "secret"]}

-----------------------------------------------------------------------------
(***************************************************************************)
(* The broker is at ha:1883.                                               *)
(***************************************************************************)
IPv6 == <<"fe80", ":", ":", "1">>

SomeAddresses ==
  {a \in [scheme : Schemes \cup {""}, host : {<<"ha">>, IPv6}, ipv6 : BOOLEAN,
          bare : BOOLEAN, port : {"", "1883", "8123"}, slash : BOOLEAN] :
     /\ a.ipv6 <=> a.host = IPv6
     /\ a.bare => a.ipv6 /\ a.port = ""}

TheBroker == {<<"tcp", "://", "ha", ":", "1883">>}

\* Addresses with one of the given ports, and some that denote no broker.
BrokerNames(ports) ==
  {Written(a) : a \in {x \in SomeAddresses :
                         x.port \in ports /\ (x.slash <=> x.scheme = "http")}}
    \cup {<<>>, <<"pigeon", "://", "ha">>, <<"tcp", "://", ":", "1883">>,
          <<"tcp", "://", "[", "ha">>}

Empty == [f \in {} |-> 0]
NoFile == [state |-> "absent", given |-> Empty]
Broken == [state |-> "broken", given |-> Empty]
File(given) == [state |-> "parsed", given |-> given]

\* Files on either side of what Validate accepts.
SomeFiles ==
  {NoFile, Broken, File([minSpeed |-> 0, maxSpeed |-> 0]),
   File([minSpeed |-> 30, maxSpeed |-> 20]), File([maxSpeed |-> 150]),
   File([criticalCPUTemp |-> 0]),
   File([criticalGPUTemp |-> 61, token |-> "secret"]),
   File([cpuThreshold |-> 0, criticalCPUTemp |-> 66])}

SomeEnvironments ==
  {Empty, [minSpeed |-> 150, maxSpeed |-> 40],
   [token |-> "secret", cpuThreshold |-> 99]}

\* MQTT from the file or from the environment.
SomeLaunches ==
  [file : SomeFiles, env : SomeEnvironments]
    \cup {[file |-> File([mqttEnabled |-> TRUE, broker |-> b]), env |-> Empty] :
            b \in BrokerNames({""})}
    \cup {[file |-> NoFile, env |-> [mqttEnabled |-> TRUE, broker |-> b]] :
            b \in BrokerNames({"", "1883", "8123"})}
=============================================================================
