--------------------------- MODULE Configuration ---------------------------
(***************************************************************************)
(* The configuration a process runs with: the file, laid over the          *)
(* defaults and validated, and then the environment variables, which       *)
(* nothing validates.  A configuration is a record; a file and an          *)
(* environment are functions from the fields they set to their values.     *)
(*                                                                         *)
(*   zonesOrdered   the zones of the dashboard never decrease              *)
(*   named          the client id and the topic roots are not empty        *)
(***************************************************************************)
EXTENDS Broker

CONSTANTS CooldownDefault, MaxOverrideDuration      \* as in TargetSpeed

\* The policy under configuration c.
Policy(c) == INSTANCE TargetSpeed WITH
  MinSpeed <- c.minSpeed, MaxSpeed <- c.maxSpeed, IdleSpeed <- c.idleSpeed,
  StepSize <- c.stepSize, CooldownDelay <- c.cooldownDelay,
  CPUThreshold <- c.cpuThreshold, GPUThreshold <- c.gpuThreshold,
  CriticalCPUTemp <- c.criticalCPUTemp, CriticalGPUTemp <- c.criticalGPUTemp

Default ==
  [minSpeed |-> 5, maxSpeed |-> 100, idleSpeed |-> 20, stepSize |-> 10,
   cooldownDelay |-> 60, cpuThreshold |-> 65, gpuThreshold |-> 60,
   criticalCPUTemp |-> 85, criticalGPUTemp |-> 90,
   zonesOrdered |-> TRUE, retentionDays |-> 30, interval |-> 10, token |-> "",
   mqttEnabled |-> FALSE, broker |-> <<>>, named |-> TRUE]

IntFields ==
  {"minSpeed", "maxSpeed", "idleSpeed", "stepSize", "cooldownDelay",
   "cpuThreshold", "gpuThreshold", "criticalCPUTemp", "criticalGPUTemp",
   "retentionDays", "interval"}

\* Decoding keeps the types of the fields.
Typed(given) == \A f \in DOMAIN given \cap IntFields : given[f] \in Int

\* What is given, and the rest as in c.
Laid(given, c) ==
  [f \in DOMAIN c |-> IF f \in DOMAIN given THEN given[f] ELSE c[f]]

\* The fields that an environment variable sets; a number that does not
\* parse leaves its field alone, and an empty variable counts as unset.
EnvFields ==
  {"minSpeed", "maxSpeed", "idleSpeed", "cpuThreshold", "gpuThreshold",
   "stepSize", "cooldownDelay", "interval", "token", "mqttEnabled", "broker"}

Validate(c) ==
  /\ Policy(c)!ValidConfig
  /\ c.zonesOrdered
  /\ c.retentionDays > 0
  /\ c.mqttEnabled => ValidBroker(c.broker) /\ c.named

\* Seeded bug: the parsed file is trusted.
LoadUnchecked(file) ==
  IF file.state = "parsed" THEN {Laid(file.given, Default)} ELSE {}

\* Load and resolveConfig: the configuration of a file, or none, when the
\* process refuses to start.  Only an absent file selects the defaults.
Load(file) ==
  IF file.state = "parsed" /\ Validate(Laid(file.given, Default))
  THEN {Laid(file.given, Default)}
  ELSE {}

ResolveConfig(file) ==
  IF file.state = "absent" THEN {Default} ELSE Load(file)

ApplyEnvOverrides(c, env) == Laid(env, c)
=============================================================================
