---------------------------- MODULE MCLifecycle ----------------------------
(***************************************************************************)
(* Small instances of Lifecycle for TLC.                                   *)
(***************************************************************************)
EXTENDS Lifecycle

Reading(c, g) == [cpu |-> c, gpu |-> g]

Cool     == Reading(50, 40)
HotCPU   == Reading(70, 40)
Critical == Reading(90, 40)
CPULost  == Reading(NoTemp, 40)

HealthySamples == {Cool, Critical}
FaultSamples   == {Cool, CPULost}
=============================================================================
