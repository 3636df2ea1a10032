---------------------------- MODULE MCHysteresis ----------------------------
(***************************************************************************)
(* Small instances of Hysteresis for TLC.                                  *)
(***************************************************************************)
EXTENDS Hysteresis

Reading(c, g) == [cpu |-> c, gpu |-> g]

Cool     == Reading(50, 40)
HotCPU   == Reading(70, 40)
HotGPU   == Reading(50, 66)
Critical == Reading(90, 40)
GPULost  == Reading(50, NoTemp)

BelowCritical == {Cool, HotCPU, HotGPU, GPULost}
UpToCritical  == {Cool, HotCPU, Critical}
=============================================================================
