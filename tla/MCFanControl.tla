---------------------------- MODULE MCFanControl ----------------------------
(***************************************************************************)
(* Small instances of FanControl for TLC.  The temperatures stand on       *)
(* either side of the default thresholds (65 and 60) and of the default    *)
(* critical temperatures (85 and 90), for each sensor.                     *)
(***************************************************************************)
EXTENDS FanControl

Reading(c, g) == [cpu |-> c, gpu |-> g]

Cool     == Reading(50, 40)
HotCPU   == Reading(70, 40)      \* one step above the base
HotGPU   == Reading(50, 66)      \* two steps above the base
Critical == Reading(90, 40)
CPULost  == Reading(NoTemp, 40)
GPULost  == Reading(90, NoTemp)  \* the CPU that was read is critical

AllSamples   == {Cool, HotCPU, HotGPU, Critical, CPULost, GPULost}
FaultSamples == {Cool, Critical, CPULost}
LossSamples  == {Cool, HotCPU, HotGPU, CPULost}
CurveSamples == {Cool, HotCPU, HotGPU}
=============================================================================
