------------------------------ MODULE MCSensing ------------------------------
(***************************************************************************)
(* A small instance of Sensing for TLC.  The temperatures stand on either  *)
(* side of the default thresholds (65 and 60), of the default critical     *)
(* temperatures (85 and 90) and of the limit of what a parser accepts.     *)
(***************************************************************************)
EXTENDS Sensing

Line(label, t) == [label |-> label, degrees |-> t]
Row(n, t)      == [fields |-> n, readable |-> TRUE, temp |-> t]
RowNA          == [fields |-> 7, readable |-> FALSE, temp |-> 0]

Ipmitool(lines) == [ran |-> TRUE, lines |-> lines]
NvidiaSmi(rows) == [ran |-> TRUE, csv |-> TRUE, rows |-> rows]

IpmitoolFails == [ran |-> FALSE, lines |-> {}]
NvidiaFails   == [ran |-> FALSE, csv |-> FALSE, rows |-> {}]
NotCSV        == [ran |-> TRUE, csv |-> FALSE, rows |-> {}]

Inlet == Line("chassis", 90)

CPUs(t)    == Ipmitool({Inlet, Line("cpu", 50), Line("cpu", t)})
OtherOnly  == Ipmitool({Inlet, Line("cpu", 0), Line("other", 70)})
NoCPU      == Ipmitool({Inlet})
Implausible == Ipmitool({Line("cpu", 50), Line("cpu", 120)})

Cards(t)   == NvidiaSmi({Row(7, 40), Row(7, t)})
OneCardNA  == NvidiaSmi({RowNA, Row(7, 40)})
Ragged     == NvidiaSmi({Row(3, 40)})

SomeCPUOutputs == {CPUs(50), CPUs(70), CPUs(105), OtherOnly, NoCPU,
                   Implausible, IpmitoolFails}
SomeGPUOutputs == {Cards(40), Cards(66), Cards(95), OneCardNA, Ragged,
                   NotCSV, NvidiaFails}

Both(c, g) == [cpu |-> c, gpu |-> g]

SomeOutputs ==
  {Both(CPUs(50), Cards(40)), Both(CPUs(70), Cards(40)),
   Both(CPUs(50), Cards(66)), Both(CPUs(105), Cards(40)),
   Both(OtherOnly, Cards(95)), Both(Implausible, OneCardNA),
   Both(NoCPU, Cards(40)), Both(CPUs(105), Ragged)}

SomeSamples == {[cpu |-> ReadCPU(o.cpu), gpu |-> ReadGPU(o.gpu)] : o \in SomeOutputs}
=============================================================================
