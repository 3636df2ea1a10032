------------------------------ MODULE Monitors ------------------------------
(***************************************************************************)
(* The temperature monitors: what CPUMonitor.Read makes of the output of   *)
(* "ipmitool sdr type temperature", and GPUMonitor.Read of the output of   *)
(* nvidia-smi.  A run of a tool that fails, or is killed at its deadline,  *)
(* has ran = FALSE.  Only the hottest device counts for the controller, so *)
(* an output is the set of its lines, without their order.                 *)
(*                                                                         *)
(*   ipmitool    the lines that read "NN degrees", by their label: "cpu"   *)
(*               begins with Temp, "chassis" names an inlet or an exhaust, *)
(*               "other" is any other sensor                               *)
(*   nvidia-smi  its rows, with their number of fields and the temperature *)
(*               field, a number when it is readable and otherwise empty,  *)
(*               "N/A" or garbage; csv tells whether the whole output is   *)
(*               well-formed CSV                                           *)
(***************************************************************************)
EXTENDS Integers, FiniteSetsExt

CONSTANTS
  GPUEnabled,     \* gpu.enabled
  CPUOutputs,     \* what a run of ipmitool can give
  GPUOutputs      \* what a run of nvidia-smi can give

NoReading == -1      \* the error that a monitor returns
Fields    == 7       \* the columns that nvidia-smi is asked for

ASSUME MonitorsAssumption ==
  /\ GPUEnabled \in BOOLEAN
  /\ \A o \in CPUOutputs :
       /\ o.ran \in BOOLEAN /\ IsFiniteSet(o.lines)
       /\ o.lines \subseteq [label : {"cpu", "chassis", "other"},
                             degrees : Nat]
  /\ \A o \in GPUOutputs :
       /\ o.ran \in BOOLEAN /\ o.csv \in BOOLEAN /\ IsFiniteSet(o.rows)
       /\ o.rows \subseteq [fields : Nat, readable : BOOLEAN, temp : Int]

-----------------------------------------------------------------------------
(***************************************************************************)
(* CPUs: cpu.go.                                                           *)
(***************************************************************************)
\* Seeded bug: three digits are taken for garbage.
TwoDigits(t) == 0 < t /\ t < 100

Plausible(t) == 0 < t /\ t < 120

AcceptedTemps(lines, labels) ==
  {t \in {l.degrees : l \in {x \in lines : x.label \in labels}} : Plausible(t)}

\* The CPU lines; when none of them is plausible, any but the chassis lines.
ParseCPUTemps(lines) ==
  LET cpus == AcceptedTemps(lines, {"cpu"})
  IN  IF cpus # {} THEN cpus ELSE AcceptedTemps(lines, {"cpu", "other"})

ReadCPU(o) ==
  LET temps == IF o.ran THEN ParseCPUTemps(o.lines) ELSE {}
  IN  IF temps = {} THEN NoReading ELSE Max(temps)

-----------------------------------------------------------------------------
(***************************************************************************)
(* GPUs: gpu.go.  A card whose temperature cannot be read counts as 0      *)
(* degrees; no card at all is an error, unless monitoring is off.          *)
(***************************************************************************)
ParseInt(r) == IF r.readable THEN r.temp ELSE 0

\* Ragged rows are skipped.
Devices(rows) == {r \in rows : r.fields >= Fields}

MaxGPUTemp(rows) == Max({0} \cup {ParseInt(r) : r \in rows})

\* Seeded bug: no card at all is a cold card.
ReadGPUQuietly(o) ==
  IF ~GPUEnabled THEN 0
  ELSE IF ~o.ran \/ ~o.csv THEN NoReading
  ELSE MaxGPUTemp(Devices(o.rows))

ReadGPU(o) ==
  IF ~GPUEnabled THEN 0
  ELSE IF ~o.ran \/ ~o.csv \/ Devices(o.rows) = {} THEN NoReading
  ELSE MaxGPUTemp(Devices(o.rows))
=============================================================================
