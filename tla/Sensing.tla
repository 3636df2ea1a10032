------------------------------ MODULE Sensing ------------------------------
(***************************************************************************)
(* The fan controller and its monitors together: FanControl, whose         *)
(* readings are what Monitors makes of the output of the two tools.  The   *)
(* output of the current pass is kept, so that what the fans do can be     *)
(* compared with what the tools printed, whatever the parsers made of it.  *)
(***************************************************************************)
EXTENDS FanControl, Monitors

VARIABLE output     \* of the tools, in the last pass that read the sensors

svars == <<vars, output>>

CONSTANT Outputs    \* what the two tools can give in one pass

\* What the two monitors return for it.
Sample == [o \in Outputs |-> [cpu |-> ReadCPU(o.cpu), gpu |-> ReadGPU(o.gpu)]]

ASSUME SensingAssumption ==
  /\ \A o \in Outputs : o.cpu \in CPUOutputs /\ o.gpu \in GPUOutputs
  /\ Samples = {Sample[o] : o \in Outputs}

\* Before the first pass: nothing was run.
Silent == [cpu |-> [ran |-> FALSE, lines |-> {}],
           gpu |-> [ran |-> FALSE, csv |-> FALSE, rows |-> {}]]

SInit == Init /\ output = Silent

\* readSensors: both monitors run their tool, and the pass goes on with what
\* they return.
ReadTools(o) == ReadSensors(Sample[o]) /\ output' = o

SNext ==
  \/ \E o \in Outputs : ReadTools(o)
  \/ pc # "read" /\ LoopStep /\ UNCHANGED output
  \/ (BmcStep \/ Request \/ Elapse) /\ UNCHANGED output

SSpec == SInit /\ [][SNext]_svars

-----------------------------------------------------------------------------
(***************************************************************************)
(* Properties.                                                             *)
(***************************************************************************)
\* Temperatures as they stand in the output: of the sockets, of the sensors
\* that can stand in for them, which are all but the chassis ones, and of
\* the cards.
PrintedCPU(o) == {l.degrees : l \in {x \in o.cpu.lines : x.label = "cpu"}}
PrintedStandIns(o) ==
  {l.degrees : l \in {x \in o.cpu.lines : x.label \notin {"cpu", "chassis"}}}
PrintedGPU(o) == {r.temp : r \in {x \in o.gpu.rows :
                                    x.fields >= Fields /\ x.readable}}

\* README.md, "Safety": "Critical temperatures bypass everything".  After a
\* pass in which ipmitool printed a critical temperature of any socket (of
\* at most three digits below 120) or nvidia-smi one of any card, and both
\* monitors gave a reading, the fans stand at the emergency speed, unless
\* the write failed or cooling is with the BMC.
PrintedCriticalIsAnswered ==
  /\ pc = "wait" /\ failsafeCause = "none" /\ ~lastWriteFailed
  /\ SensorsOk(sample)
  /\ \/ \E t \in PrintedCPU(output) : CriticalCPUTemp <= t /\ t < 120
     \/ GPUEnabled /\ \E t \in PrintedGPU(output) : t >= CriticalGPUTemp
  => bmcSpeed = EmergencySpeed

\* gpu.go, Read: "empty/garbage nvidia-smi output would look like a healthy
\* cold GPU and the fail-safe would never engage".  The fans are never sent
\* a speed on a pass in which ipmitool printed a plausible temperature of no
\* socket and of no other sensor outside the chassis, which the CPU monitor
\* takes in its stead, or in which no complete row of a card was printed.
BlindPassHoldsFans ==
  [][bmcSpeed' # bmcSpeed =>
       /\ output.cpu.ran
       /\ \E t \in PrintedCPU(output) \cup PrintedStandIns(output) : t \in 1 .. 119
       /\ GPUEnabled => /\ output.gpu.ran /\ output.gpu.csv
                        /\ \E r \in output.gpu.rows : r.fields >= Fields
    ]_svars

-----------------------------------------------------------------------------
(***************************************************************************)
(* A claim of the documentation that the code does not keep.               *)
(***************************************************************************)
\* README.md, "Safety": "If critical_cpu_temp or critical_gpu_temp is
\* reached, fans jump straight to max_speed".  After a pass in which both
\* monitors gave a reading and ipmitool printed a socket at or above the
\* critical temperature, however hot, the fans stand at the emergency speed,
\* unless the write failed or cooling is with the BMC.
PrintedCriticalRamps ==
  /\ pc = "wait" /\ failsafeCause = "none" /\ ~lastWriteFailed
  /\ SensorsOk(sample)
  /\ \E t \in PrintedCPU(output) : t >= CriticalCPUTemp
  => bmcSpeed = EmergencySpeed
=============================================================================
