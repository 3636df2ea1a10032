--------------------------- MODULE SensingProofs ---------------------------
(***************************************************************************)
(* Theorems about Sensing: what the tools print and what the fans do, for  *)
(* every configuration, every set of outputs and every fault model.  The   *)
(* reading of a pass is the one its output gives, and a monitor's reading  *)
(* is never below a temperature it takes for one; the rest is what         *)
(* FanControlProofs proves of the readings.                                *)
(***************************************************************************)
EXTENDS Sensing, FanControlProofs, FiniteSetTheorems

-----------------------------------------------------------------------------
(***************************************************************************)
(* The greatest element of a finite set.                                   *)
(***************************************************************************)
LEMMA MaxIsGreatest ==
  ASSUME NEW S \in SUBSET Int, IsFiniteSet(S), S # {}
  PROVE  Max(S) \in S /\ \A y \in S : Max(S) >= y
<1> DEFINE Above(y) == {z \in S : z > y}
           Aboves == {Above(y) : y \in S}
<1>1. PICK A \in Aboves :
        \A B \in Aboves : <<B, A>> \notin StrictSubsetOrdering(S)
  <2>1. \A y \in S : Above(y) \subseteq S
    OBVIOUS
  <2>2. \A y \in S : Above(y) \in FiniteSubsetsOf(S)
    BY <2>1, FS_Subset DEF FiniteSubsetsOf
  <2>3. Aboves # {} /\ Aboves \subseteq FiniteSubsetsOf(S)
    BY <2>2
  <2>4. QED
    BY <2>3, FS_StrictSubsetOrderingWellFounded, WFMin
<1>2. PICK x \in S : A = Above(x)
  OBVIOUS
<1>3. ASSUME NEW z \in S, z > x PROVE FALSE
  <2>1. \A y \in S : y > z => y > x
    BY <1>3
  <2>2. Above(z) \subseteq Above(x)
    BY <2>1
  <2>3. z \in Above(x) /\ z \notin Above(z)
    BY <1>3
  <2>4. Above(z) # Above(x)
    BY <2>3
  <2>5. <<Above(z), Above(x)>> \in StrictSubsetOrdering(S)
    BY <2>2, <2>4 DEF StrictSubsetOrdering
  <2>6. QED
    BY <2>5, <1>1, <1>2
<1>4. \A y \in S : x >= y
  BY <1>3
<1>5. QED
  BY <1>4 DEF Max

LEMMA FiniteImage ==
  ASSUME NEW S, IsFiniteSet(S), NEW f
  PROVE  IsFiniteSet({f[x] : x \in S})
<1> DEFINE T == {f[x] : x \in S}
           g == [x \in S |-> f[x]]
<1>1. g \in Surjection(S, T)
  BY DEF Surjection
<1>2. QED
  BY <1>1, FS_Surjection

-----------------------------------------------------------------------------
(***************************************************************************)
(* What the monitors make of an output.                                    *)
(***************************************************************************)
LEMMA PlausibleTemps ==
  ASSUME NEW o \in CPUOutputs, NEW labels
  PROVE  AcceptedTemps(o.lines, labels) \in SUBSET Int
         /\ IsFiniteSet(AcceptedTemps(o.lines, labels))
<1> DEFINE L == {x \in o.lines : x.label \in labels}
           f == [x \in L |-> x.degrees]
           D == {f[x] : x \in L}
<1>1. IsFiniteSet(o.lines) /\ \A x \in o.lines : x.degrees \in Nat
  BY MonitorsAssumption
<1>2. IsFiniteSet(L)
  BY <1>1, FS_Subset
<1>3. IsFiniteSet(D)
  BY <1>2, FiniteImage
<1>4. \A x \in L : f[x] \in Int
  BY <1>1
<1>5. AcceptedTemps(o.lines, labels) = {t \in D : Plausible(t)}
  BY DEF AcceptedTemps
<1>6. AcceptedTemps(o.lines, labels) \in SUBSET D /\ D \subseteq Int
  BY <1>4, <1>5
<1>7. QED
  BY <1>3, <1>6, FS_Subset

\* No socket is hotter than the CPU reading.
LEMMA CPUReadingCovers ==
  ASSUME NEW o \in CPUOutputs, o.ran,
         NEW l \in o.lines, l.label = "cpu", Plausible(l.degrees)
  PROVE  ReadCPU(o) >= l.degrees
<1> DEFINE temps == AcceptedTemps(o.lines, {"cpu"})
<1>1. l.degrees \in temps
  BY DEF AcceptedTemps
<1>2. ReadCPU(o) = Max(temps)
  BY <1>1 DEF ReadCPU, ParseCPUTemps
<1>3. QED
  BY <1>1, <1>2, PlausibleTemps, MaxIsGreatest

\* No card whose temperature can be read is hotter than the GPU reading.
LEMMA GPUReadingCovers ==
  ASSUME NEW o \in GPUOutputs, GPUEnabled, ReadGPU(o) # NoReading,
         NEW r \in Devices(o.rows), r.readable
  PROVE  ReadGPU(o) >= r.temp
<1> DEFINE D == Devices(o.rows)
           f == [x \in D |-> ParseInt(x)]
           T == {f[x] : x \in D}
<1>1. IsFiniteSet(o.rows) /\ \A x \in o.rows : ParseInt(x) \in Int
  BY MonitorsAssumption DEF ParseInt
<1>2. IsFiniteSet(D) /\ D \subseteq o.rows
  BY <1>1, FS_Subset DEF Devices
<1>3. IsFiniteSet(T) /\ T \subseteq Int
  BY <1>1, <1>2, FiniteImage
<1>4. IsFiniteSet(T \cup {0}) /\ T \cup {0} \in SUBSET Int
  BY <1>3, FS_AddElement
<1>5. ReadGPU(o) = Max({0} \cup {ParseInt(x) : x \in D})
  BY DEF ReadGPU, MaxGPUTemp
<1>6. {0} \cup {ParseInt(x) : x \in D} = T \cup {0}
  OBVIOUS
<1>7. r.temp \in T
  BY DEF ParseInt
<1>8. QED
  BY <1>4, <1>5, <1>6, <1>7, MaxIsGreatest

\* A CPU reading comes from a temperature that was printed.
LEMMA CPUReadingIsPrinted ==
  ASSUME NEW o \in CPUOutputs, ReadCPU(o) # NoReading
  PROVE  /\ o.ran
         /\ \E l \in o.lines : l.label # "chassis" /\ Plausible(l.degrees)
<1>1. o.ran /\ ParseCPUTemps(o.lines) # {}
  BY DEF ReadCPU
<1>2. AcceptedTemps(o.lines, {"cpu", "other"}) # {}
  BY <1>1 DEF ParseCPUTemps, AcceptedTemps
<1>3. QED
  BY <1>1, <1>2 DEF AcceptedTemps

\* A GPU reading comes from a complete row of a card.
LEMMA GPUReadingIsPrinted ==
  ASSUME NEW o \in GPUOutputs, GPUEnabled, ReadGPU(o) # NoReading
  PROVE  o.ran /\ o.csv /\ \E r \in o.rows : r.fields >= Fields
<1>1. o.ran /\ o.csv /\ Devices(o.rows) # {}
  BY MonitorsAssumption DEF ReadGPU
<1>2. QED
  BY <1>1 DEF Devices

-----------------------------------------------------------------------------
(***************************************************************************)
(* The sensing controller is a FanControl whose sample is the reading of   *)
(* the output of its last pass.                                            *)
(***************************************************************************)
Synced == SensorsOk(sample) => output \in Outputs /\ sample = Sample[output]

LEMMA SensingStep == [SNext]_svars => [Next]_vars
<1>1. ASSUME NEW o \in Outputs, ReadTools(o) PROVE Next
  BY <1>1, SensingAssumption DEF ReadTools, Next, LoopStep
<1>2. QED
  BY <1>1 DEF SNext, Next, svars

LEMMA SensingImplements == SSpec => Spec
<1>1. SInit => Init
  BY DEF SInit
<1>2. QED
  BY <1>1, SensingStep, PTL DEF SSpec, Spec

LEMMA NextSynced == Synced /\ [SNext]_svars => Synced'
<1> SUFFICES ASSUME Synced, [SNext]_svars PROVE Synced'
  OBVIOUS
<1>1. ASSUME NEW o \in Outputs, ReadTools(o) PROVE Synced'
  <2>1. sample' = Sample[o] /\ output' = o
    BY <1>1 DEF ReadTools, ReadSensors, ReadInWriteFailsafe, ReadFails,
       ReadHealthy, ReadWhileRestorePending, ReadRecovered
  <2>2. QED
    BY <2>1 DEF Synced
<1>2. CASE pc # "read" /\ LoopStep /\ UNCHANGED output
  <2>1. UNCHANGED sample
    BY <1>2 DEF LoopStep, Start, Tick, AttemptRestore, ReadSensors,
       ReadInWriteFailsafe, ReadFails, ReadHealthy, ReadWhileRestorePending,
       ReadRecovered, Reclaim, Record, Decide, WriteDone, WriteFails,
       CountWriteFailure, GoTo
  <2>2. QED
    BY <1>2, <2>1 DEF Synced, SensorsOk
<1>3. CASE \/ (BmcStep \/ Request \/ Elapse) /\ UNCHANGED output
           \/ UNCHANGED svars
  <2>1. UNCHANGED <<sample, output>>
    BY <1>3, BmcStepCases DEF Request, SetOverride, ClearOverride, AddHint, RemoveHint,
       Elapse, svars, vars, loopVars
  <2>2. QED
    BY <2>1 DEF Synced, SensorsOk
<1>4. QED
  BY <1>1, <1>2, <1>3 DEF SNext

LEMMA SyncedInvariance == SSpec => []Synced
<1>1. SInit => Synced
  BY DEF SInit, Init, Synced, SensorsOk
<1>2. QED
  BY <1>1, NextSynced, PTL DEF SSpec

LEMMA OutputsAreTyped ==
  ASSUME NEW o \in Outputs
  PROVE  /\ o.cpu \in CPUOutputs /\ o.gpu \in GPUOutputs
         /\ Sample[o].cpu = ReadCPU(o.cpu)
         /\ Sample[o].gpu = ReadGPU(o.gpu)
BY SensingAssumption DEF Sample

-----------------------------------------------------------------------------
\* After a pass in which a critical temperature of any socket or card was
\* printed, and both monitors gave a reading, the fans stand at the emergency
\* speed, unless the write failed or cooling is with the BMC.
THEOREM PrintedCriticalAnswered == SSpec => []PrintedCriticalIsAnswered
<1>1. TypeOK /\ CriticalIsAnswered /\ Synced => PrintedCriticalIsAnswered
  <2> SUFFICES ASSUME TypeOK, CriticalIsAnswered, Synced,
                      pc = "wait", failsafeCause = "none",
                      ~lastWriteFailed, SensorsOk(sample),
                      \/ \E t \in PrintedCPU(output) :
                           CriticalCPUTemp <= t /\ t < 120
                      \/ GPUEnabled /\ \E t \in PrintedGPU(output) :
                                         t >= CriticalGPUTemp
               PROVE  bmcSpeed = EmergencySpeed
    BY DEF PrintedCriticalIsAnswered
  <2>1. /\ output \in Outputs
        /\ output.cpu \in CPUOutputs /\ output.gpu \in GPUOutputs
        /\ sample.cpu = ReadCPU(output.cpu)
        /\ sample.gpu = ReadGPU(output.gpu)
    BY OutputsAreTyped DEF Synced
  <2>2. ReadCPU(output.cpu) # NoReading /\ ReadGPU(output.gpu) # NoReading
    BY <2>1 DEF SensorsOk, NoTemp, NoReading
  <2>3. sample.cpu \in Int /\ sample.gpu \in Int
    BY DEF TypeOK
  <2>4. CriticalCPUTemp \in Int /\ CriticalGPUTemp \in Int
        /\ CriticalCPUTemp > 0
    BY ConfigAssumption DEF ConfigAssumption, ValidConfig
  <2>5. ASSUME NEW t \in PrintedCPU(output), CriticalCPUTemp <= t, t < 120
        PROVE  IsCritical(sample)
    <3>1. PICK l \in output.cpu.lines : l.label = "cpu" /\ l.degrees = t
      BY DEF PrintedCPU
    <3>2. t \in Nat
      BY <3>1, <2>1, MonitorsAssumption
    <3>3. Plausible(l.degrees)
      BY <2>4, <2>5, <3>1, <3>2 DEF Plausible
    <3>4. ReadCPU(output.cpu) >= t
      BY <2>1, <2>2, <3>1, <3>3, CPUReadingCovers, CPUReadingIsPrinted
    <3>5. QED
      BY <2>1, <2>3, <2>4, <2>5, <3>2, <3>4 DEF IsCritical
  <2>6. ASSUME GPUEnabled, NEW t \in PrintedGPU(output), t >= CriticalGPUTemp
        PROVE  IsCritical(sample)
    <3>1. PICK r \in Devices(output.gpu.rows) : r.readable /\ r.temp = t
      BY DEF PrintedGPU, Devices
    <3>2. t \in Int
      BY <3>1, <2>1, MonitorsAssumption DEF Devices
    <3>3. ReadGPU(output.gpu) >= t
      BY <2>1, <2>2, <2>6, <3>1, GPUReadingCovers
    <3>4. QED
      BY <2>1, <2>3, <2>4, <2>6, <3>2, <3>3 DEF IsCritical
  <2>7. IsCritical(sample)
    BY <2>5, <2>6
  <2>8. QED
    BY <2>7 DEF CriticalIsAnswered
<1>2. QED
  BY <1>1, SensingImplements, TypeCorrect, CriticalAnswered,
     SyncedInvariance, PTL

\* The fans are never sent a speed on a pass in which ipmitool printed a
\* plausible temperature of no socket and of no other sensor outside the
\* chassis, or in which no complete row of a card was printed.
THEOREM BlindPassHolds == SSpec => BlindPassHoldsFans
<1>1. TypeOK /\ ControlInv /\ Synced /\ [SNext]_svars
        => [bmcSpeed' # bmcSpeed =>
              /\ output.cpu.ran
              /\ \E t \in PrintedCPU(output) \cup PrintedStandIns(output) :
                   t \in 1 .. 119
              /\ GPUEnabled => /\ output.gpu.ran /\ output.gpu.csv
                               /\ \E r \in output.gpu.rows :
                                    r.fields >= Fields]_svars
  <2> SUFFICES ASSUME TypeOK, ControlInv, Synced, [SNext]_svars,
                      bmcSpeed' # bmcSpeed
               PROVE  /\ output.cpu.ran
                      /\ \E t \in PrintedCPU(output)
                                \cup PrintedStandIns(output) : t \in 1 .. 119
                      /\ GPUEnabled =>
                           /\ output.gpu.ran /\ output.gpu.csv
                           /\ \E r \in output.gpu.rows : r.fields >= Fields
    OBVIOUS
  <2>1. SensorsOk(sample)
    BY SensingStep, StepToSpeed
  <2>2. /\ output.cpu \in CPUOutputs /\ output.gpu \in GPUOutputs
        /\ ReadCPU(output.cpu) # NoReading
        /\ ReadGPU(output.gpu) # NoReading
    BY <2>1, OutputsAreTyped DEF Synced, SensorsOk, NoTemp, NoReading
  <2>3. output.cpu.ran
    BY <2>2, CPUReadingIsPrinted
  <2>4. PICK l \in output.cpu.lines :
          l.label # "chassis" /\ Plausible(l.degrees)
    BY <2>2, CPUReadingIsPrinted
  <2>5. /\ l.degrees \in PrintedCPU(output) \cup PrintedStandIns(output)
        /\ l.degrees \in 1 .. 119
    BY <2>2, <2>4, MonitorsAssumption
       DEF PrintedCPU, PrintedStandIns, Plausible
  <2>6. GPUEnabled => /\ output.gpu.ran /\ output.gpu.csv
                      /\ \E r \in output.gpu.rows : r.fields >= Fields
    BY <2>2, GPUReadingIsPrinted
  <2>7. QED
    BY <2>3, <2>5, <2>6
<1>2. QED
  BY <1>1, SensingImplements, ControlInvariance, SyncedInvariance, PTL
     DEF SSpec, BlindPassHoldsFans
=============================================================================
