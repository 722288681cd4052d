---------------------------- MODULE LocalSensors ----------------------------
(***************************************************************************)
(* The counters behind the panel's values (src/sensors.rs, Monitor): the   *)
(* CPU load from the jiffies of /proc/stat, the CPU power from the energy  *)
(* counter of the RAPL package, and the history of the samples.            *)
(*                                                                         *)
(* A load is kept as the two differences it is the quotient of, power as   *)
(* the energy that is divided by the time between two readings.            *)
(***************************************************************************)
EXTENDS Integers

CONSTANTS
    EnergyRange,  \* max_energy_range_uj: the energy counter starts anew there
    HistoryMax,   \* HISTORY_LEN
    MaxJiffies,   \* bound of each CPU counter
    MaxDips       \* bound: times the iowait counter falls

ASSUME SensorsAssumption ==
    /\ EnergyRange \in Nat \ {0} /\ HistoryMax \in Nat \ {0}
    /\ MaxJiffies \in Nat /\ MaxDips \in Nat

VARIABLES
    cpu,       \* busy, idle and iowait jiffies
    energy,    \* energy_uj
    rapl,      \* the package is absent, its counter unreadable, or readable
    dips,      \* times iowait has fallen
    since,     \* history: what has really passed since the last readings
    lastCpu,   \* previous_cpu
    lastUj,    \* previous_energy
    range,     \* rapl_range_uj, 0 when there was no package at the start
    load,      \* the last load
    watts,     \* the last power
    samples    \* length of history

machineVars == <<cpu, energy, rapl, dips>>
sensorVars == <<machineVars, since, lastCpu, lastUj, range, load, watts, samples>>

Unread == [known |-> FALSE, total |-> 0, idle |-> 0]

SensorsInit ==
    /\ cpu = [busy |-> 0, idle |-> 0, iowait |-> 0]
    /\ energy \in 0..EnergyRange - 1
    /\ rapl \in {"absent", "unreadable", "readable"}
    /\ dips = 0
    /\ since = [busy |-> 0, all |-> 0, dips |-> 0, energy |-> 0, wrapped |-> FALSE]
    /\ lastCpu = Unread
    /\ lastUj = [known |-> FALSE, energy |-> 0]
    /\ range = IF rapl = "absent" THEN 0 ELSE EnergyRange
    /\ load = [part |-> 0, whole |-> 0]
    /\ watts = [available |-> FALSE, energy |-> 0]
    /\ samples = 0

-----------------------------------------------------------------------------
(* A jiffy passes, busy or not.                                            *)
Jiffy(kind) ==
    /\ cpu[kind] < MaxJiffies
    /\ cpu' = [cpu EXCEPT ![kind] = @ + 1]
    /\ since' = [since EXCEPT !.all = @ + 1, !.busy = IF kind = "busy" THEN @ + 1 ELSE @]
    /\ UNCHANGED <<energy, rapl, dips, lastCpu, lastUj, range, load, watts, samples>>

(* The kernel takes iowait back.                                           *)
Dip ==
    /\ cpu.iowait > 0 /\ dips < MaxDips
    /\ cpu' = [cpu EXCEPT !.iowait = @ - 1]
    /\ dips' = dips + 1
    /\ since' = [since EXCEPT !.dips = @ + 1]
    /\ UNCHANGED <<energy, rapl, lastCpu, lastUj, range, load, watts, samples>>

(* The package uses energy, less than the counter can hold between two     *)
(* readings.                                                               *)
Burn ==
    /\ since.energy < EnergyRange - 1
    /\ energy' = (energy + 1) % EnergyRange
    /\ since' = [since EXCEPT !.energy = @ + 1, !.wrapped = @ \/ energy' = 0]
    /\ UNCHANGED <<cpu, rapl, dips, lastCpu, lastUj, range, load, watts, samples>>

(* The driver is loaded, or the permissions are mended.                    *)
Mend ==
    /\ rapl # "readable"
    /\ rapl' = IF rapl = "absent" THEN "unreadable" ELSE "readable"
    /\ UNCHANGED <<cpu, energy, dips, since, lastCpu, lastUj, range, load, watts, samples>>

(* The counter cannot be read any more, with a known reading or without.   *)
Spoil ==
    /\ rapl = "readable"
    /\ rapl' = "unreadable"
    /\ UNCHANGED <<cpu, energy, dips, since, lastCpu, lastUj, range, load, watts, samples>>

-----------------------------------------------------------------------------
(* read_cpu_times.                                                         *)
Total == cpu.busy + cpu.idle + cpu.iowait

(* Definitions whose name ends in Mutant are faulty variants of the one    *)
(* that follows: a property below fails when its variant is used.          *)
IdleMutant == cpu.idle

Idle == cpu.idle + cpu.iowait

Minus(a, b) == IF a > b THEN a - b ELSE 0    \* saturating_sub

(* cpu_load.  The second subtraction does not saturate.                    *)
CpuLoad ==
    /\ load' = IF lastCpu.known
               THEN [part |-> Minus(Total, lastCpu.total) - Minus(Idle, lastCpu.idle),
                     whole |-> Minus(Total, lastCpu.total)]
               ELSE [part |-> 0, whole |-> 0]
    /\ lastCpu' = [known |-> TRUE, total |-> Total, idle |-> Idle]

(* Without /proc/stat the load is zero, and the last counters stay.        *)
CpuFails ==
    /\ load' = [part |-> 0, whole |-> 0]
    /\ UNCHANGED lastCpu

UjMutant == Minus(energy, lastUj.energy)

(* The energy since the last reading; the counter may have started anew.   *)
Uj == IF energy >= lastUj.energy THEN energy - lastUj.energy
      ELSE Minus(range, lastUj.energy) + energy

(* cpu_watts, which looks for the package anew as long as there is none,   *)
(* and keeps what it read last while the counter cannot be read.           *)
CpuWatts ==
    IF rapl = "readable"
    THEN /\ watts' = [available |-> TRUE, energy |-> IF lastUj.known THEN Uj ELSE 0]
         /\ lastUj' = [known |-> TRUE, energy |-> energy]
    ELSE /\ watts' = [available |-> FALSE, energy |-> 0]
         /\ UNCHANGED lastUj

(* What the next readings have to count, if this one has had /proc/stat.   *)
Uncounted(stat) ==
    [busy |-> IF stat THEN 0 ELSE since.busy, all |-> IF stat THEN 0 ELSE since.all,
     dips |-> IF stat THEN 0 ELSE since.dips,
     energy |-> IF rapl = "readable" THEN 0 ELSE since.energy,
     wrapped |-> IF rapl = "readable" THEN FALSE ELSE since.wrapped]

(* tick: the oldest sample leaves a full history.                          *)
ReadSensors ==
    /\ \/ CpuLoad /\ since' = Uncounted(TRUE)
       \/ CpuFails /\ since' = Uncounted(FALSE)
    /\ CpuWatts
    /\ samples' = IF samples >= HistoryMax THEN samples ELSE samples + 1
    /\ UNCHANGED <<machineVars, range>>

SensorsNext ==
    \/ \E kind \in {"busy", "idle", "iowait"}: Jiffy(kind)
    \/ Dip \/ Burn \/ Mend \/ Spoil \/ ReadSensors

SensorsSpec == SensorsInit /\ [][SensorsNext]_sensorVars

-----------------------------------------------------------------------------
(* Type invariant of Monitor and of the counters it reads.                 *)
SensorsTypeOK ==
    /\ \A kind \in {"busy", "idle", "iowait"}: cpu[kind] \in 0..MaxJiffies
    /\ energy \in 0..EnergyRange - 1 /\ lastUj.energy \in 0..EnergyRange - 1
    /\ rapl \in {"absent", "unreadable", "readable"} /\ dips \in 0..MaxDips
    /\ lastCpu.known \in BOOLEAN /\ lastCpu.total \in Nat /\ lastCpu.idle \in 0..lastCpu.total
    /\ range \in {0, EnergyRange} /\ samples \in 0..HistoryMax
    /\ watts.available \in BOOLEAN /\ watts.energy \in Nat

(* cpu_load: its unsigned subtraction never goes below zero, also when the *)
(* kernel takes iowait back, so a load is between 0 and 100 %.             *)
LoadIsShare == load.part \in 0..load.whole

(* cpu_load: a load is the busy part of the jiffies since the counters     *)
(* were last read, also when a read has failed in between, unless iowait   *)
(* has fallen meanwhile.                                                   *)
LoadIsExact ==
    [][ReadSensors /\ CpuLoad /\ lastCpu.known /\ since.dips = 0
       => load' = [part |-> since.busy, whole |-> since.all]]_sensorVars

(* cpu_watts: all energy since the last reading counts, and no other, also *)
(* when the counter has started anew, or could not be read in between;     *)
(* only a package that was absent at the start must not start anew.        *)
EnergyIsExact ==
    [][ReadSensors /\ lastUj.known /\ watts'.available /\ (range # 0 \/ ~since.wrapped)
       => watts'.energy = since.energy]_sensorVars
=============================================================================
