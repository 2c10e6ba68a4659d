----------------------------- MODULE SensorSimulator -----------------------------
(* The scenario that drives the monitor: sim_tick, called every 500 ms by the task of *)
(* the lowest priority, and the ground station, whose heartbeat every 800 ms preempts *)
(* it.  The phases, ramps, drains and leaks have the values of include/config.h; time *)
(* is counted in steps of 100 ms, which divide every period.  Gaussian noise is a     *)
(* choice within the bounds of the Box-Muller transform; radiation, which nobody      *)
(* monitors, and heap_free_bytes, which only the status line reads, are left out.     *)
(*                                                                                    *)
(* Sources: src/sensor_simulator.c, src/main.c (vGroundStationTask), include/config.h.*)
EXTENDS Thresholds, DashboardTables, Sequences

CONSTANTS
  WRAP,     \* number of values of a TickType_t, in steps of 100 ms
  MaxLate,  \* bound: steps by which sim_tick may be held up after its release
  Horizon   \* bound: calls of sim_tick

ASSUME SimulatorAssumption ==
  /\ WRAP \in Nat /\ Horizon \in Nat /\ MaxLate \in Nat
  /\ MaxLate < 5
  /\ WRAP > 5 * Horizon + 100

SimPeriod    == 5
GroundPeriod == 8

SCENARIO_THERMAL_START  == 15
SCENARIO_THERMAL_END    == 35
SCENARIO_BATTERY_END    == 55
SCENARIO_COMM_END       == 70
SCENARIO_COMBINED_START == 90
SCENARIO_CLEAR          == 110

MAX_LEAK_PTRS     == 64
SIM_LEAK_PERIOD_S == 2

(* Temperatures in tenths of a degree, loads in tenths of a percent. *)
SIM_TEMP_BASELINE_C   == 220
SIM_TEMP_SPIKE_TARGET == 920
SIM_TEMP_RAMP_TICKS   == 16
SIM_TEMP_DRIFT_PER_10 == 3
SIM_CPU_STORM_OFFSET  == 550

(* Millivolts: the drains are whole ones. *)
SIM_BAT_START        == 4100
SIM_BAT_EMPTY        == 2500
SIM_BAT_DRAIN_NORMAL == 2
SIM_BAT_DRAIN_FAULT  == 15
SIM_BAT_CHARGE       == 5

VARIABLES
  clock,          \* xTickCount
  simDue,         \* steps until the next release of vSimulatorTask
  groundDue,      \* steps until the next release of vGroundStationTask
  at,             \* where vSimulatorTask is: "idle" or the part of sim_tick it is to do
  s_tick,
  elapsed_s, phase, temperature_c, battery_v, comm_gap, cpu_load_pct,  \* g_sim
  s_temp_drift, s_bat_v,
  s_blackout,
  s_last_hb_tick,
  simNow,         \* the local variable now of sim_tick
  s_leak_count, s_last_leak_s,
  tick_count,     \* the counter of vSimulatorTask
  shown           \* elapsed_s of the last status line, or -1

scheduleVars == <<clock, simDue, groundDue>>
signalVars   == <<temperature_c, battery_v, cpu_load_pct, s_temp_drift, s_bat_v>>
linkVars     == <<comm_gap, s_blackout, s_last_hb_tick, simNow>>
leakVars     == <<s_leak_count, s_last_leak_s>>
timeLineVars == <<s_tick, elapsed_s, phase>>
reportVars   == <<tick_count, shown>>
simVars == <<scheduleVars, at, timeLineVars, signalVars, linkVars, leakVars, reportVars>>

(* The enumeration of sensor_simulator.h. *)
SimPhase_t ==
  [NOMINAL |-> 0, THERMAL_SPIKE |-> 1, BATTERY_FAULT |-> 2, COMM_BLACKOUT |-> 3,
   MEMORY_LEAK |-> 4, COMBINED |-> 5, RECOVERY |-> 6]
PhaseNames == DOMAIN SimPhase_t

SimParts == {"idle", "timeline", "signals", "blackout", "readClock", "gap", "leak", "load",
             "report"}

SimTypeOK ==
  /\ clock \in Nat /\ simDue \in 0 .. SimPeriod /\ groundDue \in 0 .. GroundPeriod
  /\ at \in SimParts
  /\ s_tick \in 0 .. Horizon /\ elapsed_s \in Nat /\ phase \in PhaseNames
  /\ {temperature_c, battery_v, cpu_load_pct, s_temp_drift, s_bat_v} \subseteq Int
  /\ comm_gap \in 0 .. WRAP - 1 /\ s_blackout \in BOOLEAN
  /\ s_last_hb_tick \in Nat /\ simNow \in Nat
  /\ s_leak_count \in 0 .. MAX_LEAK_PTRS /\ s_last_leak_s \in Nat
  /\ tick_count \in Nat /\ shown \in Nat \cup {-1}

-----------------------------------------------------------------------------
(* Unsigned difference of two tick counts; neither has wrapped around yet. *)
TickDiff(x, y) == IF x >= y THEN x - y ELSE x - y + WRAP

(* Mutant: the blackout ends with the end of the battery phase. *)
PhaseAtNoBlackout(s) ==
  CASE s < SCENARIO_THERMAL_START  -> "NOMINAL"
    [] s \in SCENARIO_THERMAL_START .. SCENARIO_THERMAL_END - 1 -> "THERMAL_SPIKE"
    [] s \in SCENARIO_THERMAL_END .. SCENARIO_BATTERY_END - 1   -> "BATTERY_FAULT"
    [] s \in SCENARIO_BATTERY_END .. SCENARIO_COMBINED_START - 1 -> "MEMORY_LEAK"
    [] s \in SCENARIO_COMBINED_START .. SCENARIO_CLEAR - 1      -> "COMBINED"
    [] s >= SCENARIO_CLEAR -> "RECOVERY"

(* The if-chain of the time line. *)
PhaseAt(s) ==
  CASE s < SCENARIO_THERMAL_START  -> "NOMINAL"
    [] s \in SCENARIO_THERMAL_START .. SCENARIO_THERMAL_END - 1 -> "THERMAL_SPIKE"
    [] s \in SCENARIO_THERMAL_END .. SCENARIO_BATTERY_END - 1   -> "BATTERY_FAULT"
    [] s \in SCENARIO_BATTERY_END .. SCENARIO_COMM_END - 1      -> "COMM_BLACKOUT"
    [] s \in SCENARIO_COMM_END .. SCENARIO_COMBINED_START - 1   -> "MEMORY_LEAK"
    [] s \in SCENARIO_COMBINED_START .. SCENARIO_CLEAR - 1      -> "COMBINED"
    [] s >= SCENARIO_CLEAR -> "RECOVERY"

(* Gaussian noise: the uniform draws have 31 bits, so it stays within 6.6 deviations.   *)
(* Of the values between lo and hi those around the critical limit matter: at it, half  *)
(* a unit above (critical before truncation only), and a unit above.                    *)
Clamp(x, lo, hi) == IF x < lo THEN lo ELSE IF x > hi THEN hi ELSE x
Noisy(lo, hi, limit) == ({limit, limit + 5} \cap lo .. hi) \cup {Clamp(limit + 10, lo, hi)}
TempNoise == 99
CpuNoise  == 132

-----------------------------------------------------------------------------
(* vSimulatorTask goes from one part of its loop to the next; the ground station, of    *)
(* higher priority, is not ready.                                                       *)
SimAt(here, there) == at = here /\ groundDue # 0 /\ at' = there

(* vTaskDelayUntil releases vSimulatorTask. *)
SimRelease ==
  /\ simDue = 0 /\ s_tick < Horizon
  /\ SimAt("idle", "timeline")
  /\ simDue' = SimPeriod
  /\ UNCHANGED <<clock, groundDue, timeLineVars, signalVars, linkVars, leakVars, reportVars>>

(* Mutant: the phase is chosen from the old time. *)
TimeLineLate ==
  /\ SimAt("timeline", "signals")
  /\ s_tick' = s_tick + 1
  /\ elapsed_s' = s_tick' \div 2
  /\ phase' = PhaseAt(elapsed_s)
  /\ UNCHANGED <<scheduleVars, signalVars, linkVars, leakVars, reportVars>>

TimeLine ==
  /\ SimAt("timeline", "signals")
  /\ s_tick' = s_tick + 1
  /\ elapsed_s' = s_tick' \div 2
  /\ phase' = PhaseAt(elapsed_s')
  /\ UNCHANGED <<scheduleVars, signalVars, linkVars, leakVars, reportVars>>

(* Temperature without noise: a ramp during the spike, else the baseline with its drift. *)
MeanTemperature(drift) ==
  LET into == s_tick - 2 * SCENARIO_THERMAL_START
      ramp == IF into < SIM_TEMP_RAMP_TICKS THEN into ELSE SIM_TEMP_RAMP_TICKS
      rise == SIM_TEMP_SPIKE_TARGET - SIM_TEMP_BASELINE_C
  IN CASE phase = "THERMAL_SPIKE" ->
            SIM_TEMP_BASELINE_C + (ramp * rise) \div SIM_TEMP_RAMP_TICKS
       [] phase = "COMBINED" -> SIM_TEMP_BASELINE_C + drift + 50
       [] OTHER -> SIM_TEMP_BASELINE_C + drift

Drain ==
  CASE phase = "BATTERY_FAULT" -> SIM_BAT_DRAIN_FAULT
    [] phase = "RECOVERY" /\ s_bat_v < SIM_BAT_START -> -SIM_BAT_CHARGE
    [] OTHER -> SIM_BAT_DRAIN_NORMAL

(* The drains are whole millivolts, but the float sum may be a little less than the sum of *)
(* the decimals; that matters at the limit.                                                *)
SampleSignals ==
  /\ SimAt("signals", "blackout")
  /\ LET drift == s_temp_drift + (IF s_tick % 10 = 0 THEN SIM_TEMP_DRIFT_PER_10 ELSE 0)
         mean  == MeanTemperature(drift)
     IN /\ temperature_c' \in Noisy(mean - TempNoise, mean + TempNoise, 10 * CFG_TEMP_CRITICAL)
        /\ s_temp_drift' = IF phase = "RECOVERY" /\ drift > 0 THEN drift - 1 ELSE drift
  /\ s_bat_v' = Clamp(s_bat_v - Drain, SIM_BAT_EMPTY, SIM_BAT_START)
  /\ battery_v' \in {10 * s_bat_v'} \cup
                    (IF s_bat_v' = CFG_BAT_CRITICAL_MV THEN {10 * s_bat_v' - 1} ELSE {})
  /\ UNCHANGED <<scheduleVars, timeLineVars, cpu_load_pct, linkVars, leakVars, reportVars>>

(* Mutant: nothing ends the blackout. *)
BlackoutLatched ==
  /\ SimAt("blackout", "readClock")
  /\ s_blackout' = (s_blackout \/ phase = "COMM_BLACKOUT")
  /\ UNCHANGED <<scheduleVars, timeLineVars, signalVars, comm_gap, s_last_hb_tick, simNow,
                 leakVars, reportVars>>

SetBlackout ==
  /\ SimAt("blackout", "readClock")
  /\ s_blackout' = (phase = "COMM_BLACKOUT")
  /\ UNCHANGED <<scheduleVars, timeLineVars, signalVars, comm_gap, s_last_hb_tick, simNow,
                 leakVars, reportVars>>

(* The clock is read ... *)
ReadClock ==
  /\ SimAt("readClock", "gap")
  /\ simNow' = clock
  /\ UNCHANGED <<scheduleVars, timeLineVars, signalVars, comm_gap, s_blackout, s_last_hb_tick,
                 leakVars, reportVars>>

(* Mutant: the operands are exchanged. *)
StoreGapSwapped ==
  /\ SimAt("gap", "leak")
  /\ comm_gap' = TickDiff(s_last_hb_tick, simNow)
  /\ UNCHANGED <<scheduleVars, timeLineVars, signalVars, s_blackout, s_last_hb_tick, simNow,
                 leakVars, reportVars>>

(* ... and subtracted from: the ground station may have left a newer stamp by now. *)
StoreGap ==
  /\ SimAt("gap", "leak")
  /\ comm_gap' = TickDiff(simNow, s_last_hb_tick)
  /\ UNCHANGED <<scheduleVars, timeLineVars, signalVars, s_blackout, s_last_hb_tick, simNow,
                 leakVars, reportVars>>

LeakOn == phase \in {"MEMORY_LEAK", "COMBINED"}

(* Mutant: the leak's own clock is not set. *)
LeakUntimed ==
  /\ LeakOn /\ elapsed_s >= s_last_leak_s + SIM_LEAK_PERIOD_S
  /\ s_leak_count' = IF s_leak_count < MAX_LEAK_PTRS THEN s_leak_count + 1 ELSE s_leak_count
  /\ UNCHANGED s_last_leak_s

(* do_leak, at most every two seconds; a failed allocation would not return (main.c). *)
DoLeak ==
  /\ LeakOn /\ elapsed_s >= s_last_leak_s + SIM_LEAK_PERIOD_S
  /\ s_leak_count' = IF s_leak_count < MAX_LEAK_PTRS THEN s_leak_count + 1 ELSE s_leak_count
  /\ s_last_leak_s' = elapsed_s

FreeLeaks ==
  /\ ~LeakOn /\ s_leak_count > 0
  /\ s_leak_count' = 0
  /\ s_last_leak_s' = 0

KeepLeaks ==
  /\ IF LeakOn THEN elapsed_s < s_last_leak_s + SIM_LEAK_PERIOD_S ELSE s_leak_count = 0
  /\ UNCHANGED leakVars

Leak ==
  /\ SimAt("leak", "load")
  /\ DoLeak \/ FreeLeaks \/ KeepLeaks
  /\ UNCHANGED <<scheduleVars, timeLineVars, signalVars, linkVars, reportVars>>

CpuSynthetic ==
  CASE phase = "THERMAL_SPIKE" -> 100
    [] phase = "BATTERY_FAULT" -> 80
    [] phase = "COMBINED"      -> SIM_CPU_STORM_OFFSET
    [] OTHER -> 0

(* host_cpu_pct walks between 10 and 35 %. *)
SampleLoad ==
  /\ SimAt("load", "report")
  /\ \E cpu \in Noisy(100 + CpuSynthetic - CpuNoise, 350 + CpuSynthetic + CpuNoise,
                      10 * CFG_CPU_CRITICAL) :
        cpu_load_pct' = Clamp(cpu, 0, 1000)
  /\ UNCHANGED <<scheduleVars, timeLineVars, temperature_c, battery_v, s_temp_drift, s_bat_v,
                 linkVars, leakVars, reportVars>>

PrintsOn(n) == n % 2 = 0

(* After sim_tick: the status line of every second call. *)
Report ==
  /\ SimAt("report", "idle")
  /\ tick_count' = tick_count + 1
  /\ shown' = IF PrintsOn(tick_count') THEN elapsed_s ELSE shown
  /\ UNCHANGED <<scheduleVars, timeLineVars, signalVars, linkVars, leakVars>>

-----------------------------------------------------------------------------
(* vGroundStationTask; sim_heartbeat unless blacked out. *)
Ground ==
  /\ groundDue = 0
  /\ groundDue' = GroundPeriod
  /\ s_last_hb_tick' = IF s_blackout THEN s_last_hb_tick ELSE clock
  /\ UNCHANGED <<clock, simDue, at, timeLineVars, signalVars, comm_gap, s_blackout, simNow,
                 leakVars, reportVars>>

(* Steps since the release of vSimulatorTask, while it is in its loop. *)
Late == SimPeriod - simDue

(* 100 ms pass: the ground station is never late, the simulator a little. *)
Tick ==
  /\ groundDue # 0
  /\ IF at = "idle" THEN simDue # 0 ELSE Late < MaxLate
  /\ clock' = clock + 1
  /\ simDue' = simDue - 1
  /\ groundDue' = groundDue - 1
  /\ UNCHANGED <<at, timeLineVars, signalVars, linkVars, leakVars, reportVars>>

SimStep ==
  \/ TimeLine \/ SampleSignals \/ SetBlackout \/ ReadClock \/ StoreGap \/ Leak
  \/ SampleLoad \/ Report

(* After sim_sensor_init, when the scheduler starts. *)
SimInit ==
  /\ clock = 0 /\ simDue = 0 /\ groundDue = 0 /\ at = "idle"
  /\ s_tick = 0 /\ elapsed_s = 0 /\ phase = "NOMINAL"
  /\ temperature_c = SIM_TEMP_BASELINE_C /\ battery_v = 10 * SIM_BAT_START
  /\ cpu_load_pct = 200 /\ s_temp_drift = 0 /\ s_bat_v = SIM_BAT_START
  /\ comm_gap = 0 /\ s_blackout = FALSE /\ s_last_hb_tick = 0 /\ simNow = 0
  /\ s_leak_count = 0 /\ s_last_leak_s = 0
  /\ tick_count = 0 /\ shown = -1

SimNext == SimRelease \/ SimStep \/ Ground \/ Tick

SimSpec == SimInit /\ [][SimNext]_simVars

-----------------------------------------------------------------------------
(* Properties. *)

(* The scenario is the announced sequence: no phase is skipped, repeated or left early,   *)
(* although it is chosen afresh from the time in every call.                              *)
PhasesInOrder ==
  [][SimPhase_t[phase'] \in {SimPhase_t[phase], SimPhase_t[phase] + 1}]_simVars

(* The bridge derives the phase from the uptime of the status line: whenever the           *)
(* simulator task is at rest that is the simulator's phase, although the line is printed   *)
(* by every second call only and by a counter of its own.                                  *)
DashboardPhaseAgrees ==
  at = "idle" /\ shown # -1 => PhaseOfUptime(shown) = PHASE_MAP[phase]

(* Leaked blocks come at most one in two seconds and are gone when the leak phases are      *)
(* over, so that the table of 64 pointers is never full.                                    *)
LeaksBounded ==
  /\ 2 * s_leak_count <= SCENARIO_CLEAR - SCENARIO_COMM_END
  /\ at \in {"load", "report", "idle"} /\ ~LeakOn => s_leak_count = 0

(* Before the blackout the link never looks silent for longer than a heartbeat's period,   *)
(* except for one value: a heartbeat between the clock reading and the subtraction makes    *)
(* the unsigned difference wrap around.                                                     *)
Wrapped(gap) == gap >= WRAP - MaxLate
NoAlarmBeforeBlackout ==
  phase \in {"NOMINAL", "THERMAL_SPIKE", "BATTERY_FAULT"} =>
    comm_gap <= GroundPeriod \/ Wrapped(comm_gap)
=============================================================================
