---------------------------- MODULE SensorSimulatorProofs ----------------------------
(* The simulator's invariants for every lateness below its period, every length of the  *)
(* run and every width of the tick count.                                               *)
EXTENDS SensorSimulator, TLAPS

(* sim_tick's counter and the clock: the task has been released once in every period.   *)
ClockInv ==
  /\ clock + simDue = 5 * (s_tick + IF at = "timeline" THEN 1 ELSE 0)
  /\ at = "timeline" => s_tick < Horizon
  /\ at # "idle" => Late <= MaxLate

(* Time and phase change together. *)
TimeLineInv == elapsed_s = s_tick \div 2 /\ phase = PhaseAt(elapsed_s)

(* The counter of the status lines keeps pace with the counter of sim_tick. *)
ShownAfter(n) == IF n < 2 THEN -1 ELSE n \div 2
ReportInv ==
  /\ tick_count + (IF at \in {"idle", "timeline"} THEN 0 ELSE 1) = s_tick
  /\ shown = ShownAfter(tick_count)

(* Leaks are two seconds apart, the first not before the leak phase. *)
LeakInv ==
  /\ s_leak_count > 0 => 2 * (s_leak_count - 1) <= s_last_leak_s - SCENARIO_COMM_END
  /\ s_last_leak_s < SCENARIO_CLEAR
  /\ at \in {"load", "report", "idle"} /\ ~LeakOn => s_leak_count = 0

(* Before the blackout the heartbeat is as old as the ground station's delay, and the   *)
(* clock reading as old as the simulator is late.                                       *)
Early == phase \in {"NOMINAL", "THERMAL_SPIKE", "BATTERY_FAULT"}
LinkInv ==
  /\ s_last_hb_tick <= clock /\ simNow <= clock
  /\ at = "gap" => clock - simNow <= Late
  /\ Early => ~s_blackout /\ clock - s_last_hb_tick <= GroundPeriod - groundDue

SimInv ==
  /\ SimTypeOK
  /\ ClockInv
  /\ TimeLineInv
  /\ ReportInv
  /\ LeakInv
  /\ LinkInv
  /\ NoAlarmBeforeBlackout

-----------------------------------------------------------------------------
(* The time line. *)

LEMMA PhaseAtCases ==
  ASSUME NEW e \in Nat
  PROVE  /\ e < 15 => PhaseAt(e) = "NOMINAL"
         /\ e \in 15 .. 34 => PhaseAt(e) = "THERMAL_SPIKE"
         /\ e \in 35 .. 54 => PhaseAt(e) = "BATTERY_FAULT"
         /\ e \in 55 .. 69 => PhaseAt(e) = "COMM_BLACKOUT"
         /\ e \in 70 .. 89 => PhaseAt(e) = "MEMORY_LEAK"
         /\ e \in 90 .. 109 => PhaseAt(e) = "COMBINED"
         /\ e >= 110 => PhaseAt(e) = "RECOVERY"
<1> USE DEF PhaseAt, SCENARIO_THERMAL_START, SCENARIO_THERMAL_END, SCENARIO_BATTERY_END,
            SCENARIO_COMM_END, SCENARIO_COMBINED_START, SCENARIO_CLEAR
<1>1. e < 15 => PhaseAt(e) = "NOMINAL" OBVIOUS
<1>2. e \in 15 .. 34 => PhaseAt(e) = "THERMAL_SPIKE" OBVIOUS
<1>3. e \in 35 .. 54 => PhaseAt(e) = "BATTERY_FAULT" OBVIOUS
<1>4. e \in 55 .. 69 => PhaseAt(e) = "COMM_BLACKOUT" OBVIOUS
<1>5. e \in 70 .. 89 => PhaseAt(e) = "MEMORY_LEAK" OBVIOUS
<1>6. e \in 90 .. 109 => PhaseAt(e) = "COMBINED" OBVIOUS
<1>7. e >= 110 => PhaseAt(e) = "RECOVERY" OBVIOUS
<1> QED BY <1>1, <1>2, <1>3, <1>4, <1>5, <1>6, <1>7

LEMMA PhaseNamesAre ==
  PhaseNames = {"NOMINAL", "THERMAL_SPIKE", "BATTERY_FAULT", "COMM_BLACKOUT", "MEMORY_LEAK",
                "COMBINED", "RECOVERY"}
  BY DEF PhaseNames, SimPhase_t

LEMMA PhaseAtType ==
  ASSUME NEW e \in Nat
  PROVE  PhaseAt(e) \in PhaseNames
  BY PhaseAtCases, PhaseNamesAre

(* A second later the phase is the same or the next one. *)
LEMMA PhaseAtStep ==
  ASSUME NEW e \in Nat, NEW f \in {e, e + 1}
  PROVE  SimPhase_t[PhaseAt(f)] \in {SimPhase_t[PhaseAt(e)], SimPhase_t[PhaseAt(e)] + 1}
  BY PhaseAtCases, f \in Nat DEF SimPhase_t

LEMMA EarlyIff ==
  ASSUME NEW e \in Nat
  PROVE  PhaseAt(e) \in {"NOMINAL", "THERMAL_SPIKE", "BATTERY_FAULT"} <=> e < 55
  BY PhaseAtCases

LEMMA LeakIff ==
  ASSUME NEW e \in Nat
  PROVE  PhaseAt(e) \in {"MEMORY_LEAK", "COMBINED"} <=> e \in 70 .. 109
  BY PhaseAtCases

(* The bridge's time line is the simulator's. *)
LEMMA TimeLinesAgree ==
  ASSUME NEW e \in Nat
  PROVE  PhaseOfUptime(e) = PHASE_MAP[PhaseAt(e)]
<1>1. CASE e < 15 BY <1>1, PhaseAtCases DEF PhaseOfUptime, PHASE_MAP
<1>2. CASE e \in 15 .. 34 BY <1>2, PhaseAtCases DEF PhaseOfUptime, PHASE_MAP
<1>3. CASE e \in 35 .. 54 BY <1>3, PhaseAtCases DEF PhaseOfUptime, PHASE_MAP
<1>4. CASE e \in 55 .. 69 BY <1>4, PhaseAtCases DEF PhaseOfUptime, PHASE_MAP
<1>5. CASE e \in 70 .. 89 BY <1>5, PhaseAtCases DEF PhaseOfUptime, PHASE_MAP
<1>6. CASE e \in 90 .. 109 BY <1>6, PhaseAtCases DEF PhaseOfUptime, PHASE_MAP
<1>7. CASE e >= 110 BY <1>7, PhaseAtCases DEF PhaseOfUptime, PHASE_MAP
<1> QED BY <1>1, <1>2, <1>3, <1>4, <1>5, <1>6, <1>7
-----------------------------------------------------------------------------
(* The values that noise, ramps and drains produce are integers. *)

LEMMA NoisyType ==
  ASSUME NEW lo \in Int, NEW hi \in Int, NEW limit \in Int
  PROVE  Noisy(lo, hi, limit) \subseteq Int
  BY DEF Noisy, Clamp

LEMMA MeanType ==
  ASSUME NEW drift \in Int, s_tick \in Nat
  PROVE  MeanTemperature(drift) \in Int
<1> DEFINE into == s_tick - 2 * SCENARIO_THERMAL_START
           ramp == IF into < SIM_TEMP_RAMP_TICKS THEN into ELSE SIM_TEMP_RAMP_TICKS
           rise == SIM_TEMP_SPIKE_TARGET - SIM_TEMP_BASELINE_C
<1>1. ramp \in Int /\ rise = 700
  BY DEF SCENARIO_THERMAL_START, SIM_TEMP_RAMP_TICKS, SIM_TEMP_SPIKE_TARGET, SIM_TEMP_BASELINE_C
<1>2. (ramp * rise) \div SIM_TEMP_RAMP_TICKS \in Int
  BY <1>1 DEF SIM_TEMP_RAMP_TICKS
<1>3. SIM_TEMP_BASELINE_C + (ramp * rise) \div SIM_TEMP_RAMP_TICKS \in Int
  BY <1>2 DEF SIM_TEMP_BASELINE_C
<1>4. SIM_TEMP_BASELINE_C + drift + 50 \in Int /\ SIM_TEMP_BASELINE_C + drift \in Int
  BY DEF SIM_TEMP_BASELINE_C
<1> QED BY <1>3, <1>4 DEF MeanTemperature

(* The tick count has not wrapped around when a run of the given length ends. *)
LEMMA ClockBound ==
  ASSUME SimTypeOK, ClockInv
  PROVE  clock < WRAP - 100
  BY SimulatorAssumption DEF SimTypeOK, ClockInv

-----------------------------------------------------------------------------
(* SimInv holds when the scheduler starts, and every step preserves it. *)

LEMMA SimInvInit ==
  ASSUME SimInit
  PROVE  SimInv
<1> USE SimulatorAssumption DEF SimInit
<1>1. SimTypeOK
  <2>1. {temperature_c, battery_v, cpu_load_pct, s_temp_drift, s_bat_v} \subseteq Int
    BY DEF SIM_TEMP_BASELINE_C, SIM_BAT_START
  <2>2. comm_gap \in 0 .. WRAP - 1 /\ s_tick \in 0 .. Horizon
    OBVIOUS
  <2>3. phase \in PhaseNames /\ at \in SimParts /\ s_leak_count \in 0 .. MAX_LEAK_PTRS
    BY PhaseNamesAre DEF SimParts, MAX_LEAK_PTRS
  <2>4. simDue \in 0 .. SimPeriod /\ groundDue \in 0 .. GroundPeriod
    BY DEF SimPeriod, GroundPeriod
  <2> QED BY <2>1, <2>2, <2>3, <2>4 DEF SimTypeOK
<1>2. ClockInv BY DEF ClockInv
<1>3. TimeLineInv BY PhaseAtCases DEF TimeLineInv
<1>4. ReportInv BY DEF ReportInv, ShownAfter
<1>5. LeakInv BY DEF LeakInv, SCENARIO_CLEAR
<1>6. LinkInv BY DEF LinkInv, GroundPeriod
<1>7. NoAlarmBeforeBlackout BY DEF NoAlarmBeforeBlackout, GroundPeriod
<1> QED BY <1>1, <1>2, <1>3, <1>4, <1>5, <1>6, <1>7 DEF SimInv

LEMMA SimReleasePreserves ==
  ASSUME SimInv, SimRelease
  PROVE  SimInv'
<1> USE SimulatorAssumption DEF SimInv, SimRelease, SimAt, scheduleVars, timeLineVars, signalVars,
        linkVars, leakVars, reportVars
<1>1. SimTypeOK'
  BY DEF SimTypeOK, SimPeriod, GroundPeriod, SimParts
<1>2. ClockInv'
  BY DEF SimTypeOK, ClockInv, Late, SimPeriod
<1>3. TimeLineInv'
  BY DEF TimeLineInv
<1>4. ReportInv'
  BY DEF SimTypeOK, ReportInv
<1>5. LeakInv'
  BY DEF LeakInv, LeakOn
<1>6. LinkInv'
  BY DEF SimTypeOK, LinkInv, Early, Late, SimPeriod
<1>7. NoAlarmBeforeBlackout'
  BY DEF NoAlarmBeforeBlackout, Wrapped
<1> QED BY <1>1, <1>2, <1>3, <1>4, <1>5, <1>6, <1>7

LEMMA TimeLinePreserves ==
  ASSUME SimInv, TimeLine
  PROVE  SimInv'
<1> USE SimulatorAssumption DEF SimInv, TimeLine, SimAt, scheduleVars, timeLineVars, signalVars,
        linkVars, leakVars, reportVars
<1>0. elapsed_s' \in Nat /\ elapsed_s' \in {elapsed_s, elapsed_s + 1}
  BY DEF SimTypeOK, TimeLineInv
<1>1. SimTypeOK'
  <2>1. s_tick' \in 0 .. Horizon /\ elapsed_s' \in Nat
    BY DEF SimTypeOK, ClockInv
  <2>2. phase' \in PhaseNames
    BY <2>1, PhaseAtType
  <2> QED BY <2>1, <2>2 DEF SimTypeOK, SimParts
<1>2. ClockInv'
  BY DEF SimTypeOK, ClockInv, Late, SimPeriod
<1>3. TimeLineInv'
  BY DEF TimeLineInv
<1>4. ReportInv'
  BY DEF SimTypeOK, ReportInv
<1>5. LeakInv'
  BY <1>0 DEF LeakInv, LeakOn
<1>6. LinkInv'
  <2>1. Early' => Early
    BY <1>0, EarlyIff, EarlyIff DEF SimTypeOK, TimeLineInv, Early
  <2> QED BY <2>1 DEF LinkInv
<1>7. NoAlarmBeforeBlackout'
  <2>1. Early' => Early
    BY <1>0, EarlyIff DEF SimTypeOK, TimeLineInv, Early
  <2> QED BY <2>1 DEF NoAlarmBeforeBlackout, Wrapped, Early
<1> QED BY <1>1, <1>2, <1>3, <1>4, <1>5, <1>6, <1>7

LEMMA SampleSignalsPreserves ==
  ASSUME SimInv, SampleSignals
  PROVE  SimInv'
<1> USE SimulatorAssumption DEF SimInv, SampleSignals, SimAt, scheduleVars, timeLineVars, signalVars,
        linkVars, leakVars, reportVars
<1>1. SimTypeOK'
  <2> DEFINE drift == s_temp_drift + (IF s_tick % 10 = 0 THEN SIM_TEMP_DRIFT_PER_10 ELSE 0)
             mean  == MeanTemperature(drift)
  <2>1. drift \in Int /\ mean \in Int
    <3>1. drift \in Int BY DEF SimTypeOK, SIM_TEMP_DRIFT_PER_10
    <3> HIDE DEF drift
    <3> QED BY <3>1, MeanType DEF SimTypeOK
  <2> HIDE DEF mean
  <2>2. Noisy(mean - TempNoise, mean + TempNoise, 10 * CFG_TEMP_CRITICAL) \subseteq Int
    BY <2>1, NoisyType DEF TempNoise, CFG_TEMP_CRITICAL
  <2>3. temperature_c' \in Int /\ s_temp_drift' \in Int
    BY <2>1, <2>2 DEF mean
  <2>4. s_bat_v' \in Int
    BY DEF SimTypeOK, Clamp, Drain, SIM_BAT_DRAIN_FAULT, SIM_BAT_CHARGE, SIM_BAT_DRAIN_NORMAL,
           SIM_BAT_EMPTY, SIM_BAT_START
  <2>5. battery_v' \in Int
    BY <2>4
  <2> QED BY <2>3, <2>4, <2>5 DEF SimTypeOK, SimParts
<1>2. ClockInv'
  BY DEF SimTypeOK, ClockInv, Late, SimPeriod
<1>3. TimeLineInv'
  BY DEF TimeLineInv
<1>4. ReportInv'
  BY DEF SimTypeOK, ReportInv
<1>5. LeakInv'
  BY DEF LeakInv, LeakOn
<1>6. LinkInv'
  BY DEF SimTypeOK, LinkInv, Early, Late, SimPeriod
<1>7. NoAlarmBeforeBlackout'
  BY DEF NoAlarmBeforeBlackout, Wrapped
<1> QED BY <1>1, <1>2, <1>3, <1>4, <1>5, <1>6, <1>7

LEMMA SetBlackoutPreserves ==
  ASSUME SimInv, SetBlackout
  PROVE  SimInv'
<1> USE SimulatorAssumption DEF SimInv, SetBlackout, SimAt, scheduleVars, timeLineVars, signalVars,
        linkVars, leakVars, reportVars
<1>1. SimTypeOK'
  BY DEF SimTypeOK, SimPeriod, GroundPeriod, SimParts
<1>2. ClockInv'
  BY DEF SimTypeOK, ClockInv, Late, SimPeriod
<1>3. TimeLineInv'
  BY DEF TimeLineInv
<1>4. ReportInv'
  BY DEF SimTypeOK, ReportInv
<1>5. LeakInv'
  BY DEF LeakInv, LeakOn
<1>6. LinkInv'
  BY DEF SimTypeOK, LinkInv, Early
<1>7. NoAlarmBeforeBlackout'
  BY DEF NoAlarmBeforeBlackout, Wrapped
<1> QED BY <1>1, <1>2, <1>3, <1>4, <1>5, <1>6, <1>7

LEMMA ReadClockPreserves ==
  ASSUME SimInv, ReadClock
  PROVE  SimInv'
<1> USE SimulatorAssumption DEF SimInv, ReadClock, SimAt, scheduleVars, timeLineVars, signalVars,
        linkVars, leakVars, reportVars
<1>1. SimTypeOK'
  BY DEF SimTypeOK, SimPeriod, GroundPeriod, SimParts
<1>2. ClockInv'
  BY DEF SimTypeOK, ClockInv, Late, SimPeriod
<1>3. TimeLineInv'
  BY DEF TimeLineInv
<1>4. ReportInv'
  BY DEF SimTypeOK, ReportInv
<1>5. LeakInv'
  BY DEF LeakInv, LeakOn
<1>6. LinkInv'
  BY DEF SimTypeOK, LinkInv, Early, Late, SimPeriod
<1>7. NoAlarmBeforeBlackout'
  BY DEF NoAlarmBeforeBlackout, Wrapped
<1> QED BY <1>1, <1>2, <1>3, <1>4, <1>5, <1>6, <1>7

LEMMA StoreGapPreserves ==
  ASSUME SimInv, StoreGap
  PROVE  SimInv'
<1> USE SimulatorAssumption DEF SimInv, StoreGap, SimAt, scheduleVars, timeLineVars, signalVars,
        linkVars, leakVars, reportVars
<1>0. clock < WRAP /\ clock \in Nat /\ WRAP \in Nat
  BY ClockBound DEF SimTypeOK
<1>1. SimTypeOK'
  BY <1>0 DEF SimTypeOK, LinkInv, TickDiff, SimParts
<1>2. ClockInv'
  BY DEF SimTypeOK, ClockInv, Late, SimPeriod
<1>3. TimeLineInv'
  BY DEF TimeLineInv
<1>4. ReportInv'
  BY DEF SimTypeOK, ReportInv
<1>5. LeakInv'
  BY DEF LeakInv, LeakOn
<1>6. LinkInv'
  BY DEF SimTypeOK, LinkInv, Early, Late, SimPeriod
<1>7. NoAlarmBeforeBlackout'
  <2> SUFFICES ASSUME Early PROVE comm_gap' <= GroundPeriod \/ Wrapped(comm_gap')
    BY DEF NoAlarmBeforeBlackout, Early, Wrapped
  <2>1. clock - s_last_hb_tick <= GroundPeriod /\ clock - simNow <= MaxLate
    BY DEF SimTypeOK, LinkInv, ClockInv, GroundPeriod, Late, SimPeriod
  <2>2. CASE simNow >= s_last_hb_tick
    BY <2>1, <2>2 DEF SimTypeOK, LinkInv, TickDiff, GroundPeriod
  <2>3. CASE ~(simNow >= s_last_hb_tick)
    BY <1>0, <2>1, <2>3 DEF SimTypeOK, LinkInv, TickDiff, Wrapped
  <2> QED BY <2>2, <2>3
<1> QED BY <1>1, <1>2, <1>3, <1>4, <1>5, <1>6, <1>7

LEMMA LeakPreserves ==
  ASSUME SimInv, Leak
  PROVE  SimInv'
<1> USE SimulatorAssumption DEF SimInv, Leak, SimAt, scheduleVars, timeLineVars, signalVars,
        linkVars, leakVars, reportVars
<1>0. LeakOn => elapsed_s \in SCENARIO_COMM_END .. SCENARIO_CLEAR - 1
  BY LeakIff DEF SimTypeOK, TimeLineInv, LeakOn, SCENARIO_COMM_END, SCENARIO_CLEAR
<1>1. SimTypeOK'
  <2>1. s_leak_count' \in 0 .. MAX_LEAK_PTRS /\ s_last_leak_s' \in Nat
    BY DEF SimTypeOK, DoLeak, FreeLeaks, KeepLeaks, MAX_LEAK_PTRS
  <2> QED BY <2>1 DEF SimTypeOK, SimParts
<1>2. ClockInv'
  BY DEF SimTypeOK, ClockInv, Late, SimPeriod
<1>3. TimeLineInv'
  BY DEF TimeLineInv
<1>4. ReportInv'
  BY DEF SimTypeOK, ReportInv
<1>5. LeakInv'
  <2> USE DEF SimTypeOK, LeakInv, LeakOn
  <2>1. CASE DoLeak
    BY <1>0, <2>1 DEF DoLeak, SIM_LEAK_PERIOD_S, SCENARIO_COMM_END, SCENARIO_CLEAR, MAX_LEAK_PTRS
  <2>2. CASE FreeLeaks
    BY <2>2 DEF FreeLeaks, SCENARIO_CLEAR
  <2>3. CASE KeepLeaks
    BY <2>3 DEF KeepLeaks
  <2> QED BY <2>1, <2>2, <2>3
<1>6. LinkInv'
  BY DEF SimTypeOK, LinkInv, Early, Late, SimPeriod
<1>7. NoAlarmBeforeBlackout'
  BY DEF NoAlarmBeforeBlackout, Wrapped
<1> QED BY <1>1, <1>2, <1>3, <1>4, <1>5, <1>6, <1>7

LEMMA SampleLoadPreserves ==
  ASSUME SimInv, SampleLoad
  PROVE  SimInv'
<1> USE SimulatorAssumption DEF SimInv, SampleLoad, SimAt, scheduleVars, timeLineVars, signalVars,
        linkVars, leakVars, reportVars
<1>1. SimTypeOK'
  <2>1. CpuSynthetic \in Int
    BY DEF CpuSynthetic, SIM_CPU_STORM_OFFSET
  <2>2. Noisy(100 + CpuSynthetic - CpuNoise, 350 + CpuSynthetic + CpuNoise, 10 * CFG_CPU_CRITICAL)
          \subseteq Int
    BY <2>1, NoisyType DEF CpuNoise, CFG_CPU_CRITICAL
  <2>3. cpu_load_pct' \in Int
    BY <2>2 DEF Clamp
  <2> QED BY <2>3 DEF SimTypeOK, SimParts
<1>2. ClockInv'
  BY DEF SimTypeOK, ClockInv, Late, SimPeriod
<1>3. TimeLineInv'
  BY DEF TimeLineInv
<1>4. ReportInv'
  BY DEF SimTypeOK, ReportInv
<1>5. LeakInv'
  BY DEF LeakInv, LeakOn
<1>6. LinkInv'
  BY DEF SimTypeOK, LinkInv, Early, Late, SimPeriod
<1>7. NoAlarmBeforeBlackout'
  BY DEF NoAlarmBeforeBlackout, Wrapped
<1> QED BY <1>1, <1>2, <1>3, <1>4, <1>5, <1>6, <1>7

LEMMA ReportPreserves ==
  ASSUME SimInv, Report
  PROVE  SimInv'
<1> USE SimulatorAssumption DEF SimInv, Report, SimAt, scheduleVars, timeLineVars, signalVars,
        linkVars, leakVars, reportVars
<1>0. tick_count \in Nat /\ tick_count' = tick_count + 1 /\ tick_count' = s_tick
  BY DEF SimTypeOK, ReportInv
<1>1. SimTypeOK'
  BY <1>0 DEF SimTypeOK, SimParts
<1>2. ClockInv'
  BY DEF SimTypeOK, ClockInv, Late, SimPeriod
<1>3. TimeLineInv'
  BY DEF TimeLineInv
<1>4. ReportInv'
  <2>1. CASE tick_count' % 2 = 0
    BY <1>0, <2>1 DEF SimTypeOK, ReportInv, TimeLineInv, ShownAfter, PrintsOn
  <2>2. CASE tick_count' % 2 # 0
    BY <1>0, <2>2 DEF SimTypeOK, ReportInv, ShownAfter, PrintsOn
  <2> QED BY <2>1, <2>2
<1>5. LeakInv'
  BY DEF LeakInv, LeakOn
<1>6. LinkInv'
  BY DEF SimTypeOK, LinkInv, Early, Late, SimPeriod
<1>7. NoAlarmBeforeBlackout'
  BY DEF NoAlarmBeforeBlackout, Wrapped
<1> QED BY <1>1, <1>2, <1>3, <1>4, <1>5, <1>6, <1>7

LEMMA GroundPreserves ==
  ASSUME SimInv, Ground
  PROVE  SimInv'
<1> USE SimulatorAssumption DEF SimInv, Ground, scheduleVars, timeLineVars, signalVars,
        linkVars, leakVars, reportVars
<1>1. SimTypeOK'
  BY DEF SimTypeOK, SimPeriod, GroundPeriod, SimParts
<1>2. ClockInv'
  BY DEF SimTypeOK, ClockInv, Late, SimPeriod
<1>3. TimeLineInv'
  BY DEF TimeLineInv
<1>4. ReportInv'
  BY DEF SimTypeOK, ReportInv
<1>5. LeakInv'
  BY DEF LeakInv, LeakOn
<1>6. LinkInv'
  BY DEF SimTypeOK, LinkInv, Early, Late, SimPeriod, GroundPeriod
<1>7. NoAlarmBeforeBlackout'
  BY DEF NoAlarmBeforeBlackout, Wrapped
<1> QED BY <1>1, <1>2, <1>3, <1>4, <1>5, <1>6, <1>7

LEMMA TickPreserves ==
  ASSUME SimInv, Tick
  PROVE  SimInv'
<1> USE SimulatorAssumption DEF SimInv, Tick, scheduleVars, timeLineVars, signalVars,
        linkVars, leakVars, reportVars
<1>1. SimTypeOK'
  BY DEF SimTypeOK, SimPeriod, GroundPeriod, SimParts, Late
<1>2. ClockInv'
  BY DEF SimTypeOK, ClockInv, Late, SimPeriod
<1>3. TimeLineInv'
  BY DEF TimeLineInv
<1>4. ReportInv'
  BY DEF SimTypeOK, ReportInv
<1>5. LeakInv'
  BY DEF LeakInv, LeakOn
<1>6. LinkInv'
  BY DEF SimTypeOK, LinkInv, Early, Late, SimPeriod, GroundPeriod
<1>7. NoAlarmBeforeBlackout'
  BY DEF NoAlarmBeforeBlackout, Wrapped
<1> QED BY <1>1, <1>2, <1>3, <1>4, <1>5, <1>6, <1>7

-----------------------------------------------------------------------------
(* The invariant of every run. *)

LEMMA SimInvStep ==
  ASSUME SimInv, [SimNext]_simVars
  PROVE  SimInv'
<1>1. CASE UNCHANGED simVars
  BY <1>1 DEF SimInv, simVars, scheduleVars, timeLineVars, signalVars, linkVars, leakVars,
     reportVars, SimTypeOK, ClockInv, TimeLineInv, ReportInv, LeakInv, LinkInv, Early, LeakOn,
     Late, NoAlarmBeforeBlackout, Wrapped
<1>2. CASE SimNext
  BY <1>2, SimReleasePreserves, TimeLinePreserves, SampleSignalsPreserves,
     SetBlackoutPreserves, ReadClockPreserves, StoreGapPreserves, LeakPreserves,
     SampleLoadPreserves, ReportPreserves, GroundPreserves, TickPreserves DEF SimNext, SimStep
<1> QED BY <1>1, <1>2

THEOREM SimInvHolds == SimSpec => []SimInv
<1>1. SimInit => SimInv BY SimInvInit
<1>2. SimInv /\ [SimNext]_simVars => SimInv' BY SimInvStep
<1> QED BY <1>1, <1>2, PTL DEF SimSpec

-----------------------------------------------------------------------------
(* The signals by the call of sim_tick that they are from. *)

(* Temperature and battery, and the load, are from this call of sim_tick. *)
Sampled == IF at = "signals" THEN s_tick - 1 ELSE s_tick
Loaded  == IF at \in {"idle", "timeline", "report"} THEN s_tick ELSE s_tick - 1

(* The drift grows by three in ten calls and in the recovery falls by one in each.  No    *)
(* noise makes the temperature critical in the first eleven calls of the ramp, or hides   *)
(* the spike when the ramp is complete.                                                    *)
TemperatureInv ==
  /\ s_temp_drift >= 0
  /\ Sampled < 220 => s_temp_drift <= 3 * (Sampled \div 10)
  /\ Sampled >= 220 => s_temp_drift + (Sampled % 10) <= 75
  /\ Sampled <= 41 => temperature_c <= 800
  /\ Sampled \in 46 .. 69 => temperature_c >= 821
  /\ Sampled >= 70 => temperature_c <= 500

(* When the blackout ends the battery is still two millivolts above its limit. *)
BatteryInv ==
  /\ Sampled <= 69 => s_bat_v = 4100 - 2 * Sampled
  /\ Sampled \in 70 .. 109 => s_bat_v = 3962 - 15 * (Sampled - 69)
  /\ Sampled \in 110 .. 139 => s_bat_v = 3362 - 2 * (Sampled - 109)
  /\ Sampled <= 139 => battery_v = 10 * s_bat_v

LoadInv == Loaded < 180 => cpu_load_pct <= 800

(* After the blackout the next heartbeat counts again; the last one that did not was at   *)
(* 699 at the latest.                                                                      *)
LinkBackInv ==
  /\ s_tick > 140 \/ (s_tick = 140 /\ at \notin {"signals", "blackout"}) =>
       /\ ~s_blackout
       /\ clock - s_last_hb_tick <= GroundPeriod - groundDue \/ clock + groundDue <= 707
  /\ s_tick > 150 \/ (s_tick = 150 /\ at \notin {"signals", "blackout", "readClock", "gap"}) =>
       comm_gap <= GroundPeriod \/ Wrapped(comm_gap)

SignalInv == TemperatureInv /\ BatteryInv /\ LoadInv /\ LinkBackInv

LEMMA PhaseOfTick ==
  ASSUME SimInv
  PROVE  /\ s_tick \in Nat
         /\ s_tick < 30 <=> phase = "NOMINAL"
         /\ s_tick \in 30 .. 69 <=> phase = "THERMAL_SPIKE"
         /\ s_tick \in 70 .. 109 <=> phase = "BATTERY_FAULT"
         /\ s_tick \in 110 .. 139 <=> phase = "COMM_BLACKOUT"
         /\ s_tick \in 140 .. 179 <=> phase = "MEMORY_LEAK"
         /\ s_tick \in 180 .. 219 <=> phase = "COMBINED"
         /\ s_tick >= 220 <=> phase = "RECOVERY"
<1> DEFINE e == s_tick \div 2
<1>1. s_tick \in Nat /\ e \in Nat /\ phase = PhaseAt(e) /\ (s_tick = 2 * e \/ s_tick = 2 * e + 1)
  BY SimulatorAssumption DEF SimInv, SimTypeOK, TimeLineInv
<1> HIDE DEF e
<1>2. \/ e < 15 /\ s_tick < 30 /\ phase = "NOMINAL"
      \/ e \in 15 .. 34 /\ s_tick \in 30 .. 69 /\ phase = "THERMAL_SPIKE"
      \/ e \in 35 .. 54 /\ s_tick \in 70 .. 109 /\ phase = "BATTERY_FAULT"
      \/ e \in 55 .. 69 /\ s_tick \in 110 .. 139 /\ phase = "COMM_BLACKOUT"
      \/ e \in 70 .. 89 /\ s_tick \in 140 .. 179 /\ phase = "MEMORY_LEAK"
      \/ e \in 90 .. 109 /\ s_tick \in 180 .. 219 /\ phase = "COMBINED"
      \/ e >= 110 /\ s_tick >= 220 /\ phase = "RECOVERY"
  BY <1>1, PhaseAtCases
<1> QED BY <1>1, <1>2

LEMMA NoisyRange ==
  ASSUME NEW lo \in Int, NEW hi \in Int, NEW limit \in Int, lo <= hi, NEW x \in Noisy(lo, hi, limit)
  PROVE  x \in lo .. hi
  BY DEF Noisy, Clamp

(* The mean of the temperature by call. *)
LEMMA MeanByTick ==
  ASSUME SimInv, NEW drift \in Nat
  PROVE  /\ MeanTemperature(drift) \in Int
         /\ s_tick < 30 => MeanTemperature(drift) = 220 + drift
         /\ s_tick \in 30 .. 41 => MeanTemperature(drift) <= 701
         /\ s_tick \in 46 .. 69 => MeanTemperature(drift) = 920
         /\ s_tick >= 70 => MeanTemperature(drift) <= 270 + drift
<1> DEFINE into == s_tick - 30
           ramp == IF into < 16 THEN into ELSE 16
<1>1. s_tick \in Nat
  BY PhaseOfTick
<1>2. MeanTemperature(drift) = CASE phase = "THERMAL_SPIKE" -> 220 + (ramp * 700) \div 16
                                 [] phase = "COMBINED" -> 220 + drift + 50
                                 [] OTHER -> 220 + drift
  BY DEF MeanTemperature, SCENARIO_THERMAL_START, SIM_TEMP_RAMP_TICKS, SIM_TEMP_SPIKE_TARGET,
         SIM_TEMP_BASELINE_C
<1>3. CASE s_tick < 30
  BY <1>1, <1>2, <1>3, PhaseOfTick
<1>4. CASE s_tick \in 30 .. 69
  <2>1. MeanTemperature(drift) = 220 + (ramp * 700) \div 16
    BY <1>2, <1>4, PhaseOfTick
  <2>2. ramp \in 0 .. 16 /\ (s_tick <= 41 => ramp <= 11) /\ (s_tick >= 46 => ramp = 16)
    BY <1>1, <1>4
  <2> HIDE DEF ramp
  <2>3. \A r \in 0 .. 11 : (r * 700) \div 16 <= 481
    OBVIOUS
  <2>4. (16 * 700) \div 16 = 700 /\ (ramp * 700) \div 16 \in Int
    BY <2>2
  <2> QED BY <1>4, <2>1, <2>2, <2>3, <2>4
<1>5. CASE s_tick >= 70
  <2>1. phase # "THERMAL_SPIKE"
    BY <1>1, <1>5, PhaseOfTick
  <2> QED BY <1>1, <1>2, <1>5, <2>1
<1> QED BY <1>1, <1>3, <1>4, <1>5

LEMMA TemperatureSampled ==
  ASSUME SimInv, TemperatureInv, SampleSignals
  PROVE  TemperatureInv'
<1> DEFINE n == s_tick
           drift == s_temp_drift + (IF n % 10 = 0 THEN 3 ELSE 0)
           mean == MeanTemperature(drift)
<1>1. n \in Nat /\ n >= 1 /\ Sampled = n - 1 /\ Sampled' = n /\ s_temp_drift \in Int
  BY PhaseOfTick, SimulatorAssumption
  DEF SimInv, SimTypeOK, ReportInv, SampleSignals, SimAt, Sampled, timeLineVars
<1>2. /\ temperature_c' \in Noisy(mean - 99, mean + 99, 800)
      /\ s_temp_drift' = IF phase = "RECOVERY" /\ drift > 0 THEN drift - 1 ELSE drift
  BY DEF SampleSignals, TempNoise, CFG_TEMP_CRITICAL, SIM_TEMP_DRIFT_PER_10
<1>3. phase = "RECOVERY" <=> n >= 220
  BY PhaseOfTick
<1>4. /\ s_temp_drift >= 0
      /\ n - 1 < 220 => s_temp_drift <= 3 * ((n - 1) \div 10)
      /\ n - 1 >= 220 => s_temp_drift + ((n - 1) % 10) <= 75
  BY <1>1 DEF TemperatureInv
<1>5. /\ drift \in Nat /\ drift <= 80
      /\ n < 220 => drift <= 3 * (n \div 10)
      /\ n >= 220 => (IF drift > 0 THEN drift - 1 ELSE drift) + (n % 10) <= 75
  BY <1>1, <1>4
<1> HIDE DEF drift
<1>6. mean \in Int /\ temperature_c' \in mean - 99 .. mean + 99
  BY <1>2, <1>5, MeanByTick, NoisyRange
<1>7. /\ n < 30 => mean = 220 + drift
      /\ n \in 30 .. 41 => mean <= 701
      /\ n \in 46 .. 69 => mean = 920
      /\ n >= 70 => mean <= 270 + drift
  BY <1>5, MeanByTick
<1> HIDE DEF mean, n
<1> QED BY <1>1, <1>2, <1>3, <1>5, <1>6, <1>7 DEF TemperatureInv

LEMMA BatterySampled ==
  ASSUME SimInv, BatteryInv, SampleSignals
  PROVE  BatteryInv'
<1> DEFINE n == s_tick
<1>1. n \in Nat /\ n >= 1 /\ Sampled = n - 1 /\ Sampled' = n /\ s_bat_v \in Int
  BY PhaseOfTick, SimulatorAssumption
  DEF SimInv, SimTypeOK, ReportInv, SampleSignals, SimAt, Sampled, timeLineVars
<1>2. /\ s_bat_v' = Clamp(s_bat_v - Drain, 2500, 4100)
      /\ s_bat_v' # 3300 => battery_v' = 10 * s_bat_v'
  BY DEF SampleSignals, SIM_BAT_EMPTY, SIM_BAT_START, CFG_BAT_CRITICAL_MV
<1>3. n <= 139 => Drain = IF n \in 70 .. 109 THEN 15 ELSE 2
  BY <1>1, PhaseOfTick DEF Drain, SIM_BAT_DRAIN_FAULT, SIM_BAT_DRAIN_NORMAL
<1> HIDE DEF n
<1>4. ASSUME n <= 139
      PROVE  /\ n <= 69 => s_bat_v' = 4100 - 2 * n
             /\ n \in 70 .. 109 => s_bat_v' = 3962 - 15 * (n - 69)
             /\ n \in 110 .. 139 => s_bat_v' = 3362 - 2 * (n - 109)
  BY <1>1, <1>2, <1>3, <1>4 DEF BatteryInv, Clamp
<1>5. n <= 139 => s_bat_v' > 3300
  BY <1>1, <1>4
<1> QED BY <1>1, <1>2, <1>4, <1>5 DEF BatteryInv

LEMMA LoadSampled ==
  ASSUME SimInv, LoadInv, SampleLoad
  PROVE  LoadInv'
<1>1. s_tick \in Nat /\ Loaded' = s_tick
  BY PhaseOfTick DEF SampleLoad, SimAt, Loaded, timeLineVars
<1>2. s_tick < 180 => CpuSynthetic \in {0, 80, 100}
  BY <1>1, PhaseOfTick DEF CpuSynthetic
<1>3. ASSUME s_tick < 180 PROVE cpu_load_pct' <= 800
  <2>1. PICK cpu \in Noisy(100 + CpuSynthetic - 132, 350 + CpuSynthetic + 132, 800) :
                 cpu_load_pct' = Clamp(cpu, 0, 1000)
    BY DEF SampleLoad, CpuNoise, CFG_CPU_CRITICAL
  <2>2. /\ 100 + CpuSynthetic - 132 \in Int /\ 350 + CpuSynthetic + 132 \in Int
        /\ 100 + CpuSynthetic - 132 <= 350 + CpuSynthetic + 132
        /\ 350 + CpuSynthetic + 132 <= 800
    BY <1>2, <1>3
  <2>3. cpu \in 100 + CpuSynthetic - 132 .. 350 + CpuSynthetic + 132
    BY <2>1, <2>2, NoisyRange
  <2> QED BY <2>1, <2>2, <2>3 DEF Clamp
<1> QED BY <1>1, <1>3 DEF LoadInv

LEMMA LinkBackStep ==
  ASSUME SimInv, SimInv', LinkBackInv, SimNext
  PROVE  LinkBackInv'
<1>0. /\ s_tick \in Nat /\ clock \in Nat /\ simDue \in 0 .. 5 /\ groundDue \in 0 .. 8
      /\ s_last_hb_tick \in Nat /\ simNow \in Nat /\ MaxLate \in Nat /\ MaxLate < 5
      /\ clock + simDue = 5 * (s_tick + IF at = "timeline" THEN 1 ELSE 0)
      /\ at # "idle" => 5 - simDue <= MaxLate
      /\ s_last_hb_tick <= clock /\ simNow <= clock /\ (at = "gap" => clock - simNow <= MaxLate)
      /\ clock < WRAP /\ WRAP \in Nat
  BY PhaseOfTick, ClockBound, SimulatorAssumption
  DEF SimInv, SimTypeOK, ClockInv, LinkInv, Late, SimPeriod, GroundPeriod
<1> USE DEF scheduleVars, timeLineVars, signalVars, linkVars, leakVars, reportVars, SimAt
<1>1. CASE SimRelease
  BY <1>0, <1>1 DEF SimRelease, LinkBackInv, Wrapped
<1>2. CASE TimeLine
  BY <1>0, <1>2 DEF TimeLine, LinkBackInv, Wrapped
<1>3. CASE SampleSignals
  BY <1>0, <1>3 DEF SampleSignals, LinkBackInv, Wrapped
<1>4. CASE SetBlackout
  <2>1. s_tick >= 140 => phase # "COMM_BLACKOUT"
    BY <1>0, PhaseOfTick
  <2>2. s_tick = 140 => clock + groundDue <= 707
    BY <1>0, <1>4 DEF SetBlackout
  <2>3. s_tick >= 140 => ~s_blackout'
    BY <1>4, <2>1, Zenon DEF SetBlackout
  <2>4. at = "blackout" /\ UNCHANGED <<s_tick, clock, groundDue, s_last_hb_tick, comm_gap>>
        /\ at' = "readClock"
    BY <1>4 DEF SetBlackout
  <2>5. s_tick' >= 140 => ~s_blackout' /\
          (clock' - s_last_hb_tick' <= GroundPeriod - groundDue' \/ clock' + groundDue' <= 707)
    BY <1>0, <2>2, <2>3, <2>4 DEF LinkBackInv
  <2>6. s_tick' > 150 => comm_gap' <= GroundPeriod \/ Wrapped(comm_gap')
    BY <1>0, <2>4 DEF LinkBackInv, Wrapped
  <2> QED BY <1>0, <2>4, <2>5, <2>6 DEF LinkBackInv, Wrapped
<1>5. CASE ReadClock
  BY <1>0, <1>5 DEF ReadClock, LinkBackInv, Wrapped
<1>6. CASE StoreGap
  <2>1. s_tick >= 150 => comm_gap' <= GroundPeriod \/ Wrapped(comm_gap')
    <3> SUFFICES ASSUME s_tick >= 150 PROVE comm_gap' <= GroundPeriod \/ Wrapped(comm_gap')
      OBVIOUS
    <3>1. clock - s_last_hb_tick <= 8 /\ clock - simNow <= MaxLate
      BY <1>0, <1>6 DEF StoreGap, LinkBackInv, GroundPeriod
    <3>2. comm_gap' = TickDiff(simNow, s_last_hb_tick)
      BY <1>6 DEF StoreGap
    <3>3. CASE simNow >= s_last_hb_tick
      BY <1>0, <3>1, <3>2, <3>3 DEF TickDiff, GroundPeriod
    <3>4. CASE ~(simNow >= s_last_hb_tick)
      BY <1>0, <3>1, <3>2, <3>4 DEF TickDiff, Wrapped
    <3> QED BY <3>3, <3>4
  <2> QED BY <1>0, <1>6, <2>1 DEF StoreGap, LinkBackInv, GroundPeriod
<1>7. CASE Leak
  BY <1>0, <1>7 DEF Leak, LinkBackInv, Wrapped
<1>8. CASE SampleLoad
  BY <1>0, <1>8 DEF SampleLoad, LinkBackInv, Wrapped
<1>9. CASE Report
  BY <1>0, <1>9 DEF Report, LinkBackInv, Wrapped
<1>10. CASE Ground
  BY <1>0, <1>10 DEF Ground, LinkBackInv, Wrapped, GroundPeriod
<1>11. CASE Tick
  BY <1>0, <1>11 DEF Tick, LinkBackInv, Wrapped, GroundPeriod
<1> QED BY <1>1, <1>2, <1>3, <1>4, <1>5, <1>6, <1>7, <1>8, <1>9, <1>10, <1>11 DEF SimNext, SimStep

(* Every other step leaves a signal and the number of its call alone. *)
LEMMA SamplesApart ==
  ASSUME SimTypeOK, SimNext
  PROVE  /\ ~SampleSignals =>
              /\ Sampled' = Sampled
              /\ UNCHANGED <<temperature_c, battery_v, s_temp_drift, s_bat_v>>
         /\ ~SampleLoad => Loaded' = Loaded /\ cpu_load_pct' = cpu_load_pct
<1>1. s_tick \in Nat
  BY SimulatorAssumption DEF SimTypeOK
<1> QED
  BY <1>1 DEF SimNext, SimStep, SimRelease, TimeLine, SampleSignals, SetBlackout, ReadClock, StoreGap,
     Leak, SampleLoad, Report, Ground, Tick, SimAt, Sampled, Loaded, scheduleVars, timeLineVars,
     signalVars, linkVars, leakVars, reportVars

LEMMA SignalInvInit ==
  ASSUME SimInit
  PROVE  SignalInv
<1>1. Sampled = 0 /\ Loaded = 0 /\ s_tick = 0
  BY DEF SimInit, Sampled, Loaded
<1>2. TemperatureInv /\ BatteryInv /\ LoadInv
  BY <1>1 DEF SimInit, TemperatureInv, BatteryInv, LoadInv, SIM_TEMP_BASELINE_C, SIM_BAT_START
<1>3. LinkBackInv
  BY <1>1 DEF LinkBackInv
<1> QED BY <1>2, <1>3 DEF SignalInv

LEMMA SignalInvStep ==
  ASSUME SimInv, SimInv', SignalInv, [SimNext]_simVars
  PROVE  SignalInv'
<1>1. CASE UNCHANGED simVars
  BY <1>1 DEF SignalInv, TemperatureInv, BatteryInv, LoadInv, LinkBackInv, Wrapped, Sampled, Loaded,
     simVars, scheduleVars, timeLineVars, signalVars, linkVars
<1>2. CASE SimNext
  <2>1. TemperatureInv'
    BY <1>2, SamplesApart, TemperatureSampled DEF SignalInv, SimInv, TemperatureInv
  <2>2. BatteryInv'
    BY <1>2, SamplesApart, BatterySampled DEF SignalInv, SimInv, BatteryInv
  <2>3. LoadInv'
    BY <1>2, SamplesApart, LoadSampled DEF SignalInv, SimInv, LoadInv
  <2>4. LinkBackInv'
    BY <1>2, LinkBackStep DEF SignalInv
  <2> QED BY <2>1, <2>2, <2>3, <2>4 DEF SignalInv
<1> QED BY <1>1, <1>2

THEOREM SignalInvHolds == SimSpec => []SignalInv
<1>1. SimInit => SignalInv BY SignalInvInit
<1>2. SimInv /\ SimInv' /\ SignalInv /\ [SimNext]_simVars => SignalInv' BY SignalInvStep
<1> QED BY <1>1, <1>2, SimInvHolds, PTL DEF SimSpec

-----------------------------------------------------------------------------
(* What the invariant says of the properties. *)

(* The bridge's phase is the simulator's whenever the simulator is at rest: both counters  *)
(* then have the same value, and the line that an odd call does not print would show the    *)
(* same second.                                                                             *)
LEMMA SimInvAgrees ==
  ASSUME SimInv
  PROVE  DashboardPhaseAgrees
<1> SUFFICES ASSUME at = "idle", shown # -1
             PROVE  PhaseOfUptime(shown) = PHASE_MAP[phase]
  BY DEF DashboardPhaseAgrees
<1>1. elapsed_s \in Nat /\ shown = elapsed_s
  BY DEF SimInv, SimTypeOK, TimeLineInv, ReportInv, ShownAfter
<1> QED BY <1>1, TimeLinesAgree DEF SimInv, TimeLineInv

(* Leaks are two seconds apart and lie within forty. *)
LEMMA SimInvBoundsLeaks ==
  ASSUME SimInv
  PROVE  LeaksBounded
  BY DEF SimInv, SimTypeOK, LeakInv, LeaksBounded, SCENARIO_CLEAR, SCENARIO_COMM_END,
         MAX_LEAK_PTRS

(* Only TimeLine changes the phase, and by one second. *)
LEMMA PhaseStep ==
  ASSUME SimInv, [SimNext]_simVars
  PROVE  SimPhase_t[phase'] \in {SimPhase_t[phase], SimPhase_t[phase] + 1}
<1>1. CASE TimeLine
  <2>1. elapsed_s \in Nat /\ elapsed_s' \in {elapsed_s, elapsed_s + 1}
    BY <1>1 DEF TimeLine, SimInv, SimTypeOK, TimeLineInv
  <2>2. phase = PhaseAt(elapsed_s) /\ phase' = PhaseAt(elapsed_s')
    BY <1>1 DEF TimeLine, SimInv, TimeLineInv
  <2> QED BY <2>1, <2>2, PhaseAtStep
<1>2. CASE UNCHANGED phase
  BY <1>2
<1> QED
  BY <1>1, <1>2 DEF SimNext, SimStep, SimRelease, SampleSignals, SetBlackout, ReadClock,
     StoreGap, Leak, SampleLoad, Report, Ground, Tick, simVars, timeLineVars

THEOREM AgreementHolds == SimSpec => []DashboardPhaseAgrees
  BY SimInvHolds, SimInvAgrees, PTL

THEOREM LeaksStayBounded == SimSpec => []LeaksBounded
  BY SimInvHolds, SimInvBoundsLeaks, PTL

THEOREM NoEarlyAlarm == SimSpec => []NoAlarmBeforeBlackout
<1>1. SimInv => NoAlarmBeforeBlackout BY DEF SimInv
<1> QED BY SimInvHolds, <1>1, PTL

THEOREM ScenarioInOrder == SimSpec => PhasesInOrder
<1>1. SimInv /\ [SimNext]_simVars =>
        [SimPhase_t[phase'] \in {SimPhase_t[phase], SimPhase_t[phase] + 1}]_simVars
  BY PhaseStep
<1> QED BY <1>1, SimInvHolds, PTL DEF SimSpec, PhasesInOrder
=============================================================================
