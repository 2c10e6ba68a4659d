---------------------------- MODULE ScenarioStoryProofs ----------------------------
(* The story that the scenario tells: which responders run in which phase, and how often *)
(* the thermal responder is created and announced.  Both rest on the values of the        *)
(* signals by the call of sim_tick (SignalInv), and on the races between the periods of   *)
(* 0.5, 1 and 2 seconds, the responder's lifetime of ten seconds and the lateness of      *)
(* sim_tick, for every lateness below its period and every length of the run.             *)
EXTENDS ScenarioProofs

(* What runs when.  A thermal responder that is there when the spike is over has had an   *)
(* uncritical signal since 349 at the latest.                                             *)
ResponderInv ==
  /\ resp["heap"] = NoTask
  /\ s_tick < 180 => resp["cpu"] = NoTask
  /\ s_tick < 140 => resp["batt"] = NoTask
  /\ s_tick < 30  => resp["temp"] = NoTask
  /\ Running("temp") /\ Sampled >= 70 => lingering["temp"] >= clock - 349

(* SensorMonitor comes round every 20 steps, the watchdog every five, both before sim_tick. *)
sensorDue == monDue["SensorMonitor"]
ScheduleInv ==
  /\ (clock + sensorDue) % 20 = 0 /\ (clock + wdDue) % 5 = 0
  /\ wdDue = 0 \/ sensorDue = 0 => simDue = 0

(* The thermal responder numbered c is announced by the call after last, at the latest,   *)
(* and stays so until the signal is low for good.                                         *)
Announced(c, last) ==
  \/ alerts = c - 1 /\ ~thermal_alerted /\ tick_count <= last
  \/ alerts = c /\ tick_count >= 45 /\ (thermal_alerted \/ tick_count >= 70)

(* The monitor looks at 220 or 240 for the first time at a critical temperature. *)
stamp == spawnStamp["temp"]
Quiet ==
  /\ created = 0 /\ alerts = 0 /\ ~thermal_alerted
  /\ ~Running("temp") /\ stamp = 0
  /\ clock + sensorDue <= 240

(* Created at 220 and killed by the watchdog at 330, or created at 240 and not killed     *)
(* before the signal is low.  Its second poll is not before 230.                          *)
First ==
  /\ created = 1 /\ Running("temp") /\ Announced(1, 48)
  /\ clock >= 220 /\ clock + sensorDue >= 240
  /\ \/ stamp = 0 /\ clock + wdDue \in {225, 245}
     \/ stamp = 225 /\ clock + wdDue <= 330
     \/ stamp = 245
  /\ clock + resp["temp"] >= 230 \/ (resp["temp"] = 0 /\ temperature_c >= 810)

(* After the kill sim_tick's loop comes round twice before the monitor's does. *)
Between ==
  /\ created = 1 /\ alerts = 1
  /\ ~Running("temp") /\ stamp = 0
  /\ clock >= 330 /\ clock + sensorDue = 340
  /\ thermal_alerted => tick_count <= 66

(* Created at 340: one more call of sim_tick sees the spike. *)
Second ==
  /\ created = 2 /\ Running("temp") /\ Announced(2, 68)
  /\ clock >= 340 /\ (stamp = 0 \/ stamp >= 340)

Over == alerts = created /\ created \in 1 .. 2 /\ ~Running("temp") /\ Sampled >= 70

Story == Quiet \/ First \/ Between \/ Second \/ Over

StoryInv == ResponderInv /\ ScheduleInv /\ Story

Inv == IInv /\ SignalInv /\ StoryInv

-----------------------------------------------------------------------------
(* What the other invariants say of a date. *)

LEMMA Dates ==
  ASSUME SimInv
  PROVE  /\ clock \in Nat /\ s_tick \in Nat /\ tick_count \in Nat
         /\ simDue \in 0 .. 5 /\ temperature_c \in Int /\ Sampled \in Int
         /\ clock + simDue = 5 * (s_tick + IF at = "timeline" THEN 1 ELSE 0)
         /\ at # "idle" => simDue >= 1
         /\ s_tick - tick_count = IF at \in {"idle", "timeline"} THEN 0 ELSE 1
         /\ clock >= 230 => Sampled >= 46
         /\ Sampled <= tick_count + 1
<1>1. /\ clock \in Nat /\ s_tick \in Nat /\ tick_count \in Nat
      /\ simDue \in 0 .. 5 /\ temperature_c \in Int
      /\ clock + simDue = 5 * (s_tick + IF at = "timeline" THEN 1 ELSE 0)
      /\ at # "idle" => 5 - simDue <= MaxLate
      /\ tick_count + (IF at \in {"idle", "timeline"} THEN 0 ELSE 1) = s_tick
      /\ MaxLate \in Nat /\ MaxLate < 5
  BY PhaseOfTick, SimulatorAssumption
  DEF SimInv, SimTypeOK, ClockInv, ReportInv, Late, SimPeriod
<1> QED BY <1>1 DEF Sampled

(* A task that is due finds sim_tick at rest. *)
LEMMA AtRest ==
  ASSUME SimInv, ScheduleInv, wdDue = 0 \/ sensorDue = 0
  PROVE  at = "idle" /\ clock = 5 * s_tick /\ Sampled = s_tick /\ tick_count = s_tick
<1>1. simDue = 0
  BY DEF ScheduleInv
<1> QED BY <1>1, Dates DEF Sampled

LEMMA CriticalTemperature ==
  ASSUME SimInv
  PROVE  /\ Critical("temp") <=> temperature_c >= 810
         /\ Normal("temp") <=> temperature_c <= 809
<1>1. temperature_c \in Int
  BY Dates
<1> QED BY <1>1 DEF Critical, Normal, Raw, Getter, Spawns, Recovered, Truncated,
                    THRESH_TEMP_CRITICAL_C

(* No other signal is critical before its time. *)
LEMMA CriticalOthers ==
  ASSUME SimInv, SignalInv
  PROVE  /\ ~Critical("heap")
         /\ s_tick < 180 => ~Critical("cpu")
         /\ s_tick < 140 => ~Critical("batt")
<1>1. cpu_load_pct \in Int /\ battery_v \in Int /\ s_bat_v \in Int /\ s_tick \in Nat
  BY Dates DEF SimInv, SimTypeOK
<1>2. ~Critical("heap")
  BY HeapIsNormal, NormalIsNotCritical DEF SimInv, Signals
<1>3. s_tick < 180 => ~Critical("cpu")
  <2>1. s_tick < 180 => cpu_load_pct <= 800
    BY <1>1 DEF SignalInv, LoadInv, Loaded
  <2> QED BY <1>1, <2>1 DEF Critical, Raw, Getter, Spawns, Truncated, THRESH_CPU_CRITICAL_PCT
<1>4. s_tick < 140 => ~Critical("batt")
  <2>1. s_tick < 140 => battery_v >= 33000
    BY <1>1 DEF SignalInv, BatteryInv, Sampled
  <2> QED BY <1>1, <2>1 DEF Critical, Raw, Getter, Spawns, Truncated, THRESH_BATTERY_CRITICAL_V
<1> QED BY <1>2, <1>3, <1>4

(* The types of what the invariant speaks of. *)
LEMMA StoryTypes ==
  ASSUME IInv
  PROVE  /\ sensorDue \in 0 .. 20 /\ wdDue \in 0 .. 5 /\ stamp \in Nat
         /\ alerts \in Nat /\ created \in Nat /\ lingering["temp"] \in Nat
         /\ \A k \in Signals : resp[k] \in {-1} \cup 0 .. 10
  BY DEF IInv, TypeOK, sensorDue, stamp, Monitors, Aged, Signals, WdPeriod, NoTask

-----------------------------------------------------------------------------
(* Every step preserves the invariant, the watchdog's ... *)

LEMMA WatchdogKeepsStory ==
  ASSUME Inv, WatchdogPass
  PROVE  StoryInv'
<1> DEFINE tracked == IF ~Running("temp") THEN 0 ELSE IF stamp = 0 THEN clock ELSE stamp
           kill == tracked # 0 /\ clock - tracked > 100
<1>1. /\ UNCHANGED <<clock, simDue, at, s_tick, temperature_c, tick_count, monDue, created,
                     thermal_alerted, alerts, lingering>>
      /\ wdDue = 0 /\ wdDue' = 5
      /\ resp'["temp"] = IF kill THEN NoTask ELSE resp["temp"]
      /\ stamp' = IF kill THEN 0 ELSE tracked
      /\ \A k \in Signals : resp'[k] \in {NoTask, resp[k]}
  BY DEF WatchdogPass, WdPeriod, WATCHDOG_RESPONDER_TTL, Aged, Signals, stamp, simVars,
         scheduleVars, timeLineVars, signalVars, reportVars, alertVars, historyVars
<1>2. clock = 5 * s_tick /\ Sampled = s_tick /\ tick_count = s_tick /\ s_tick \in Nat
  BY <1>1, AtRest, Dates DEF Inv, IInv, StoryInv
<1>3. Sampled' = Sampled /\ sensorDue' = sensorDue
  BY <1>1 DEF Sampled, sensorDue
<1>4. /\ sensorDue \in 0 .. 20 /\ stamp \in Nat /\ resp["temp"] \in {-1} \cup 0 .. 10
      /\ alerts \in Nat /\ created \in Nat
  BY StoryTypes DEF Inv, Signals
<1> HIDE DEF kill, tracked
<1>5. ResponderInv'
  BY <1>1, <1>3 DEF Inv, StoryInv, ResponderInv, Running, Signals, NoTask
<1>6. ScheduleInv'
  BY <1>1, <1>2, <1>3, <1>4 DEF Inv, StoryInv, ScheduleInv
<1>7. Story'
  <2>1. CASE Quiet
    <3>1. tracked = 0 /\ ~kill
      BY <2>1 DEF Quiet, tracked, kill
    <3> QED BY <1>1, <1>3, <2>1, <3>1 DEF Quiet, Story, Running
  <2>2. CASE First
    <3>1. CASE kill /\ clock < 345
      <4>1. stamp = 225 /\ clock = 330
        BY <1>1, <1>2, <1>4, <2>2, <3>1 DEF First, Running, NoTask, kill, tracked
      <4>2. sensorDue = 10
        BY <1>4, <4>1 DEF Inv, StoryInv, ScheduleInv
      <4> QED BY <1>1, <1>2, <1>3, <2>2, <3>1, <4>1, <4>2
              DEF First, Announced, Between, Story, Running
    <3>2. CASE kill /\ clock >= 345
      <4>1. stamp = 245 /\ clock > 345
        BY <1>1, <1>2, <1>4, <2>2, <3>2 DEF First, Running, NoTask, kill, tracked
      <4> QED BY <1>1, <1>2, <1>3, <2>2, <3>2, <4>1 DEF First, Announced, Over, Story, Running
    <3>3. CASE ~kill
      <4>1. /\ stamp = 0 => stamp' \in {225, 245} /\ clock = stamp'
            /\ stamp = 225 => stamp' = 225 /\ clock <= 325
            /\ stamp = 245 => stamp' = 245
        BY <1>1, <1>2, <1>4, <2>2, <3>3 DEF First, Running, NoTask, kill, tracked
      <4> QED BY <1>1, <1>2, <1>3, <1>4, <2>2, <3>3, <4>1 DEF First, Announced, Story, Running
    <3> QED BY <1>2, <3>1, <3>2, <3>3
  <2>3. CASE Between
    <3>1. tracked = 0 /\ ~kill
      BY <2>3 DEF Between, tracked, kill
    <3> QED BY <1>1, <1>3, <2>3, <3>1 DEF Between, Story, Running
  <2>4. CASE Second
    <3>1. CASE kill
      <4>1. clock > 440
        BY <1>2, <1>4, <2>4, <3>1 DEF Second, kill, tracked
      <4> QED BY <1>1, <1>2, <1>3, <2>4, <3>1, <4>1 DEF Second, Announced, Over, Story, Running
    <3>2. CASE ~kill
      <4>1. stamp' >= 340
        BY <1>1, <1>2, <1>4, <2>4, <3>2 DEF Second, tracked
      <4> QED BY <1>1, <1>3, <2>4, <3>2, <4>1 DEF Second, Announced, Story, Running
    <3> QED BY <3>1, <3>2
  <2>5. CASE Over
    BY <1>1, <1>3, <2>5 DEF Over, Story, Running
  <2> QED BY <2>1, <2>2, <2>3, <2>4, <2>5 DEF Inv, StoryInv, Story
<1> QED BY <1>5, <1>6, <1>7 DEF StoryInv

(* ... a responder's, which ends only when the spike is over ... *)
LEMMA PollKeepsStory ==
  ASSUME Inv, NEW k \in Signals, Poll(k)
  PROVE  StoryInv'
<1>1. /\ UNCHANGED <<clock, simDue, at, s_tick, temperature_c, tick_count, monDue, wdDue, created,
                     spawnStamp, thermal_alerted, alerts, lingering>>
      /\ resp[k] = 0 /\ \A j \in Signals : j # k => resp'[j] = resp[j]
      /\ resp'[k] = IF Normal(k) THEN NoTask ELSE PollPeriod(k)
  BY DEF Poll, simVars, scheduleVars, timeLineVars, signalVars, reportVars, alertVars, historyVars,
         Inv, IInv, TypeOK
<1>2. Sampled' = Sampled /\ sensorDue' = sensorDue /\ stamp' = stamp
  BY <1>1 DEF Sampled, sensorDue, stamp
<1>3. /\ clock \in Nat /\ Sampled \in Int /\ temperature_c \in Int /\ tick_count \in Nat
      /\ clock >= 230 => Sampled >= 46
      /\ Sampled <= tick_count + 1
      /\ Sampled \in 46 .. 69 => temperature_c >= 821
      /\ Normal("temp") <=> temperature_c <= 809
  BY Dates, CriticalTemperature DEF Inv, IInv, SignalInv, TemperatureInv
<1>4. ResponderInv'
  <2>1. resp'[k] # NoTask => resp[k] # NoTask
    BY <1>1 DEF NoTask
  <2>2. \A j \in Signals : resp[j] = NoTask => resp'[j] = NoTask
    BY <1>1 DEF NoTask
  <2> QED BY <1>1, <1>2, <2>2 DEF Inv, StoryInv, ResponderInv, Running, Signals
<1>5. ScheduleInv'
  BY <1>1, <1>2 DEF Inv, StoryInv, ScheduleInv
<1>6. Story'
  <2>1. CASE k # "temp"
    <3>1. resp'["temp"] = resp["temp"]
      BY <1>1, <2>1 DEF Signals
    <3> QED BY <1>1, <1>2, <3>1 DEF Inv, StoryInv, Story, Quiet, First, Between, Second, Over,
            Announced, Running
  <2>2. CASE k = "temp" /\ Normal("temp")
    <3>1. ~Running("temp")' /\ Running("temp")
      BY <1>1, <2>2 DEF Running, NoTask
    <3>2. CASE First
      <4>1. Sampled >= 70
        BY <1>1, <1>3, <2>2, <3>2 DEF First
      <4> QED BY <1>1, <1>2, <1>3, <3>1, <3>2, <4>1 DEF First, Announced, Over, Story
    <3>3. CASE Second
      <4>1. Sampled >= 70
        BY <1>3, <2>2, <3>3 DEF Second
      <4> QED BY <1>1, <1>2, <1>3, <3>1, <3>3, <4>1 DEF Second, Announced, Over, Story
    <3> QED BY <3>1, <3>2, <3>3 DEF Inv, StoryInv, Story, Quiet, Between, Over
  <2>3. CASE k = "temp" /\ ~Normal("temp")
    <3>1. Running("temp")' /\ Running("temp") /\ resp'["temp"] = 10
      BY <1>1, <2>3 DEF Running, NoTask, PollPeriod
    <3> QED BY <1>1, <1>2, <1>3, <3>1 DEF Inv, StoryInv, Story, Quiet, First, Between, Second, Over,
            Announced
  <2> QED BY <2>1, <2>2, <2>3
<1> QED BY <1>4, <1>5, <1>6 DEF StoryInv

(* ... a monitor's ... *)
LEMMA MonitorKeepsStory ==
  ASSUME Inv, NEW m \in Monitors, MonitorPass(m)
  PROVE  StoryInv'
<1>1. /\ UNCHANGED <<clock, simDue, at, s_tick, temperature_c, tick_count, wdDue, spawnStamp,
                     thermal_alerted, alerts, lingering>>
      /\ monDue[m] = 0 /\ wdDue # 0 /\ \A k \in Signals : resp[k] # 0
      /\ sensorDue' = IF m = "SensorMonitor" THEN 20 ELSE sensorDue
      /\ \A k \in Signals :
           resp'[k] = IF k \notin Checked(m) THEN resp[k]
                      ELSE IF ~Critical(k) THEN NoTask ELSE IF Running(k) THEN resp[k] ELSE 0
      /\ created' = IF ~Running("temp") /\ resp'["temp"] # NoTask THEN created + 1 ELSE created
  BY DEF MonitorPass, NoResponderReady, NoWatchdogReady, simVars, scheduleVars, timeLineVars,
         signalVars, reportVars, alertVars, historyVars, Inv, IInv, TypeOK, sensorDue,
         Monitors, Period
<1>2. Sampled' = Sampled /\ stamp' = stamp
  BY <1>1 DEF Sampled, stamp
<1>3. /\ clock \in Nat /\ Sampled \in Int /\ temperature_c \in Int /\ s_tick \in Nat
      /\ tick_count \in Nat
      /\ s_tick < 30 => Sampled <= 29
      /\ Sampled <= 41 => temperature_c <= 800
      /\ Sampled \in 46 .. 69 => temperature_c >= 821
      /\ Sampled >= 70 => temperature_c <= 500
      /\ Critical("temp") <=> temperature_c >= 810
  BY Dates, CriticalTemperature DEF Inv, IInv, SignalInv, TemperatureInv, Sampled
<1>4. /\ sensorDue \in 0 .. 20 /\ wdDue \in 1 .. 5
      /\ alerts \in Nat /\ created \in Nat /\ stamp \in Nat
  BY <1>1, StoryTypes DEF Inv
<1>5. ResponderInv'
  <2>1. \A k \in Signals : ~Critical(k) /\ resp[k] = NoTask => resp'[k] = NoTask
    BY <1>1
  <2>2. /\ ~Critical("heap") /\ (s_tick < 180 => ~Critical("cpu"))
        /\ s_tick < 140 => ~Critical("batt")
    BY CriticalOthers DEF Inv, IInv
  <2>3. ~Critical("temp") => (resp'["temp"] # NoTask => resp["temp"] # NoTask)
    BY <2>1 DEF Signals
  <2> QED BY <1>1, <1>2, <1>3, <2>1, <2>2, <2>3
          DEF Inv, StoryInv, ResponderInv, Running, Signals
<1>6. ScheduleInv'
  <2>1. m = "SensorMonitor" => sensorDue = 0
    BY <1>1 DEF sensorDue
  <2>2. clock % 20 = 0 => (clock + 20) % 20 = 0
    BY <1>3
  <2>3. (clock + sensorDue') % 20 = 0
    BY <1>1, <1>3, <2>1, <2>2 DEF Inv, StoryInv, ScheduleInv
  <2>4. sensorDue' = 0 => sensorDue = 0
    BY <1>1
  <2> QED BY <1>1, <2>3, <2>4 DEF Inv, StoryInv, ScheduleInv
<1>7. Story'
  <2>1. CASE m # "SensorMonitor"
    <3>1. "temp" \notin Checked(m) /\ "temp" \in Signals
      BY <2>1 DEF Monitors, Checked, Signals
    <3>2. resp'["temp"] = resp["temp"] /\ created' = created /\ sensorDue' = sensorDue
      BY <1>1, <2>1, <3>1 DEF Running
    <3> QED BY <1>1, <1>2, <3>2 DEF Inv, StoryInv, Story, Quiet, First, Between, Second, Over,
            Announced, Running
  <2>2. CASE m = "SensorMonitor"
    <3>1. /\ sensorDue = 0 /\ sensorDue' = 20 /\ clock % 20 = 0
          /\ clock = 5 * s_tick /\ Sampled = s_tick /\ tick_count = s_tick
      BY <1>1, <1>3, <2>2, AtRest DEF Inv, IInv, StoryInv, ScheduleInv, sensorDue
    <3>2. resp'["temp"] = IF temperature_c < 810 THEN NoTask
                          ELSE IF Running("temp") THEN resp["temp"] ELSE 0
      BY <1>1, <1>3, <2>2 DEF Checked, Signals
    <3>3. CASE Running("temp") /\ temperature_c < 810
      <4>1. Sampled >= 46 => Sampled >= 70
        BY <1>3, <3>3
      <4> QED BY <1>1, <1>2, <1>3, <3>1, <3>2, <3>3, <4>1 DEF Inv, StoryInv, Story, Quiet, First,
              Between, Second, Over, Announced, Running, NoTask
    <3>4. CASE Running("temp") /\ temperature_c >= 810
      <4>1. resp'["temp"] = resp["temp"] /\ created' = created
        BY <1>1, <1>3, <3>2, <3>4
      <4> QED BY <1>1, <1>2, <1>3, <3>1, <3>4, <4>1 DEF Inv, StoryInv, Story, Quiet, First,
              Between, Second, Over, Announced, Running
    <3>5. CASE ~Running("temp") /\ temperature_c < 810
      <4>1. resp'["temp"] = NoTask /\ created' = created
        BY <1>1, <3>2, <3>5
      <4>2. Quiet => clock <= 220
        BY <1>3, <3>1, <3>5 DEF Quiet
      <4>3. ~Between
        BY <1>3, <3>1, <3>5 DEF Between
      <4> QED BY <1>1, <1>2, <3>1, <3>5, <4>1, <4>2, <4>3 DEF Inv, StoryInv, Story, Quiet, First,
              Second, Over, Running
    <3>6. CASE ~Running("temp") /\ temperature_c >= 810
      <4>1. resp'["temp"] = 0 /\ created' = created + 1
        BY <1>1, <1>3, <3>2, <3>6 DEF NoTask
      <4>2. CASE Quiet
        <5>1. clock \in {220, 240}
          BY <1>3, <3>1, <3>6, <4>2 DEF Quiet
        <5>2. wdDue = 5
          BY <1>4, <5>1 DEF Inv, StoryInv, ScheduleInv
        <5> QED BY <1>1, <1>2, <1>3, <3>1, <3>6, <4>1, <4>2, <5>1, <5>2
                DEF Quiet, First, Announced, Story, Running, NoTask
      <4>3. CASE Between
        <5>1. clock = 340 /\ tick_count = 68
          BY <1>3, <3>1, <4>3 DEF Between
        <5> QED BY <1>1, <1>2, <3>1, <4>1, <4>3, <5>1
                DEF Between, Second, Announced, Story, Running, NoTask
      <4>4. ~Over
        BY <1>3, <3>6 DEF Over
      <4> QED BY <3>6, <4>2, <4>3, <4>4 DEF Inv, StoryInv, Story, First, Second
    <3> QED BY <1>3, <3>3, <3>4, <3>5, <3>6
  <2> QED BY <2>1, <2>2
<1> QED BY <1>5, <1>6, <1>7 DEF StoryInv

(* ... the simulator's, which announces ... *)
LEMMA ReportKeepsStory ==
  ASSUME Inv, SimulatorStep, Report, ThermalAlert
  PROVE  Story'
<1> DEFINE alert == temperature_c > 800 /\ Running("temp")
<1>1. /\ UNCHANGED <<clock, s_tick, temperature_c, monDue, wdDue, created, spawnStamp, resp>>
      /\ at = "report" /\ at' = "idle" /\ tick_count' = tick_count + 1 /\ resp["temp"] # 0
  BY DEF Report, SimulatorStep, SimAt, NoMonitorReady, NoResponderReady, Signals, scheduleVars,
         timeLineVars, signalVars, taskVars
<1>2. /\ thermal_alerted' <=> alert
      /\ alerts' = IF alert /\ ~thermal_alerted THEN alerts + 1 ELSE alerts
  <2>1. temperature_c > 10 * CFG_TEMP_CRITICAL <=> temperature_c > 800
    BY DEF CFG_TEMP_CRITICAL
  <2>2. /\ thermal_alerted' = (temperature_c > 10 * CFG_TEMP_CRITICAL /\ Running("temp"))
        /\ alerts' = IF (temperature_c > 10 * CFG_TEMP_CRITICAL /\ Running("temp"))
                        /\ ~thermal_alerted
                     THEN alerts + 1 ELSE alerts
    BY Zenon DEF ThermalAlert
  <2> QED BY <2>1, <2>2, Zenon
<1>3. /\ Sampled' = Sampled /\ sensorDue' = sensorDue /\ stamp' = stamp
      /\ Sampled = tick_count + 1 /\ Sampled = s_tick
      /\ clock \in Nat /\ tick_count \in Nat /\ s_tick \in Nat /\ temperature_c \in Int
      /\ clock + simDue = 5 * s_tick /\ simDue \in 1 .. 5
  BY <1>1, Dates DEF Inv, IInv, Sampled, sensorDue, stamp
<1>4. /\ Sampled \in 46 .. 69 => temperature_c >= 821
      /\ Sampled >= 70 => temperature_c <= 500
      /\ alerts \in Nat
  BY StoryTypes DEF Inv, SignalInv, TemperatureInv
<1>5. CASE ~Running("temp")
  <2>1. ~thermal_alerted' /\ alerts' = alerts
    BY <1>2, <1>5
  <2> QED BY <1>1, <1>3, <1>5, <2>1 DEF Inv, StoryInv, Story, Quiet, First, Between, Second, Over,
          Running
<1>6. ASSUME First PROVE Story'
  <2>1. tick_count >= 44
    BY <1>3, <1>6 DEF First
  <2>2. Announced(1, 48)'
    BY <1>1, <1>2, <1>3, <1>4, <1>6, <2>1 DEF First, Announced
  <2> QED BY <1>1, <1>3, <1>6, <2>2 DEF First, Story, Running
<1>7. ASSUME Second PROVE Story'
  <2>1. tick_count >= 68
    BY <1>3, <1>7 DEF Second
  <2>2. Announced(2, 68)'
    BY <1>1, <1>2, <1>3, <1>4, <1>7, <2>1 DEF Second, Announced
  <2> QED BY <1>1, <1>3, <1>7, <2>2 DEF Second, Story, Running
<1> QED BY <1>5, <1>6, <1>7 DEF Inv, StoryInv, Story, Quiet, Between, Over

LEMMA SimulatorKeepsStory ==
  ASSUME Inv, SimulatorStep
  PROVE  StoryInv'
<1>1. /\ UNCHANGED <<clock, monDue, wdDue, created, spawnStamp, resp, lingering>>
      /\ SimRelease \/ SimStep
      /\ sensorDue # 0 /\ wdDue # 0 /\ resp["temp"] # 0
  BY DEF SimulatorStep, SimRelease, SimStep, TimeLine, SampleSignals, SetBlackout, ReadClock,
         StoreGap, Leak, SampleLoad, Report, NoMonitorReady, NoResponderReady, NoWatchdogReady,
         scheduleVars, taskVars, historyVars, sensorDue, Monitors, Signals
<1>2. /\ s_tick' \in {s_tick, s_tick + 1} /\ Sampled' \in {Sampled, Sampled + 1}
      /\ Sampled' # Sampled => SampleSignals
      /\ s_tick \in Nat /\ Sampled \in Int /\ clock \in Nat /\ lingering["temp"] \in Nat
  <2>1. s_tick \in Nat /\ Sampled \in Int /\ clock \in Nat /\ lingering["temp"] \in Nat
    BY Dates, StoryTypes DEF Inv, IInv
  <2> QED BY <1>1, <2>1 DEF SimRelease, SimStep, TimeLine, SampleSignals, SetBlackout, ReadClock,
          StoreGap, Leak, SampleLoad, Report, SimAt, Sampled, timeLineVars
<1>3. sensorDue' = sensorDue /\ stamp' = stamp
  BY <1>1 DEF sensorDue, stamp
<1>4. ResponderInv'
  <2>1. ASSUME Running("temp"), Sampled' >= 70 PROVE lingering["temp"] >= clock - 349
    <3>1. CASE Sampled >= 70
      BY <2>1, <3>1 DEF Inv, StoryInv, ResponderInv
    <3>2. CASE Sampled < 70
      <4>1. SampleSignals
        BY <1>2, <2>1, <3>2
      <4>2. at = "signals" /\ s_tick = 70
        BY <1>2, <2>1, <3>2, <4>1 DEF SampleSignals, SimAt, Sampled, timeLineVars
      <4>3. clock <= 349
        BY <4>2, Dates DEF Inv, IInv
      <4> QED BY <1>2, <4>3
    <3> QED BY <1>2, <3>1, <3>2
  <2> QED BY <1>1, <1>2, <2>1 DEF Inv, StoryInv, ResponderInv, Running
<1>5. ScheduleInv'
  BY <1>1, <1>3 DEF Inv, StoryInv, ScheduleInv
<1>6. Story'
  <2>1. CASE at = "report"
    <3>1. Report /\ ThermalAlert
      BY <1>1, <2>1 DEF SimulatorStep, SimRelease, SimStep, TimeLine, SampleSignals, SetBlackout,
         ReadClock, StoreGap, Leak, SampleLoad, SimAt
    <3> QED BY <3>1, ReportKeepsStory
  <2>2. CASE at # "report"
    <3>1. UNCHANGED <<thermal_alerted, alerts, tick_count>>
      BY <1>1, <2>2 DEF SimulatorStep, SimRelease, SimStep, TimeLine, SampleSignals, SetBlackout,
         ReadClock, StoreGap, Leak, SampleLoad, Report, SimAt, alertVars, reportVars
    <3> QED BY <1>1, <1>2, <1>3, <3>1 DEF Inv, StoryInv, Story, Quiet, First, Between, Second, Over,
            Announced, Running
  <2> QED BY <2>1, <2>2
<1> QED BY <1>4, <1>5, <1>6 DEF StoryInv

(* ... and the passing of time. *)
LEMMA PassKeepsStory ==
  ASSUME Inv, Pass
  PROVE  StoryInv'
<1>1. /\ UNCHANGED <<at, s_tick, temperature_c, tick_count, spawnStamp, created, thermal_alerted,
                     alerts>>
      /\ clock' = clock + 1 /\ simDue' = simDue - 1 /\ wdDue' = wdDue - 1
      /\ sensorDue' = sensorDue - 1
      /\ sensorDue # 0 /\ wdDue # 0 /\ \A k \in Signals : resp[k] # 0
      /\ \A k \in Signals : resp'[k] = IF Running(k) THEN resp[k] - 1 ELSE NoTask
      /\ Running("temp") /\ ~Critical("temp") => lingering'["temp"] = lingering["temp"] + 1
  BY DEF Pass, Tick, NoMonitorReady, NoResponderReady, NoWatchdogReady, timeLineVars, signalVars,
         reportVars, alertVars, sensorDue, Monitors, Signals
<1>2. /\ Sampled' = Sampled /\ stamp' = stamp
  BY <1>1 DEF Sampled, stamp
<1>3. /\ sensorDue \in 1 .. 20 /\ wdDue \in 1 .. 5 /\ clock \in Nat /\ simDue \in 0 .. 5
      /\ lingering["temp"] \in Nat
      /\ \A k \in Signals : resp[k] \in {-1} \cup 1 .. 10
      /\ \E n \in Nat : clock + simDue = 5 * n
  <2>1. s_tick + (IF at = "timeline" THEN 1 ELSE 0) \in Nat
    BY Dates DEF Inv, IInv
  <2> QED BY <1>1, <2>1, Dates, StoryTypes DEF Inv, IInv
<1>4. Running("temp")' <=> Running("temp")
  BY <1>1, <1>3 DEF Running, NoTask, Signals
<1>5. Running("temp") => resp'["temp"] = resp["temp"] - 1 /\ resp["temp"] \in 1 .. 10
  BY <1>1, <1>3 DEF Running, NoTask, Signals
<1>6. ResponderInv'
  <2>1. Sampled >= 70 => ~Critical("temp")
    BY CriticalTemperature, Dates DEF Inv, IInv, SignalInv, TemperatureInv
  <2>2. \A k \in Signals : resp[k] = NoTask => resp'[k] = NoTask
    BY <1>1 DEF Running
  <2>3. Running("temp") /\ Sampled >= 70 => lingering'["temp"] >= clock' - 349
    BY <1>1, <1>3, <2>1 DEF Inv, StoryInv, ResponderInv
  <2> QED BY <1>1, <1>2, <1>4, <2>2, <2>3 DEF Inv, StoryInv, ResponderInv, Signals
<1>7. ScheduleInv'
  <2>1. (clock' + sensorDue') % 20 = 0 /\ (clock' + wdDue') % 5 = 0
    <3>1. clock' + sensorDue' = clock + sensorDue /\ clock' + wdDue' = clock + wdDue
      BY <1>1, <1>3
    <3> QED BY <3>1 DEF Inv, StoryInv, ScheduleInv
  <2>2. ASSUME wdDue' = 0 \/ sensorDue' = 0 PROVE simDue' = 0
    <3>1. (clock + 1) % 5 = 0
      BY <1>1, <1>3, <2>1, <2>2
    <3>2. simDue # 0
      BY <1>3, SimulatorAssumption DEF Pass, Tick, Late, SimPeriod
    <3> QED BY <1>1, <1>3, <3>1, <3>2
  <2> QED BY <2>1, <2>2 DEF ScheduleInv
<1>8. Story'
  <2>1. clock' + sensorDue' = clock + sensorDue /\ clock' + wdDue' = clock + wdDue
    BY <1>1, <1>3
  <2>2. Running("temp") => clock' + resp'["temp"] = clock + resp["temp"]
    BY <1>1, <1>3, <1>5
  <2> QED BY <1>1, <1>2, <1>3, <1>4, <1>5, <2>1, <2>2 DEF Inv, StoryInv, Story, Quiet, First,
          Between, Second, Over, Announced
<1> QED BY <1>6, <1>7, <1>8 DEF StoryInv

LEMMA OthersKeepStory ==
  ASSUME Inv, GroundPass \/ UNCHANGED vars
  PROVE  StoryInv'
<1>1. UNCHANGED <<clock, simDue, at, s_tick, temperature_c, tick_count, monDue, wdDue, resp,
                  spawnStamp, created, thermal_alerted, alerts, lingering>>
  BY DEF GroundPass, Ground, vars, simVars, scheduleVars, timeLineVars, signalVars, reportVars,
         taskVars, alertVars, historyVars
<1> QED BY <1>1 DEF Inv, StoryInv, ResponderInv, ScheduleInv, Story, Quiet, First, Between, Second,
        Over, Announced, Running, Sampled, sensorDue, stamp

LEMMA StoryInvInit ==
  ASSUME Init
  PROVE  StoryInv
<1>1. /\ clock = 0 /\ s_tick = 0 /\ at = "idle" /\ simDue = 0 /\ tick_count = 0
      /\ sensorDue = 0 /\ wdDue = 0 /\ stamp = 0 /\ \A k \in Signals : resp[k] = NoTask
      /\ created = 0 /\ alerts = 0 /\ ~thermal_alerted
  BY DEF Init, SimInit, sensorDue, stamp, Monitors, Aged
<1>2. Sampled = 0
  BY <1>1 DEF Sampled
<1>3. ResponderInv BY <1>1, <1>2 DEF ResponderInv, Signals, Running
<1>4. ScheduleInv BY <1>1 DEF ScheduleInv
<1>5. Quiet BY <1>1 DEF Quiet, Running, Signals
<1> QED BY <1>3, <1>4, <1>5 DEF StoryInv, Story

LEMMA InvHolds == Spec => []Inv
<1>1. Init => StoryInv BY StoryInvInit
<1>2. IInv /\ SignalInv /\ StoryInv /\ [Next]_vars => StoryInv'
  <2> SUFFICES ASSUME Inv, [Next]_vars PROVE StoryInv'
    BY DEF Inv
  <2> QED BY WatchdogKeepsStory, PollKeepsStory, MonitorKeepsStory, SimulatorKeepsStory,
             PassKeepsStory, OthersKeepStory DEF Next
<1>3. Spec => []IInv BY IInvHolds
<1>4. Spec => []SignalInv BY ScenarioImplementsSimulator, SignalInvHolds, PTL
<1>5. Inv <=> IInv /\ SignalInv /\ StoryInv BY DEF Inv
<1> QED BY <1>1, <1>2, <1>3, <1>4, <1>5, PTL DEF Spec

-----------------------------------------------------------------------------
(* The theorems. *)

(* Responders run only in the phases whose faults call for them, and right after: the     *)
(* battery responder not before the blackout is over, when the battery is two millivolts  *)
(* above its limit, the one for low memory never.                                         *)
THEOREM RespondersFit == Spec => []RespondersFitTheScenario
<1>1. Inv => RespondersFitTheScenario
  <2> SUFFICES ASSUME Inv, NEW k \in Signals, Running(k)
               PROVE  \/ phase \in CalledForIn(k)
                      \/ k = "comm" /\ (Wrapped(comm_gap) \/ Normal(k))
    BY DEF RespondersFitTheScenario
  <2>1. SimInv /\ ResponderInv /\ resp[k] # NoTask /\ s_tick \in Nat
    BY Dates DEF Inv, IInv, StoryInv, Running
  <2>2. CASE k = "cpu"
    BY <2>1, <2>2, PhaseOfTick DEF ResponderInv, CalledForIn
  <2>3. CASE k = "heap"
    BY <2>1, <2>3 DEF ResponderInv
  <2>4. CASE k = "temp"
    <3>1. lingering["temp"] <= 10 /\ lingering["temp"] \in Nat
      BY Periods, StoryTypes DEF Inv, IInv, ServiceInv, PollPeriod, Signals
    <3>2. s_tick < 110
      BY <2>1, <2>4, <3>1, Dates DEF ResponderInv, Sampled
    <3> QED BY <2>1, <2>4, <3>2, PhaseOfTick DEF ResponderInv, CalledForIn
  <2>5. CASE k = "batt"
    BY <2>1, <2>5, PhaseOfTick DEF ResponderInv, CalledForIn
  <2>6. CASE k = "comm"
    <3>1. ASSUME comm_gap <= GroundPeriod PROVE Normal("comm")
      <4>1. comm_gap \in Nat
        BY <2>1, SimulatorAssumption DEF SimInv, SimTypeOK
      <4> QED BY <3>1, <4>1 DEF Normal, Raw, Getter, Recovered, THRESH_COMM_TIMEOUT_MS, GroundPeriod
    <3>2. s_tick < 110 \/ s_tick > 150 => comm_gap <= GroundPeriod \/ Wrapped(comm_gap)
      BY <2>1, PhaseOfTick DEF Inv, SignalInv, LinkBackInv, SimInv, NoAlarmBeforeBlackout
    <3>3. s_tick \in 110 .. 150 => phase \in CalledForIn("comm")
      BY <2>1, PhaseOfTick DEF CalledForIn
    <3> QED BY <2>1, <2>6, <3>1, <3>2, <3>3
  <2> QED BY <2>2, <2>3, <2>4, <2>5, <2>6 DEF Signals
<1> QED BY <1>1, InvHolds, PTL

(* The thermal responder is announced once for every time it is created, and it is created *)
(* once or twice: the watchdog's kill after ten seconds leaves sim_tick's loop time to take *)
(* its flag back before the monitor creates the next one, and the spike lasts for one more *)
(* call after that.                                                                         *)
THEOREM AnnouncedOnce == Spec => []EachAnnouncedOnce
<1>1. Inv => EachAnnouncedOnce
  <2> SUFFICES ASSUME Inv PROVE EachAnnouncedOnce
    OBVIOUS
  <2>1. /\ SimInv /\ Story /\ clock \in Nat /\ s_tick \in Nat /\ tick_count \in Nat
        /\ sensorDue \in 0 .. 20 /\ alerts \in Nat /\ created \in Nat
    BY Dates, StoryTypes DEF Inv, IInv, StoryInv
  <2>2. alerts \in {created - 1, created}
    BY <2>1 DEF Story, Quiet, First, Between, Second, Over, Announced
  <2>3. ASSUME s_tick >= 70 PROVE alerts = created /\ created \in 1 .. 2
    <3>1. tick_count >= 69
      BY <2>1, <2>3, Dates
    <3>2. ~Quiet
      BY <2>1, <2>3, Dates DEF Quiet
    <3>3. CASE Between
      BY <3>3 DEF Between
    <3>4. CASE First \/ Second \/ Over
      BY <2>1, <3>1, <3>4 DEF First, Second, Over, Announced
    <3> QED BY <2>1, <3>2, <3>3, <3>4 DEF Story
  <2>4. phase \notin {"NOMINAL", "THERMAL_SPIKE"} => s_tick >= 70
    BY <2>1, PhaseOfTick
  <2> QED BY <2>2, <2>3, <2>4 DEF EachAnnouncedOnce
<1> QED BY <1>1, InvHolds, PTL
====================================================================================
