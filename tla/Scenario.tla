---------------------------------- MODULE Scenario ----------------------------------
(* The whole monitor in time: the simulator's signals, the monitors that look at them   *)
(* once a second or two, the responders they start, and the watchdog that kills a       *)
(* responder after ten seconds.  Here every task runs to its next delay at once, in the *)
(* order of the priorities; what happens when tasks overtake each other inside their    *)
(* loops is the subject of ResponderLifecycle and WatchdogTimers.  Only the simulator   *)
(* is still taken apart: its loop ends late when it is held up.                         *)
(*                                                                                      *)
(* Sources: src/monitors.c, src/responders.c, src/tasks/watchdog.c, src/main.c,         *)
(* src/task_scheduler.c, include/task_scheduler.h.                                      *)
EXTENDS SensorSimulator, FiniteSets

Monitors == {"CPUMonitor", "MemMonitor", "SensorMonitor"}

(* The periods, in steps of 100 ms. *)
Period(m) == IF m = "SensorMonitor" THEN 20 ELSE 10
(* Mutant: milliseconds without pdMS_TO_TICKS. *)
PollPeriodInMs(k) == IF k \in {"temp", "batt"} THEN 1000 ELSE 500
PollPeriod(k) == IF k \in {"temp", "batt"} THEN 10 ELSE 5
WdPeriod == 5
WATCHDOG_RESPONDER_TTL == 100

(* The signals a monitor looks at. *)
Checked(m) ==
  CASE m = "CPUMonitor"    -> {"cpu"}
    [] m = "MemMonitor"    -> {"heap"}
    [] m = "SensorMonitor" -> {"temp", "batt", "comm"}
MonitorOf(k) == CHOOSE m \in Monitors : k \in Checked(m)

(* The responders that the watchdog ages. *)
Aged == {"temp", "heap", "batt", "comm"}

VARIABLES
  monDue,    \* steps until the next release of each monitor
  wdDue,     \* steps until the next pass of the watchdog
  resp,      \* steps until the responder's next poll, or NoTask
  spawnStamp,\* the watchdog's s_..._spawn_ms, 0 for none
  thermal_alerted, \* the flag of vSimulatorTask
  created, alerts, \* history: thermal responders created, and announced in the log
  unserved,  \* history: steps for which a critical signal has had no responder
  lingering  \* history: steps for which a responder has outlived its signal

alertVars == <<thermal_alerted, alerts>>
taskVars == <<monDue, wdDue, resp, spawnStamp, created>>
historyVars == <<unserved, lingering>>
vars == <<simVars, taskVars, alertVars, historyVars>>

NoTask == -1
Running(k) == resp[k] # NoTask

TypeOK ==
  /\ SimTypeOK
  /\ monDue \in [Monitors -> 0 .. 20] /\ wdDue \in 0 .. WdPeriod
  /\ resp \in [Signals -> {NoTask} \cup 0 .. 10]
  /\ spawnStamp \in [Aged -> Nat]
  /\ thermal_alerted \in BOOLEAN /\ alerts \in Nat /\ created \in Nat
  /\ unserved \in [Signals -> Nat] /\ lingering \in [Signals -> Nat]

-----------------------------------------------------------------------------
(* The heap: what start-up allocates (nine tasks, the idle task, the queues, the event   *)
(* group and the mutex) is less than StartupBytes; a responder takes its stack and       *)
(* control block, a leak its block and the allocator's header.                           *)
StartupBytes == 90000
TaskBytes    == 8500
LeakBytes    == 528
HeapFree == configTOTAL_HEAP_SIZE - StartupBytes - TaskBytes * Cardinality({k \in Signals : Running(k)})
            - LeakBytes * s_leak_count

(* What the getters of simulation.c read for a signal: the fields of g_sim, but for the  *)
(* heap the allocator itself, not the heap_free_bytes that sim_tick has sampled.         *)
Raw(k) ==
  CASE k = "cpu"  -> cpu_load_pct
    [] k = "heap" -> HeapFree
    [] k = "temp" -> temperature_c
    [] k = "batt" -> battery_v
    [] k = "comm" -> 100 * comm_gap
Critical(k) == Spawns(k, Getter(k, Raw(k)))
Normal(k)   == Recovered(k, Getter(k, Raw(k)))

(* A task runs when no task of a higher priority is ready. *)
NoWatchdogReady  == wdDue # 0
NoResponderReady == NoWatchdogReady /\ \A k \in Signals : resp[k] # 0
NoMonitorReady   == NoResponderReady /\ \A m \in Monitors : monDue[m] # 0

(* A pass of vWatchdogTask over the responders: track_spawn for each, then the ages. *)
WatchdogPass ==
  /\ wdDue = 0 /\ wdDue' = WdPeriod
  /\ LET tracked == [k \in Aged |-> IF ~Running(k) THEN 0
                                    ELSE IF spawnStamp[k] = 0 THEN clock ELSE spawnStamp[k]]
         stuck == {k \in Aged : tracked[k] # 0 /\ clock - tracked[k] > WATCHDOG_RESPONDER_TTL}
     IN /\ resp' = [k \in Signals |-> IF k \in stuck THEN NoTask ELSE resp[k]]
        /\ spawnStamp' = [k \in Aged |-> IF k \in stuck THEN 0 ELSE tracked[k]]
  /\ UNCHANGED <<simVars, monDue, created, alertVars, historyVars>>

(* A responder's poll: it deletes itself or delays. *)
Poll(k) ==
  /\ NoWatchdogReady
  /\ resp[k] = 0
  /\ resp' = [resp EXCEPT ![k] = IF Normal(k) THEN NoTask ELSE PollPeriod(k)]
  /\ UNCHANGED <<simVars, monDue, wdDue, spawnStamp, created, alertVars, historyVars>>

(* A pass of a monitor: vSpawnResponder for a critical signal, vKillResponder otherwise. *)
MonitorPass(m) ==
  /\ NoResponderReady
  /\ monDue[m] = 0
  /\ monDue' = [monDue EXCEPT ![m] = Period(m)]
  /\ resp' = [k \in Signals |-> IF k \notin Checked(m) THEN resp[k]
                                ELSE IF ~Critical(k) THEN NoTask
                                ELSE IF Running(k) THEN resp[k] ELSE 0]
  /\ created' = IF ~Running("temp") /\ resp'["temp"] # NoTask THEN created + 1 ELSE created
  /\ UNCHANGED <<simVars, wdDue, spawnStamp, alertVars, historyVars>>

GroundPass == NoResponderReady /\ Ground /\ UNCHANGED <<taskVars, alertVars, historyVars>>

(* Mutant: the flag is never taken back. *)
ThermalAlertLatched ==
  LET alert == temperature_c > 10 * CFG_TEMP_CRITICAL /\ Running("temp")
  IN /\ thermal_alerted' = (thermal_alerted \/ alert)
     /\ alerts' = IF alert /\ ~thermal_alerted THEN alerts + 1 ELSE alerts

(* The log line that announces the thermal responder, when the signal is (still, or as a *)
(* float already) above the limit and the responder is there.                            *)
ThermalAlert ==
  LET alert == temperature_c > 10 * CFG_TEMP_CRITICAL /\ Running("temp")
  IN /\ thermal_alerted' = alert
     /\ alerts' = IF alert /\ ~thermal_alerted THEN alerts + 1 ELSE alerts

(* A part of vSimulatorTask's loop; the last one ends with the announcement. *)
SimulatorStep ==
  /\ NoMonitorReady
  /\ SimRelease \/ SimStep
  /\ IF at = "report" THEN ThermalAlert ELSE UNCHANGED alertVars
  /\ UNCHANGED <<taskVars, historyVars>>

(* 100 ms pass when every task of a higher priority waits. *)
Pass ==
  /\ NoMonitorReady
  /\ Tick
  /\ monDue' = [m \in Monitors |-> monDue[m] - 1]
  /\ wdDue' = wdDue - 1
  /\ resp' = [k \in Signals |-> IF Running(k) THEN resp[k] - 1 ELSE NoTask]
  /\ unserved' = [k \in Signals |-> IF ~Running(k) /\ ~Normal(k) THEN unserved[k] + 1 ELSE 0]
  /\ lingering' = [k \in Signals |-> IF Running(k) /\ ~Critical(k) THEN lingering[k] + 1 ELSE 0]
  /\ UNCHANGED <<spawnStamp, created, alertVars>>

Init ==
  /\ SimInit
  /\ monDue = [m \in Monitors |-> 0] /\ wdDue = 0
  /\ resp = [k \in Signals |-> NoTask]
  /\ spawnStamp = [k \in Aged |-> 0]
  /\ thermal_alerted = FALSE /\ alerts = 0 /\ created = 0
  /\ unserved = [k \in Signals |-> 0] /\ lingering = [k \in Signals |-> 0]

Next ==
  \/ WatchdogPass
  \/ \E k \in Signals : Poll(k)
  \/ \E m \in Monitors : MonitorPass(m)
  \/ GroundPass
  \/ SimulatorStep
  \/ Pass

Spec == Init /\ [][Next]_vars

-----------------------------------------------------------------------------
(* Properties. *)

(* A signal that its responder would call critical is without a responder for at most    *)
(* one period of its monitor, also after the watchdog has killed a responder of ten      *)
(* seconds ("monitor will respawn if needed").                                           *)
ServedInTime == \A k \in Signals : unserved[k] <= Period(MonitorOf(k))

(* A responder whose signal its monitor would call normal is gone after one of its own   *)
(* polls: monitor and responder read the same threshold, on both sides of it.            *)
EndsInTime == \A k \in Signals : lingering[k] <= PollPeriod(k)

(* No noise, drift or drain starts a responder outside the phases whose faults call for  *)
(* it and the one after, where it is on its way out.  The phases are those of the code,  *)
(* which are not those the dashboard shows: PHASE_RESPONDER_MAP has the battery responder *)
(* alive in the battery phase and the low-memory one in the memory and combined phases,  *)
(* but the battery reaches its limit only when the battery phase is over, and the heap   *)
(* never does.  The exception is a comm gap that wrapped around: it starts the responder *)
(* early, until its next poll.                                                           *)
CalledForIn(k) ==
  CASE k = "cpu"  -> {"COMBINED", "RECOVERY"}
    [] k = "heap" -> {}
    [] k = "temp" -> {"THERMAL_SPIKE", "BATTERY_FAULT"}
    [] k = "batt" -> {"MEMORY_LEAK", "COMBINED", "RECOVERY"}
    [] k = "comm" -> {"COMM_BLACKOUT", "MEMORY_LEAK"}
RespondersFitTheScenario ==
  \A k \in Signals : Running(k) =>
    \/ phase \in CalledForIn(k)
    \/ k = "comm" /\ (Wrapped(comm_gap) \/ Normal(k))

(* Every thermal responder is announced once, the one included that the monitor creates   *)
(* after the watchdog has killed its predecessor: the flag is taken back in between,      *)
(* because the simulator's loop always comes round before the monitor's.  So one spike    *)
(* has one alert or, after a kill, two: not the one "per thermal event" that the comment  *)
(* in main.c promises.                                                                    *)
EachAnnouncedOnce ==
  /\ alerts \in {created - 1, created}
  /\ phase \notin {"NOMINAL", "THERMAL_SPIKE"} => alerts = created /\ created \in 1 .. 2
=============================================================================
