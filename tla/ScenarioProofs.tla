------------------------------- MODULE ScenarioProofs -------------------------------
(* The whole monitor in time: every signal is served, and every responder ends, within   *)
(* one period, for every lateness, every length of the run and every value of noise and  *)
(* host load that the simulator allows.                                                  *)
EXTENDS Scenario, SensorSimulatorProofs, ThresholdsProofs, FiniteSetTheorems

(* How long a signal can have waited, by what is due when.  Signals move only while no   *)
(* monitor and no responder is due; a value that was counted in the last step is thus    *)
(* the one they see.                                                                     *)
ServiceInv(k) ==
  LET m == MonitorOf(k)
  IN /\ unserved[k] <= Period(m) /\ lingering[k] <= PollPeriod(k)
     /\ monDue[m] <= Period(m) /\ resp[k] <= PollPeriod(k)
     /\ ~Running(k) => unserved[k] <= Period(m) - monDue[m]
     /\ Running(k) => lingering[k] <= PollPeriod(k) - resp[k]
     /\ monDue[m] = 0 \/ resp[k] = 0 =>
          (unserved[k] > 0 => ~Normal(k)) /\ (lingering[k] > 0 => Normal(k))
     /\ wdDue = 0 /\ Running(k) => unserved[k] = 0

IInv == SimInv /\ TypeOK /\ \A k \in Signals : ServiceInv(k)

-----------------------------------------------------------------------------
(* Signals and their monitors. *)

LEMMA MonitorOfSignal ==
  ASSUME NEW k \in Signals
  PROVE  /\ MonitorOf(k) \in Monitors
         /\ \A m \in Monitors : k \in Checked(m) <=> m = MonitorOf(k)
<1>1. \E m \in Monitors : /\ k \in Checked(m)
                          /\ \A n \in Monitors : k \in Checked(n) <=> n = m
  <2>1. CASE k = "cpu"  BY <2>1 DEF Monitors, Checked
  <2>2. CASE k = "heap" BY <2>2 DEF Monitors, Checked
  <2>3. CASE k \in {"temp", "batt", "comm"} BY <2>3 DEF Monitors, Checked
  <2> QED BY <2>1, <2>2, <2>3 DEF Signals
<1> QED BY <1>1 DEF MonitorOf

LEMMA Periods ==
  ASSUME NEW k \in Signals
  PROVE  /\ Period(MonitorOf(k)) \in {10, 20} /\ PollPeriod(k) \in {5, 10}
         /\ \A m \in Monitors : Period(m) \in {10, 20}
  BY MonitorOfSignal DEF Period, PollPeriod

(* At most five responders and 64 leaks leave more than a third of the heap. *)
LEMMA RespondersCounted ==
  Cardinality({k \in Signals : Running(k)}) \in 0 .. 5
<1>1. IsFiniteSet(Signals) /\ Cardinality(Signals) = 5
  <2>1. Signals = ((({"cpu"} \cup {"heap"}) \cup {"temp"}) \cup {"batt"}) \cup {"comm"}
    BY DEF Signals
  <2>2. IsFiniteSet({"cpu"}) /\ Cardinality({"cpu"}) = 1
    BY FS_Singleton
  <2>3. IsFiniteSet({"cpu"} \cup {"heap"}) /\ Cardinality({"cpu"} \cup {"heap"}) = 2
    BY <2>2, FS_AddElement
  <2>4. /\ IsFiniteSet(({"cpu"} \cup {"heap"}) \cup {"temp"})
        /\ Cardinality(({"cpu"} \cup {"heap"}) \cup {"temp"}) = 3
    BY <2>3, FS_AddElement
  <2>5. /\ IsFiniteSet((({"cpu"} \cup {"heap"}) \cup {"temp"}) \cup {"batt"})
        /\ Cardinality((({"cpu"} \cup {"heap"}) \cup {"temp"}) \cup {"batt"}) = 4
    BY <2>4, FS_AddElement
  <2> QED BY <2>1, <2>5, FS_AddElement
<1>2. {k \in Signals : Running(k)} \subseteq Signals
  OBVIOUS
<1>3. /\ IsFiniteSet({k \in Signals : Running(k)})
      /\ Cardinality({k \in Signals : Running(k)}) <= Cardinality(Signals)
  BY <1>1, <1>2, FS_Subset
<1>4. Cardinality({k \in Signals : Running(k)}) \in Nat
  BY <1>3, FS_CardinalityType
<1> QED BY <1>1, <1>3, <1>4

LEMMA RawType ==
  ASSUME SimTypeOK, NEW k \in Signals
  PROVE  Raw(k) \in Int /\ Getter(k, Raw(k)) \in Int
<1>1. HeapFree \in Int
  BY RespondersCounted
  DEF SimTypeOK, HeapFree, StartupBytes, TaskBytes, LeakBytes, configTOTAL_HEAP_SIZE
<1>2. Raw(k) \in Int
  BY <1>1, SimulatorAssumption DEF SimTypeOK, Raw, Signals
<1>3. \A v \in Int : Truncated(v) \in Int /\ HeapPct(v) \in Int
  BY DEF Truncated, HeapPct, configTOTAL_HEAP_SIZE
<1> QED BY <1>2, <1>3 DEF Getter, Signals

(* Monitor and responder draw the same line. *)
LEMMA NormalIsNotCritical ==
  ASSUME SimTypeOK, NEW k \in Signals
  PROVE  Normal(k) <=> ~Critical(k)
  BY RawType, LimitsComplement DEF Normal, Critical

LEMMA HeapIsNormal ==
  ASSUME SimTypeOK
  PROVE  Normal("heap")
<1> DEFINE n == Cardinality({k \in Signals : Running(k)})
<1>1. n \in 0 .. 5
  BY RespondersCounted
<1>2. s_leak_count \in 0 .. 64
  BY DEF SimTypeOK, MAX_LEAK_PTRS
<1>3. HeapFree = 262144 - 90000 - 8500 * n - 528 * s_leak_count
  BY DEF HeapFree, StartupBytes, TaskBytes, LeakBytes, configTOTAL_HEAP_SIZE
<1> HIDE DEF n
<1>4. HeapFree \in Int /\ HeapFree >= 90000
  BY <1>1, <1>2, <1>3
<1>5. HeapPct(HeapFree) >= 20
  BY <1>4 DEF HeapPct, configTOTAL_HEAP_SIZE
<1> QED BY <1>5 DEF Normal, Recovered, Getter, Raw, THRESH_HEAP_CRITICAL_PCT

-----------------------------------------------------------------------------
(* The scenario runs the simulator's own steps. *)

LEMMA SimulatorRuns ==
  ASSUME [Next]_vars
  PROVE  [SimNext]_simVars
  BY DEF Next, vars, WatchdogPass, Poll, MonitorPass, GroundPass, SimulatorStep, Pass, SimNext

LEMMA ScenarioImplementsSimulator == Spec => SimSpec
<1>1. Init => SimInit BY DEF Init
<1>2. [Next]_vars => [SimNext]_simVars BY SimulatorRuns
<1> QED BY <1>1, <1>2, PTL DEF Spec, SimSpec

(* Of these only the simulator's own steps change what the monitors see. *)
LEMMA SignalsUnchanged ==
  ASSUME \/ WatchdogPass
         \/ \E k \in Signals : Poll(k)
         \/ \E m \in Monitors : MonitorPass(m)
         \/ GroundPass
         \/ Pass
  PROVE  UNCHANGED <<cpu_load_pct, temperature_c, battery_v, comm_gap>>
  BY DEF WatchdogPass, Poll, MonitorPass, GroundPass, Ground, Pass, Tick, simVars, signalVars,
         linkVars

-----------------------------------------------------------------------------
(* IInv holds at the start, and every step preserves it. *)

(* The simulator's flag and the two counters around it. *)
LEMMA AlertTypes ==
  ASSUME IInv, [Next]_vars
  PROVE  thermal_alerted' \in BOOLEAN /\ alerts' \in Nat /\ created' \in Nat
<1>1. thermal_alerted' \in BOOLEAN
  <2>1. thermal_alerted \in BOOLEAN
    BY DEF IInv, TypeOK
  <2>2. CASE SimulatorStep
    BY <2>1, <2>2, Zenon DEF SimulatorStep, ThermalAlert, alertVars
  <2>3. CASE ~SimulatorStep
    <3>1. thermal_alerted' = thermal_alerted
      BY <2>3 DEF Next, vars, alertVars, WatchdogPass, Poll, MonitorPass, GroundPass, Pass
    <3> QED BY <2>1, <3>1
  <2> QED BY <2>2, <2>3
<1>2. alerts' \in {alerts, alerts + 1} /\ created' \in {created, created + 1}
  BY DEF Next, vars, alertVars, taskVars, WatchdogPass, Poll, MonitorPass, GroundPass,
         SimulatorStep, ThermalAlert, Pass
<1>3. alerts \in Nat /\ created \in Nat
  BY DEF IInv, TypeOK
<1> QED BY <1>1, <1>2, <1>3

LEMMA TypeOKStep ==
  ASSUME IInv, SimTypeOK', [Next]_vars
  PROVE  TypeOK'
<1> DEFINE TasksOK == /\ monDue \in [Monitors -> 0 .. 20] /\ wdDue \in 0 .. WdPeriod
                      /\ resp \in [Signals -> {NoTask} \cup 0 .. 10]
                      /\ spawnStamp \in [Aged -> Nat]
                      /\ unserved \in [Signals -> Nat] /\ lingering \in [Signals -> Nat]
<1>0. TasksOK /\ SimTypeOK
  BY DEF IInv, TypeOK
<1>1. ASSUME WatchdogPass PROVE TasksOK'
  BY <1>0, <1>1 DEF WatchdogPass, WdPeriod, SimTypeOK, NoTask, Aged, Signals, historyVars
<1>2. ASSUME \E k \in Signals : Poll(k) PROVE TasksOK'
  BY <1>0, <1>2 DEF Poll, PollPeriod, NoTask, historyVars
<1>3. ASSUME \E m \in Monitors : MonitorPass(m) PROVE TasksOK'
  BY <1>0, <1>3 DEF MonitorPass, Period, NoTask, historyVars
<1>4. ASSUME GroundPass \/ SimulatorStep PROVE TasksOK'
  BY <1>0, <1>4 DEF GroundPass, SimulatorStep, taskVars, historyVars
<1>5. ASSUME Pass PROVE TasksOK'
  <2>1. wdDue' \in 0 .. WdPeriod
    BY <1>0, <1>5 DEF Pass, NoMonitorReady, NoResponderReady, NoWatchdogReady, WdPeriod
  <2>2. monDue' \in [Monitors -> 0 .. 20]
    BY <1>0, <1>5 DEF Pass, NoMonitorReady
  <2>3. resp' \in [Signals -> {NoTask} \cup 0 .. 10]
    BY <1>0, <1>5 DEF Pass, NoMonitorReady, NoResponderReady, Running, NoTask
  <2>4. unserved' \in [Signals -> Nat] /\ lingering' \in [Signals -> Nat]
    BY <1>0, <1>5 DEF Pass
  <2>5. spawnStamp' = spawnStamp
    BY <1>5 DEF Pass
  <2> QED BY <1>0, <2>1, <2>2, <2>3, <2>4, <2>5
<1>6. ASSUME UNCHANGED vars PROVE TasksOK'
  BY <1>0, <1>6 DEF vars, taskVars, historyVars
<1>7. TasksOK'
  BY <1>1, <1>2, <1>3, <1>4, <1>5, <1>6 DEF Next
<1>8. thermal_alerted' \in BOOLEAN /\ alerts' \in Nat /\ created' \in Nat
  BY AlertTypes
<1> HIDE DEF TasksOK
<1>9. TypeOK' <=> /\ SimTypeOK' /\ TasksOK'
                  /\ thermal_alerted' \in BOOLEAN /\ alerts' \in Nat /\ created' \in Nat
  BY Zenon DEF TypeOK, TasksOK
<1> QED BY <1>7, <1>8, <1>9, Zenon

LEMMA ServiceInvInit ==
  ASSUME Init, NEW k \in Signals
  PROVE  ServiceInv(k)
<1>1. monDue[MonitorOf(k)] = 0 /\ resp[k] = NoTask /\ unserved[k] = 0 /\ lingering[k] = 0
  BY MonitorOfSignal DEF Init
<1> QED BY <1>1, Periods DEF ServiceInv, Running, NoTask

(* The facts about one signal that all actions need. *)
LEMMA SignalTypes ==
  ASSUME TypeOK, NEW k \in Signals
  PROVE  /\ MonitorOf(k) \in Monitors
         /\ monDue[MonitorOf(k)] \in 0 .. 20
         /\ resp[k] \in {NoTask} \cup 0 .. 10
         /\ unserved[k] \in Nat /\ lingering[k] \in Nat
         /\ Normal(k) <=> ~Critical(k)
  BY MonitorOfSignal, NormalIsNotCritical DEF TypeOK

LEMMA ServiceInvStep ==
  ASSUME IInv, SimTypeOK', TypeOK', [Next]_vars, NEW k \in Signals
  PROVE  ServiceInv(k)'
<1> DEFINE m == MonitorOf(k)
<1>0. /\ TypeOK /\ SimTypeOK /\ ServiceInv(k)
      /\ m \in Monitors /\ \A n \in Monitors : k \in Checked(n) <=> n = m
      /\ monDue[m] \in 0 .. 20 /\ resp[k] \in {NoTask} \cup 0 .. 10
      /\ unserved[k] \in Nat /\ lingering[k] \in Nat
      /\ Normal(k) <=> ~Critical(k)
      /\ Period(m) \in {10, 20} /\ PollPeriod(k) \in {5, 10}
  BY SignalTypes, MonitorOfSignal, Periods DEF IInv, SimInv
(* Steps that leave the sampled signals alone do not change what is normal. *)
<1>n. ASSUME UNCHANGED <<cpu_load_pct, temperature_c, battery_v, comm_gap>>
      PROVE  Normal(k)' <=> Normal(k)
  <2>1. CASE k = "heap"
    <3>1. Normal("heap") BY HeapIsNormal DEF IInv, SimInv
    <3>2. Normal("heap")' BY HeapIsNormal, PTL
    <3> QED BY <2>1, <3>1, <3>2
  <2>2. CASE k # "heap"
    <3>1. Raw(k)' = Raw(k) BY <1>n, <2>2 DEF Raw, Signals
    <3> QED BY <3>1 DEF Normal
  <2> QED BY <2>1, <2>2
<1> USE <1>0 DEF ServiceInv, Running, NoTask, taskVars, historyVars
<1>1. CASE WatchdogPass
  <2>1. Normal(k)' <=> Normal(k) BY <1>1, <1>n, SignalsUnchanged
  <2>2. wdDue = 0 /\ wdDue' = WdPeriod /\ UNCHANGED <<monDue, unserved, lingering>>
    BY <1>1 DEF WatchdogPass
  <2>3. resp'[k] \in {NoTask, resp[k]}
    BY <1>1 DEF WatchdogPass
  <2> QED BY <2>1, <2>2, <2>3 DEF WdPeriod
<1>2. CASE \E j \in Signals : Poll(j)
  <2>1. Normal(k)' <=> Normal(k) BY <1>2, <1>n, SignalsUnchanged
  <2>2. wdDue # 0 /\ UNCHANGED <<wdDue, monDue, unserved, lingering>>
    BY <1>2 DEF Poll, NoWatchdogReady
  <2>3. \/ resp'[k] = resp[k]
        \/ resp[k] = 0 /\ resp'[k] = IF Normal(k) THEN NoTask ELSE PollPeriod(k)
    BY <1>2 DEF Poll, TypeOK
  <2> QED BY <2>1, <2>2, <2>3
<1>3. ASSUME NEW n \in Monitors, MonitorPass(n)
      PROVE  ServiceInv(k)'
  <2>1. Normal(k)' <=> Normal(k) BY <1>3, <1>n, SignalsUnchanged
  <2>2. wdDue # 0 /\ UNCHANGED <<wdDue, unserved, lingering>> /\ resp[k] # 0 /\ monDue[n] = 0
    BY <1>3 DEF MonitorPass, NoResponderReady, NoWatchdogReady
  <2>3. CASE n = m
    <3>1. monDue'[m] = Period(m)
      BY <1>3, <2>3 DEF MonitorPass, TypeOK
    <3>2. resp'[k] = IF ~Critical(k) THEN NoTask ELSE IF Running(k) THEN resp[k] ELSE 0
      BY <1>3, <2>3 DEF MonitorPass
    <3> QED BY <2>1, <2>2, <2>3, <3>1, <3>2
  <2>4. CASE n # m
    <3>1. monDue'[m] = monDue[m] /\ resp'[k] = resp[k]
      BY <1>3, <2>4 DEF MonitorPass, TypeOK
    <3> QED BY <2>1, <2>2, <3>1
  <2> QED BY <2>3, <2>4
<1>4. CASE GroundPass
  <2>1. Normal(k)' <=> Normal(k) BY <1>4, <1>n, SignalsUnchanged
  <2> QED BY <1>4, <2>1 DEF GroundPass
<1>5. CASE SimulatorStep
  <2>1. monDue[m] # 0 /\ resp[k] # 0 /\ UNCHANGED <<monDue, wdDue, resp, unserved, lingering>>
    BY <1>5 DEF SimulatorStep, NoMonitorReady, NoResponderReady
  <2> QED BY <2>1
<1>6. CASE Pass
  <2>1. Normal(k)' <=> Normal(k) BY <1>6, <1>n, SignalsUnchanged
  <2>2. monDue[m] # 0 /\ resp[k] # 0
    BY <1>6 DEF Pass, NoMonitorReady, NoResponderReady
  <2>3. /\ monDue'[m] = monDue[m] - 1
        /\ resp'[k] = IF Running(k) THEN resp[k] - 1 ELSE NoTask
        /\ unserved'[k] = IF ~Running(k) /\ ~Normal(k) THEN unserved[k] + 1 ELSE 0
        /\ lingering'[k] = IF Running(k) /\ ~Critical(k) THEN lingering[k] + 1 ELSE 0
    BY <1>6 DEF Pass
  <2> QED BY <2>1, <2>2, <2>3
<1>7. CASE UNCHANGED vars
  <2>1. Normal(k)' <=> Normal(k)
    BY <1>7, <1>n DEF vars, simVars, signalVars, linkVars
  <2> QED BY <1>7, <2>1 DEF vars
<1> QED BY <1>1, <1>2, <1>3, <1>4, <1>5, <1>6, <1>7 DEF Next

LEMMA IInvHolds == Spec => []IInv
<1>1. Init => IInv
  <2> SUFFICES ASSUME Init PROVE IInv
    OBVIOUS
  <2>1. SimInv BY SimInvInit DEF Init
  <2>2. TypeOK
    <3>1. /\ monDue \in [Monitors -> 0 .. 20] /\ wdDue \in 0 .. WdPeriod
          /\ resp \in [Signals -> {NoTask} \cup 0 .. 10] /\ spawnStamp \in [Aged -> Nat]
          /\ alerts \in Nat /\ created \in Nat
          /\ unserved \in [Signals -> Nat] /\ lingering \in [Signals -> Nat]
      BY DEF Init, WdPeriod
    <3>2. SimTypeOK BY <2>1 DEF SimInv
    <3> QED BY <3>1, <3>2, Zenon DEF Init, TypeOK
  <2> QED BY <2>1, <2>2, ServiceInvInit DEF IInv
<1>2. IInv /\ [Next]_vars => IInv'
  <2> SUFFICES ASSUME IInv, [Next]_vars PROVE IInv'
    OBVIOUS
  <2>1. SimInv' BY SimulatorRuns, SimInvStep DEF IInv
  <2>2. SimTypeOK' BY <2>1 DEF SimInv
  <2>3. TypeOK' BY <2>2, TypeOKStep
  <2> QED BY <2>1, <2>2, <2>3, ServiceInvStep DEF IInv
<1> QED BY <1>1, <1>2, PTL DEF Spec

-----------------------------------------------------------------------------
(* The properties of the scenario. *)

THEOREM ScenarioTypes == Spec => []TypeOK
<1>1. IInv => TypeOK BY DEF IInv
<1> QED BY <1>1, IInvHolds, PTL

(* No critical signal waits longer than its monitor's period for a responder, kills by   *)
(* the watchdog included.                                                                *)
THEOREM SignalsAreServed == Spec => []ServedInTime
<1>1. IInv => ServedInTime BY DEF IInv, ServiceInv, ServedInTime
<1> QED BY <1>1, IInvHolds, PTL

(* No responder outlives its signal by more than its own poll period. *)
THEOREM RespondersEnd == Spec => []EndsInTime
<1>1. IInv => EndsInTime BY DEF IInv, ServiceInv, EndsInTime
<1> QED BY <1>1, IInvHolds, PTL

(* What holds of the simulator holds of it among the other tasks. *)
THEOREM ScenarioAgrees == Spec => []DashboardPhaseAgrees
  BY ScenarioImplementsSimulator, AgreementHolds, PTL

THEOREM ScenarioLeaks == Spec => []LeaksBounded
  BY ScenarioImplementsSimulator, LeaksStayBounded, PTL

THEOREM ScenarioNoEarlyAlarm == Spec => []NoAlarmBeforeBlackout
  BY ScenarioImplementsSimulator, NoEarlyAlarm, PTL

THEOREM ScenarioPhasesInOrder == Spec => PhasesInOrder
  BY ScenarioImplementsSimulator, ScenarioInOrder, PTL
=============================================================================
