------------------------------ MODULE ThresholdsProofs ------------------------------
(* What the five readers of the limits have in common, for every value of a signal.    *)
EXTENDS Thresholds, TLAPS

(* A monitor and its responder never disagree about a value: one starts the responder  *)
(* exactly where the other would not end it, so that none is started to end at once.   *)
THEOREM LimitsComplement ==
  ASSUME NEW s \in Signals, NEW n \in Int
  PROVE  Recovered(s, n) <=> ~Spawns(s, n)
<1>1. CASE s = "cpu"  BY <1>1 DEF Recovered, Spawns, THRESH_CPU_CRITICAL_PCT
<1>2. CASE s = "heap" BY <1>2 DEF Recovered, Spawns, THRESH_HEAP_CRITICAL_PCT
<1>3. CASE s = "temp" BY <1>3 DEF Recovered, Spawns, THRESH_TEMP_CRITICAL_C
<1>4. CASE s = "batt" BY <1>4 DEF Recovered, Spawns, THRESH_BATTERY_CRITICAL_V
<1>5. CASE s = "comm" BY <1>5 DEF Recovered, Spawns, THRESH_COMM_TIMEOUT_MS
<1> QED BY <1>1, <1>2, <1>3, <1>4, <1>5 DEF Signals

(* A truncated value is critical only if the value is. *)
LEMMA TruncatedAbove ==
  ASSUME NEW v \in Int, NEW limit \in Nat, Truncated(v) > limit
  PROVE  v > 10 * limit
  BY DEF Truncated

LEMMA TruncatedBelow ==
  ASSUME NEW v \in Int, NEW limit \in Nat, limit > 0, Truncated(v) < limit
  PROVE  v < 10 * limit
  BY DEF Truncated

(* Whatever starts a responder is CRIT on the status line. *)
THEOREM SpawnedIsCrit ==
  ASSUME NEW s \in Signals, NEW v \in Int, Spawns(s, Getter(s, v))
  PROVE  StatusClass(s, v) = "CRIT"
<1>1. CASE s = "cpu"
  BY <1>1, TruncatedAbove
  DEF Spawns, Getter, StatusClass, THRESH_CPU_CRITICAL_PCT, CFG_CPU_CRITICAL
<1>2. CASE s = "temp"
  BY <1>2, TruncatedAbove
  DEF Spawns, Getter, StatusClass, THRESH_TEMP_CRITICAL_C, CFG_TEMP_CRITICAL
<1>3. CASE s = "batt"
  BY <1>3, TruncatedBelow
  DEF Spawns, Getter, StatusClass, THRESH_BATTERY_CRITICAL_V, CFG_BAT_CRITICAL_MV
<1>4. CASE s = "heap"
  BY <1>4 DEF Spawns, Getter, StatusClass, THRESH_HEAP_CRITICAL_PCT, CFG_HEAP_CRITICAL
<1>5. CASE s = "comm"
  BY <1>5 DEF Spawns, Getter, StatusClass, THRESH_COMM_TIMEOUT_MS, CFG_COMM_CRITICAL
<1> QED BY <1>1, <1>2, <1>3, <1>4, <1>5 DEF Signals

(* ... and CRITICAL in the exported telemetry. *)
THEOREM CritIsCritical ==
  ASSUME NEW s \in Signals, NEW v \in Int, HeapPct(v) \in Int, StatusClass(s, v) = "CRIT"
  PROVE  ExportClass(s, v) = "CRITICAL"
  BY DEF Signals, StatusClass, ExportClass, CFG_CPU_CRITICAL, CFG_TEMP_CRITICAL,
         CFG_BAT_CRITICAL_MV, CFG_HEAP_CRITICAL, CFG_COMM_CRITICAL

(* The export has a class WARNING that no value has: both its limits are the critical   *)
(* ones.  What the status line calls WARN is NOMINAL there.                             *)
THEOREM ExportNeverWarns ==
  ASSUME NEW s \in Signals, NEW v \in Int, HeapPct(v) \in Int
  PROVE  ExportClass(s, v) \in {"CRITICAL", "NOMINAL"}
  BY DEF Signals, ExportClass, CFG_CPU_CRITICAL, CFG_TEMP_CRITICAL, CFG_BAT_CRITICAL_MV,
         CFG_HEAP_CRITICAL, CFG_COMM_CRITICAL, CFG_CPU_WARN_MAX, CFG_TEMP_WARN_MAX,
         CFG_BAT_WARN_MV, CFG_HEAP_WARN_MIN, CFG_COMM_WARN_MAX

(* Truncation hides less than one unit from a monitor: a critical value that starts no  *)
(* responder exceeds its limit by less than that.                                       *)
THEOREM TruncationHidesLessThanAUnit ==
  ASSUME NEW s \in {"cpu", "temp"}, NEW v \in Int,
         StatusClass(s, v) = "CRIT", ~Spawns(s, Getter(s, v))
  PROVE  v - 800 \in 1 .. 9
<1>1. CASE s = "cpu"
  <2>1. v > 800 BY <1>1 DEF StatusClass, CFG_CPU_CRITICAL, CFG_CPU_NORMAL_MAX
  <2>2. ~(Truncated(v) > 80) BY <1>1 DEF Spawns, Getter, THRESH_CPU_CRITICAL_PCT
  <2> QED BY <2>1, <2>2 DEF Truncated
<1>2. CASE s = "temp"
  <2>1. v > 800 BY <1>2 DEF StatusClass, CFG_TEMP_CRITICAL, CFG_TEMP_NORMAL_MAX
  <2>2. ~(Truncated(v) > 80) BY <1>2 DEF Spawns, Getter, THRESH_TEMP_CRITICAL_C
  <2> QED BY <2>1, <2>2 DEF Truncated
<1> QED BY <1>1, <1>2
=============================================================================
