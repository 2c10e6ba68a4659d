-------------------------------- MODULE Thresholds --------------------------------
(* Where each part of the program draws the line between normal and critical.  The    *)
(* same limits appear in include/config.h and include/task_scheduler.h, and five      *)
(* pieces of code compare a signal with them: the monitors (start a responder), the   *)
(* responders (end), the status line, the telemetry export and the alert of           *)
(* vSimulatorTask.  Monitors and responders see integers, the others floats.          *)
(*                                                                                    *)
(* Fixed point: a CPU load in tenths of a percent, a temperature in tenths of a degree,*)
(* a battery voltage in tenths of a millivolt; a gap in milliseconds, heap in bytes.  *)
EXTENDS Integers

Signals == {"cpu", "heap", "temp", "batt", "comm"}

CFG_CPU_NORMAL_MAX  == 60
CFG_CPU_CRITICAL    == 80
CFG_CPU_WARN_MAX    == 80
CFG_HEAP_NORMAL_MIN == 40
CFG_HEAP_WARN_MIN   == 20
CFG_HEAP_CRITICAL   == 20
CFG_BAT_NORMAL_MV   == 3600
CFG_BAT_WARN_MV     == 3300
CFG_BAT_CRITICAL_MV == 3300
CFG_TEMP_NORMAL_MAX == 60
CFG_TEMP_WARN_MAX   == 80
CFG_TEMP_CRITICAL   == 80
CFG_COMM_NORMAL_MAX == 1000
CFG_COMM_WARN_MAX   == 3000
CFG_COMM_CRITICAL   == 3000

THRESH_CPU_CRITICAL_PCT   == 80
THRESH_HEAP_CRITICAL_PCT  == 20
THRESH_BATTERY_CRITICAL_V == 3300
THRESH_TEMP_CRITICAL_C    == 80
THRESH_COMM_TIMEOUT_MS    == 3000

configTOTAL_HEAP_SIZE == 262144

-----------------------------------------------------------------------------
(* A C conversion from float to integer drops the fraction, towards zero. *)
Truncated(tenths) == IF tenths >= 0 THEN tenths \div 10 ELSE -((-tenths) \div 10)

(* uint32_t percentage of the free heap. *)
HeapPct(free) == (free * 100) \div configTOTAL_HEAP_SIZE

(* What simulation.c hands to monitors and responders for the raw signal v. *)
Getter(s, v) ==
  CASE s \in {"cpu", "temp", "batt"} -> Truncated(v)
    [] s = "heap" -> HeapPct(v)
    [] s = "comm" -> v

(* Mutant: the battery limit as a comment in responders.c gives it, "330 in mV units". *)
SpawnsAt330(s, n) ==
  CASE s = "cpu"  -> n > THRESH_CPU_CRITICAL_PCT
    [] s = "heap" -> n < THRESH_HEAP_CRITICAL_PCT
    [] s = "temp" -> n > THRESH_TEMP_CRITICAL_C
    [] s = "batt" -> n < 330
    [] s = "comm" -> n > THRESH_COMM_TIMEOUT_MS

(* The condition under which a monitor starts the responder (and else ends it). *)
Spawns(s, n) ==
  CASE s = "cpu"  -> n > THRESH_CPU_CRITICAL_PCT
    [] s = "heap" -> n < THRESH_HEAP_CRITICAL_PCT
    [] s = "temp" -> n > THRESH_TEMP_CRITICAL_C
    [] s = "batt" -> n < THRESH_BATTERY_CRITICAL_V
    [] s = "comm" -> n > THRESH_COMM_TIMEOUT_MS

(* Mutant: at the limit the responder stays. *)
RecoveredStrictly(s, n) ==
  CASE s = "cpu"  -> n < THRESH_CPU_CRITICAL_PCT
    [] s = "heap" -> n > THRESH_HEAP_CRITICAL_PCT
    [] s = "temp" -> n < THRESH_TEMP_CRITICAL_C
    [] s = "batt" -> n > THRESH_BATTERY_CRITICAL_V
    [] s = "comm" -> n < THRESH_COMM_TIMEOUT_MS

(* The condition under which a responder ends itself. *)
Recovered(s, n) ==
  CASE s = "cpu"  -> n <= THRESH_CPU_CRITICAL_PCT
    [] s = "heap" -> n >= THRESH_HEAP_CRITICAL_PCT
    [] s = "temp" -> n <= THRESH_TEMP_CRITICAL_C
    [] s = "batt" -> n >= THRESH_BATTERY_CRITICAL_V
    [] s = "comm" -> n <= THRESH_COMM_TIMEOUT_MS

-----------------------------------------------------------------------------
(* log_status_line compares the floats themselves. *)
StatusClass(s, v) ==
  LET above(crit, warn) == IF v > crit THEN "CRIT" ELSE IF v > warn THEN "WARN" ELSE "OK"
      below(n, crit, warn) == IF n < crit THEN "CRIT" ELSE IF n < warn THEN "WARN" ELSE "OK"
  IN CASE s = "cpu"  -> above(10 * CFG_CPU_CRITICAL, 10 * CFG_CPU_NORMAL_MAX)
       [] s = "temp" -> above(10 * CFG_TEMP_CRITICAL, 10 * CFG_TEMP_NORMAL_MAX)
       [] s = "batt" -> below(v, 10 * CFG_BAT_CRITICAL_MV, 10 * CFG_BAT_NORMAL_MV)
       [] s = "comm" -> above(CFG_COMM_CRITICAL, CFG_COMM_NORMAL_MAX)
       [] s = "heap" -> below(HeapPct(v), CFG_HEAP_CRITICAL, CFG_HEAP_NORMAL_MIN)

(* The classify_... functions of telemetry_export.c. *)
ExportClass(s, v) ==
  LET above(crit, warn) ==
        IF v >= crit THEN "CRITICAL" ELSE IF v >= warn THEN "WARNING" ELSE "NOMINAL"
      below(n, crit, warn) ==
        IF n <= crit THEN "CRITICAL" ELSE IF n <= warn THEN "WARNING" ELSE "NOMINAL"
  IN CASE s = "cpu"  -> above(10 * CFG_CPU_CRITICAL, 10 * CFG_CPU_WARN_MAX)
       [] s = "temp" -> above(10 * CFG_TEMP_CRITICAL, 10 * CFG_TEMP_WARN_MAX)
       [] s = "batt" -> below(v, 10 * CFG_BAT_CRITICAL_MV, 10 * CFG_BAT_WARN_MV)
       [] s = "comm" -> above(CFG_COMM_CRITICAL, CFG_COMM_WARN_MAX)
       [] s = "heap" -> below(HeapPct(v), CFG_HEAP_CRITICAL, CFG_HEAP_WARN_MIN)
=============================================================================
