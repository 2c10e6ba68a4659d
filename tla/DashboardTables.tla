----------------------------- MODULE DashboardTables -----------------------------
(* The tables of dashboard/serve.py: how the bridge names phases, how it infers them   *)
(* from the uptime of a status line, and which responders it shows in which phase.     *)
EXTENDS Integers

DashboardPhases ==
  {"NOMINAL", "THERMAL", "BATTERY", "COMMS", "MEMORY", "COMBINED", "RECOVERY"}

(* The simulator prints COMBINED as COMBINED_FAULT. *)
PHASE_MAP ==
  [NOMINAL |-> "NOMINAL", THERMAL_SPIKE |-> "THERMAL", BATTERY_FAULT |-> "BATTERY",
   COMM_BLACKOUT |-> "COMMS", MEMORY_LEAK |-> "MEMORY", COMBINED |-> "COMBINED",
   RECOVERY |-> "RECOVERY"]

(* The time line once more, in apply_to_state. *)
PhaseOfUptime(u) ==
  CASE u < 15 -> "NOMINAL"
    [] u \in 15 .. 34  -> "THERMAL"
    [] u \in 35 .. 54  -> "BATTERY"
    [] u \in 55 .. 69  -> "COMMS"
    [] u \in 70 .. 89  -> "MEMORY"
    [] u \in 90 .. 109 -> "COMBINED"
    [] u >= 110 -> "RECOVERY"

(* PHASE_RESPONDER_MAP, by the responders shown as ALIVE; the CPU responder has no key. *)
ShownAlive(p) ==
  CASE p = "THERMAL"  -> {"temp"}
    [] p = "BATTERY"  -> {"batt"}
    [] p = "COMMS"    -> {"comm"}
    [] p = "MEMORY"   -> {"heap"}
    [] p = "COMBINED" -> {"batt", "heap"}
    [] p \in {"NOMINAL", "RECOVERY"} -> {}
=============================================================================
