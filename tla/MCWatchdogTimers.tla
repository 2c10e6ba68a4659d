----------------------------- MODULE MCWatchdogTimers -----------------------------
(* Instances of the watchdog's timers, with times of a few ticks. *)
EXTENDS WatchdogTimers

CONSTANTS thermal, battery, simTask

TrackBoth == <<thermal, battery>>
TrackOne  == <<thermal>>
=============================================================================
