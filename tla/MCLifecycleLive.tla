--------------------------- MODULE MCLifecycleLive ---------------------------
(* One monitor with two signals.  The watchdog watches one of the two responders, as *)
(* the code's resp[] leaves out the CPU responder.                                   *)
EXTENDS ResponderLifecycle, TLC
CONSTANTS sens, kTherm, kBatt

MCChecks == sens :> <<kTherm, kBatt>>
MCWdScan == <<sens, kBatt>>
=============================================================================
