------------------------- MODULE MCResponderLifecycle -------------------------
(* The memory monitor, whose signal every allocation moves, beside a monitor of two   *)
(* sensors.  The watchdog leaves one responder out, as the code's resp[] does.        *)
EXTENDS ResponderLifecycle, TLC
CONSTANTS mem, sens, kHeap, kTherm, kBatt

MCMonitors == {mem, sens}
MCKinds == {kHeap, kTherm, kBatt}
MCChecks == mem :> <<kHeap>> @@ sens :> <<kTherm, kBatt>>
MCWdScan == <<mem, sens, kTherm, kHeap>>
MCSymmetry == Permutations(Addr)
=============================================================================
