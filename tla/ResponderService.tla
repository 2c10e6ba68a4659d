--------------------------- MODULE ResponderService ---------------------------
(* What the monitoring layer promises of the responders, whoever starts and ends them: *)
(* a signal has no responder or one; a responder is started only from none and only    *)
(* while its signal is critical; it is never replaced without having ended.  The free  *)
(* heap differs from the other signals: starting or ending a task changes it, so its   *)
(* responder may be started on a reading that has just become old.                     *)


CONSTANTS
  Kinds,      \* the signals
  HeapKinds,  \* those of them that starting and ending tasks can change
  Tasks       \* the identities of running tasks

VARIABLES
  crit,       \* signals that are critical now
  inst        \* inst[k]: the responders of signal k that exist

vars == <<crit, inst>>

Init ==
  /\ crit = {}
  /\ inst = [k \in Kinds |-> {}]

HeapVaries == crit' \subseteq Kinds /\ crit' \ HeapKinds = crit \ HeapKinds

Start(k) ==
  /\ inst[k] = {}
  /\ k \in crit \cup HeapKinds
  /\ \E t \in Tasks : inst' = [inst EXCEPT ![k] = {t}]
  /\ HeapVaries

End(k) ==
  /\ inst[k] # {}
  /\ inst' = [inst EXCEPT ![k] = {}]
  /\ HeapVaries

SignalsVary == crit' \subseteq Kinds /\ UNCHANGED inst

Next == SignalsVary \/ \E k \in Kinds : Start(k) \/ End(k)

Spec == Init /\ [][Next]_vars
=============================================================================
