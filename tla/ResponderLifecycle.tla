---------------------------- MODULE ResponderLifecycle ----------------------------
(* The dynamic-task core of the spacecraft monitor: the Layer-1 monitors spawn and *)
(* kill one responder task per signal, responders delete themselves, the watchdog  *)
(* recreates monitors and kills responders, all of them through shared task        *)
(* handles that no lock protects.  The FreeRTOS kernel is preemptive with fixed    *)
(* priorities on one core: a task takes a step only while no task of a higher      *)
(* priority is ready (CanRun), tasks of equal priority are time-sliced, and a      *)
(* timer may release a sleeping task between any two steps.  Time is abstracted    *)
(* here: a delay ends, and a responder's time to live expires, at any moment       *)
(* (the timers have a module of their own, WatchdogTimers).                        *)
(*                                                                                 *)
(* Sources: src/task_scheduler.c, src/monitors.c, src/responders.c,                *)
(* src/tasks/watchdog.c and the kernel calls they make.                            *)
EXTENDS Integers, Sequences

CONSTANTS
  Monitors,    \* the always-on monitor tasks
  Kinds,       \* the signals; each has one responder task function and one handle
  HeapKinds,   \* the kinds whose signal is the free heap, which allocation changes
  Checks,      \* for each monitor, the kinds it checks, in the order of its loop
  WdScan,      \* what a watchdog pass visits: the monitors, then the kinds of resp[]
  Addr,        \* heap blocks that can hold a task control block
  NULL,        \* the null task handle
  FROZEN,      \* the event bit EVT_TASK_FROZEN; the other bits are the kinds
  QueueLength  \* capacity of a monitor's data queue

ASSUME ConstantAssumption ==
  /\ Monitors \cap Kinds = {}
  /\ HeapKinds \subseteq Kinds
  /\ Checks \in [Monitors -> Seq(Kinds)]
  /\ \A m \in Monitors : Len(Checks[m]) > 0
  /\ \A m, n \in Monitors : \A i \in DOMAIN Checks[m], j \in DOMAIN Checks[n] :
        Checks[m][i] = Checks[n][j] => m = n /\ i = j
  /\ WdScan \in Seq(Monitors \cup Kinds)
  /\ NULL \notin Addr \cup Monitors \cup Kinds
  /\ FROZEN \notin Kinds
  /\ QueueLength \in Nat

VARIABLES
  crit,        \* kinds whose signal is beyond its critical threshold now
  role,        \* role[a]: the monitor or kind whose task lives in block a, or NULL
  pc,          \* pc[a]: control state of the task in block a
  chk,         \* chk[a]: index in Checks of the check a monitor is performing
  seen,        \* seen[a]: kinds a monitor read as critical at the top of its loop
  monHandle,   \* x...MonitorHandle, one per monitor
  respHandle,  \* x...ResponderHandle, one per kind
  bits,        \* bits set in xSystemEventGroup
  rec,         \* bits the recovery manager is handling; {} while it waits
  dataQueue,   \* number of samples in each monitor's data queue
  wd,          \* position of the watchdog in WdScan; 0 while it sleeps
  halted       \* the process has crashed

vars == <<crit, role, pc, chk, seen, monHandle, respHandle, bits, rec, dataQueue,
          wd, halted>>

taskVars   == <<role, pc, chk, seen>>
handleVars == <<monHandle, respHandle>>

(* Mutants of the three priorities whose order carries the properties below. *)
RecoveryBelowMonitors  == 2
RespondersLikeSimulator == 1
SimulatorLikeMonitors  == 3

PRIORITY_SAFETY_WATCHDOG == 10
PRIORITY_SAFETY_RECOVERY == 8
PRIORITY_RESPONDER       == 7
PRIORITY_CORE_MONITOR    == 3
PRIORITY_SIMULATOR       == 1
PRIORITY_IDLE            == 0

MonitorPc   == {"sleep", "read", "check", "spawn", "create", "kill", "delete",
                "clear", "spin"}
ResponderPc == {"delay", "poll", "unhandle", "exit"}

(* Position of a watchdog caught forever in vApplicationMallocFailedHook. *)
WdSpin == Len(WdScan) + 1

TypeOK ==
  /\ crit \subseteq Kinds
  /\ role \in [Addr -> Monitors \cup Kinds \cup {NULL}]
  /\ pc \in [Addr -> MonitorPc \cup ResponderPc \cup {"free", "zombie"}]
  /\ chk \in [Addr -> Nat]
  /\ seen \in [Addr -> SUBSET Kinds]
  /\ monHandle \in [Monitors -> Addr]
  /\ respHandle \in [Kinds -> Addr \cup {NULL}]
  /\ bits \subseteq Kinds \cup {FROZEN}
  /\ rec \subseteq Kinds \cup {FROZEN}
  /\ dataQueue \in [Monitors -> 0 .. QueueLength]
  /\ wd \in 0 .. WdSpin
  /\ halted \in BOOLEAN
  /\ \A a \in Addr :
       /\ role[a] = NULL <=> pc[a] \in {"free", "zombie"}
       /\ role[a] \in Monitors => pc[a] \in MonitorPc
       /\ role[a] \in Kinds => pc[a] \in ResponderPc
       /\ pc[a] \in MonitorPc \ {"sleep", "read"} => chk[a] \in DOMAIN Checks[role[a]]

-----------------------------------------------------------------------------
(* The kernel: which task may take the next step. *)

Live(a)  == role[a] # NULL
Ready(a) == Live(a) /\ pc[a] \notin {"sleep", "delay"}
Free     == {a \in Addr : pc[a] = "free"}

TaskPriority(a) ==
  IF role[a] \in Kinds THEN PRIORITY_RESPONDER ELSE PRIORITY_CORE_MONITOR

(* No task of a higher priority is ready, and the process has not crashed. *)
CanRun(p) ==
  /\ ~halted
  /\ wd # 0 => p >= PRIORITY_SAFETY_WATCHDOG
  /\ rec # {} => p >= PRIORITY_SAFETY_RECOVERY
  /\ \A a \in Addr : Ready(a) => p >= TaskPriority(a)

(* xEventGroupSetBits: when the recovery manager waits it is released with the new *)
(* bits, and its clear-on-exit removes them; while it is busy they accumulate.     *)
SetBits(B) ==
  IF rec = {} THEN rec' = bits \cup B /\ bits' = {}
              ELSE bits' = bits \cup B /\ UNCHANGED rec

(* Allocating a block can make the free heap critical, freeing one can end that. *)
HeapShrinks == \E H \in SUBSET HeapKinds : crit' = crit \cup H
HeapGrows   == \E H \in SUBSET HeapKinds : crit' = crit \ H

(* Mutant: a blocked task counts as dead. *)
BlockedIsDead(h) ==
  CASE pc[h] \in {"zombie", "sleep"} -> {FALSE}
    [] pc[h] = "free"               -> BOOLEAN
    [] OTHER                        -> {TRUE}

(* eTaskGetState(h) as task_alive reads it.  A block that was freed may have been *)
(* overwritten by any later allocation, so the answer for it is arbitrary.        *)
AliveReadings(h) ==
  CASE pc[h] = "zombie" -> {FALSE}
    [] pc[h] = "free"   -> BOOLEAN
    [] OTHER            -> {TRUE}

-----------------------------------------------------------------------------
(* Layer-1 monitors: vCPUMonitorTask, vMemoryMonitorTask, vSensorMonitorTask. *)

MonitorAt(a, l) ==
  /\ role[a] \in Monitors
  /\ pc[a] = l
  /\ CanRun(PRIORITY_CORE_MONITOR)

(* Mutant: one check too many. *)
OnePastLast(a) == chk[a] > Len(Checks[role[a]])

Kind(a)     == Checks[role[a]][chk[a]]
LastOne(a)  == chk[a] = Len(Checks[role[a]])

(* Continue with the next check of the loop, or sleep until the next period. *)
NextCheck(a) ==
  /\ pc'   = [pc   EXCEPT ![a] = IF LastOne(a) THEN "sleep" ELSE "check"]
  /\ chk'  = [chk  EXCEPT ![a] = IF LastOne(a) THEN 0 ELSE @ + 1]
  /\ seen' = [seen EXCEPT ![a] = IF LastOne(a) THEN {} ELSE @]
  /\ UNCHANGED role

Goto(a, l) == pc' = [pc EXCEPT ![a] = l] /\ UNCHANGED <<role, chk, seen>>

(* vTaskDelayUntil returns: the tick interrupt makes the monitor ready. *)
MonWake(a) ==
  /\ ~halted /\ role[a] \in Monitors /\ pc[a] = "sleep"
  /\ Goto(a, "read")
  /\ UNCHANGED <<crit, handleVars, bits, rec, dataQueue, wd, halted>>

(* Read the signals into the local record and send it, dropped when the queue is full. *)
MonRead(a) ==
  /\ MonitorAt(a, "read")
  /\ seen' = [seen EXCEPT ![a] = {k \in crit : \E i \in DOMAIN Checks[role[a]] :
                                                  k = Checks[role[a]][i]}]
  /\ pc'   = [pc EXCEPT ![a] = "check"]
  /\ chk'  = [chk EXCEPT ![a] = 1]
  /\ dataQueue' = [dataQueue EXCEPT ![role[a]] = IF @ < QueueLength THEN @ + 1 ELSE @]
  /\ UNCHANGED <<crit, role, handleVars, bits, rec, wd, halted>>

(* Mutant: the threshold is not compared. *)
CheckAlwaysCritical(a) ==
  /\ MonitorAt(a, "check")
  /\ SetBits({Kind(a)})
  /\ Goto(a, "spawn")
  /\ UNCHANGED <<crit, handleVars, dataQueue, wd, halted>>

(* The threshold test of one signal, up to the call of the spawn or kill helper. *)
MonCheckCritical(a) ==
  /\ MonitorAt(a, "check") /\ Kind(a) \in seen[a]
  /\ SetBits({Kind(a)})
  /\ Goto(a, "spawn")
  /\ UNCHANGED <<crit, handleVars, dataQueue, wd, halted>>

MonCheckNormal(a) ==
  /\ MonitorAt(a, "check") /\ Kind(a) \notin seen[a]
  /\ bits' = bits \ {Kind(a)}
  /\ Goto(a, "kill")
  /\ UNCHANGED <<crit, handleVars, rec, dataQueue, wd, halted>>

(* Mutant: the handle is not tested. *)
SpawnUntested(a) ==
  /\ MonitorAt(a, "spawn")
  /\ Goto(a, "create")
  /\ UNCHANGED <<crit, handleVars, bits, rec, dataQueue, wd, halted>>

(* Mutant: the test of the handle is inverted. *)
SpawnInverted(a) ==
  /\ MonitorAt(a, "spawn")
  /\ IF respHandle[Kind(a)] # NULL THEN Goto(a, "create") ELSE NextCheck(a)
  /\ UNCHANGED <<crit, handleVars, bits, rec, dataQueue, wd, halted>>

(* vSpawnResponder: the test of the handle ... *)
MonSpawn(a) ==
  /\ MonitorAt(a, "spawn")
  /\ IF respHandle[Kind(a)] = NULL THEN Goto(a, "create") ELSE NextCheck(a)
  /\ UNCHANGED <<crit, handleVars, bits, rec, dataQueue, wd, halted>>

(* ... and xTaskCreate, which stores the handle and starts the higher-priority task. *)
MonCreate(a) ==
  /\ MonitorAt(a, "create")
  /\ \E b \in Free :
       /\ role' = [role EXCEPT ![b] = Kind(a)]
       /\ pc' = [pc EXCEPT ![b] = "poll", ![a] = IF LastOne(a) THEN "sleep" ELSE "check"]
       /\ respHandle' = [respHandle EXCEPT ![Kind(a)] = b]
  /\ chk'  = [chk  EXCEPT ![a] = IF LastOne(a) THEN 0 ELSE @ + 1]
  /\ seen' = [seen EXCEPT ![a] = IF LastOne(a) THEN {} ELSE @]
  /\ HeapShrinks
  /\ UNCHANGED <<monHandle, bits, rec, dataQueue, wd, halted>>

(* A failed allocation ends in vApplicationMallocFailedHook, which never returns. *)
MonAllocFails(a) ==
  /\ MonitorAt(a, "create") /\ Free = {}
  /\ Goto(a, "spin")
  /\ UNCHANGED <<crit, handleVars, bits, rec, dataQueue, wd, halted>>

(* vKillResponder: the test of the handle ... *)
MonKill(a) ==
  /\ MonitorAt(a, "kill")
  /\ IF respHandle[Kind(a)] # NULL THEN Goto(a, "delete") ELSE NextCheck(a)
  /\ UNCHANGED <<crit, handleVars, bits, rec, dataQueue, wd, halted>>

(* ... then vTaskDelete, which reads the handle again: a null handle means           *)
(* the calling task.  The block of another task is freed at once, its own when idle.  *)
MonDelete(a) ==
  LET h == IF respHandle[Kind(a)] = NULL THEN a ELSE respHandle[Kind(a)] IN
  /\ MonitorAt(a, "delete") /\ Live(h)
  /\ role' = [role EXCEPT ![h] = NULL]
  /\ pc'   = IF h = a THEN [pc EXCEPT ![a] = "zombie"]
                      ELSE [pc EXCEPT ![a] = "clear", ![h] = "free"]
  /\ chk'  = [chk  EXCEPT ![h] = 0]
  /\ seen' = [seen EXCEPT ![h] = {}]
  /\ HeapGrows
  /\ UNCHANGED <<handleVars, bits, rec, dataQueue, wd, halted>>

(* Deleting a task that is already deleted unlinks a list item that is in no list. *)
MonDeleteCrashes(a) ==
  /\ MonitorAt(a, "delete")
  /\ respHandle[Kind(a)] # NULL /\ ~Live(respHandle[Kind(a)])
  /\ halted' = TRUE
  /\ UNCHANGED <<crit, taskVars, handleVars, bits, rec, dataQueue, wd>>

(* ... and the store of NULL in the handle. *)
MonClear(a) ==
  /\ MonitorAt(a, "clear")
  /\ respHandle' = [respHandle EXCEPT ![Kind(a)] = NULL]
  /\ NextCheck(a)
  /\ UNCHANGED <<crit, monHandle, bits, rec, dataQueue, wd, halted>>

MonStep(a) ==
  \/ MonRead(a) \/ MonCheckCritical(a) \/ MonCheckNormal(a)
  \/ MonSpawn(a) \/ MonCreate(a) \/ MonAllocFails(a)
  \/ MonKill(a) \/ MonDelete(a) \/ MonDeleteCrashes(a) \/ MonClear(a)

-----------------------------------------------------------------------------
(* Layer-2 responders: the five functions of responders.c have one shape. *)

ResponderAt(a, l) ==
  /\ role[a] \in Kinds
  /\ pc[a] = l
  /\ CanRun(PRIORITY_RESPONDER)

(* vTaskDelay returns. *)
RespWake(a) ==
  /\ ~halted /\ role[a] \in Kinds /\ pc[a] = "delay"
  /\ Goto(a, "poll")
  /\ UNCHANGED <<crit, handleVars, bits, rec, dataQueue, wd, halted>>

(* Read the signal and compare it with the threshold. *)
RespPoll(a) ==
  /\ ResponderAt(a, "poll")
  /\ Goto(a, IF role[a] \in crit THEN "delay" ELSE "unhandle")
  /\ UNCHANGED <<crit, handleVars, bits, rec, dataQueue, wd, halted>>

(* Mutant: the task clears its handle but goes on instead of deleting itself. *)
UnhandleAndContinue(a) ==
  /\ ResponderAt(a, "unhandle")
  /\ respHandle' = [respHandle EXCEPT ![role[a]] = NULL]
  /\ Goto(a, "poll")
  /\ UNCHANGED <<crit, monHandle, bits, rec, dataQueue, wd, halted>>

(* x...ResponderHandle = NULL, before the task deletes itself. *)
RespUnhandle(a) ==
  /\ ResponderAt(a, "unhandle")
  /\ respHandle' = [respHandle EXCEPT ![role[a]] = NULL]
  /\ Goto(a, "exit")
  /\ UNCHANGED <<crit, monHandle, bits, rec, dataQueue, wd, halted>>

(* vTaskDelete(NULL): the block waits for the idle task to free it. *)
RespExit(a) ==
  /\ ResponderAt(a, "exit")
  /\ role' = [role EXCEPT ![a] = NULL]
  /\ pc'   = [pc EXCEPT ![a] = "zombie"]
  /\ UNCHANGED <<crit, chk, seen, handleVars, bits, rec, dataQueue, wd, halted>>

RespStep(a) == RespPoll(a) \/ RespUnhandle(a) \/ RespExit(a)

-----------------------------------------------------------------------------
(* Layer 3: vWatchdogTask.  Nothing preempts it, so a pass is a sequence of steps *)
(* that no other task interrupts.                                                 *)

WdAt(S)    == ~halted /\ wd \in 1 .. Len(WdScan) /\ WdScan[wd] \in S
WdAdvance  == wd' = IF wd = Len(WdScan) THEN 0 ELSE wd + 1

WdWake ==
  /\ ~halted /\ wd = 0
  /\ wd' = IF WdScan = <<>> THEN 0 ELSE 1
  /\ UNCHANGED <<crit, taskVars, handleVars, bits, rec, dataQueue, halted>>

WdMonitorAlive ==
  /\ WdAt(Monitors)
  /\ TRUE \in AliveReadings(monHandle[WdScan[wd]])
  /\ WdAdvance
  /\ UNCHANGED <<crit, taskVars, handleVars, bits, rec, dataQueue, halted>>

(* A monitor read as not alive: raise EVT_TASK_FROZEN and create the task again. *)
WdRecreate ==
  /\ WdAt(Monitors)
  /\ FALSE \in AliveReadings(monHandle[WdScan[wd]])
  /\ SetBits({FROZEN})
  /\ \E b \in Free :
       /\ role' = [role EXCEPT ![b] = WdScan[wd]]
       /\ pc'   = [pc EXCEPT ![b] = "read"]
       /\ monHandle' = [monHandle EXCEPT ![WdScan[wd]] = b]
  /\ HeapShrinks
  /\ WdAdvance
  /\ UNCHANGED <<chk, seen, respHandle, dataQueue, halted>>

WdAllocFails ==
  /\ WdAt(Monitors) /\ Free = {}
  /\ FALSE \in AliveReadings(monHandle[WdScan[wd]])
  /\ SetBits({FROZEN})
  /\ wd' = WdSpin
  /\ UNCHANGED <<crit, taskVars, handleVars, dataQueue, halted>>

(* No responder, or its time to live has not expired. *)
WdResponderPasses ==
  /\ WdAt(Kinds)
  /\ WdAdvance
  /\ UNCHANGED <<crit, taskVars, handleVars, bits, rec, dataQueue, halted>>

(* The time to live has expired: raise EVT_TASK_FROZEN and call vKillResponder. *)
WdKill ==
  LET k == WdScan[wd]
      h == respHandle[k] IN
  /\ WdAt(Kinds)
  /\ h # NULL /\ Live(h)
  /\ SetBits({FROZEN})
  /\ role' = [role EXCEPT ![h] = NULL]
  /\ pc'   = [pc   EXCEPT ![h] = "free"]
  /\ chk'  = [chk  EXCEPT ![h] = 0]
  /\ seen' = [seen EXCEPT ![h] = {}]
  /\ respHandle' = [respHandle EXCEPT ![k] = NULL]
  /\ HeapGrows
  /\ WdAdvance
  /\ UNCHANGED <<monHandle, dataQueue, halted>>

WdKillCrashes ==
  /\ WdAt(Kinds)
  /\ respHandle[WdScan[wd]] # NULL /\ ~Live(respHandle[WdScan[wd]])
  /\ halted' = TRUE
  /\ UNCHANGED <<crit, taskVars, handleVars, bits, rec, dataQueue, wd>>

WdStep ==
  \/ WdMonitorAlive \/ WdRecreate \/ WdAllocFails
  \/ WdResponderPasses \/ WdKill \/ WdKillCrashes

-----------------------------------------------------------------------------
(* vRecoveryManagerTask: log the bits it was released with, then wait again; bits  *)
(* set meanwhile release it at once.                                               *)
RecStep ==
  /\ rec # {}
  /\ CanRun(PRIORITY_SAFETY_RECOVERY)
  /\ rec' = bits
  /\ bits' = {}
  /\ UNCHANGED <<crit, taskVars, handleVars, dataQueue, wd, halted>>

(* vSimulatorTask: sim_tick stores one signal at a time. *)
SimStep ==
  /\ CanRun(PRIORITY_SIMULATOR)
  /\ \E k \in Kinds : crit' = IF k \in crit THEN crit \ {k} ELSE crit \cup {k}
  /\ UNCHANGED <<taskVars, handleVars, bits, rec, dataQueue, wd, halted>>

(* The idle task frees the blocks of tasks that deleted themselves. *)
IdleStep ==
  /\ CanRun(PRIORITY_IDLE)
  /\ \E a \in Addr : pc[a] = "zombie" /\ pc' = [pc EXCEPT ![a] = "free"]
  /\ HeapGrows
  /\ UNCHANGED <<role, chk, seen, handleVars, bits, rec, dataQueue, wd, halted>>

(* vSchedulerInit has created every monitor, and the highest priority runs first. *)
Init ==
  /\ crit = {}
  /\ monHandle \in [Monitors -> Addr]
  /\ \A m, n \in Monitors : monHandle[m] = monHandle[n] => m = n
  /\ role = [a \in Addr |-> IF \E m \in Monitors : monHandle[m] = a
                            THEN CHOOSE m \in Monitors : monHandle[m] = a ELSE NULL]
  /\ pc = [a \in Addr |-> IF \E m \in Monitors : monHandle[m] = a THEN "read" ELSE "free"]
  /\ chk = [a \in Addr |-> 0]
  /\ seen = [a \in Addr |-> {}]
  /\ respHandle = [k \in Kinds |-> NULL]
  /\ bits = {} /\ rec = {}
  /\ dataQueue = [m \in Monitors |-> 0]
  /\ wd = IF WdScan = <<>> THEN 0 ELSE 1
  /\ halted = FALSE

Next ==
  \/ \E a \in Addr : MonWake(a) \/ MonStep(a) \/ RespWake(a) \/ RespStep(a)
  \/ WdWake \/ WdStep
  \/ RecStep
  \/ SimStep
  \/ IdleStep

Spec == Init /\ [][Next]_vars

(* A delay ends (WF), and a task that the scheduler can choose again and again runs   *)
(* (SF: the short passes of higher-priority tasks disable it meanwhile).              *)
Fairness ==
  /\ \A a \in Addr : /\ WF_vars(MonWake(a))
                     /\ WF_vars(RespWake(a))
                     /\ SF_vars(MonStep(a))
                     /\ SF_vars(RespStep(a))
  /\ WF_vars(WdWake) /\ WF_vars(WdStep)
  /\ SF_vars(RecStep)

FairSpec == Spec /\ Fairness

-----------------------------------------------------------------------------
(* Properties. *)

Responders(k) == {a \in Addr : role[a] = k}
InLoop(a)     == pc[a] \in {"check", "spawn", "create", "kill", "delete", "clear"}

(* vSpawnResponder starts a responder only "if not already running": however the       *)
(* monitors, the watchdog and the exiting responder interleave, a signal never has two. *)
AtMostOneResponder ==
  \A a, b \in Addr : role[a] \in Kinds /\ role[a] = role[b] => a = b

(* A responder can always be found through its handle until it has decided to end: no   *)
(* interleaving of a kill, a respawn and a self-deletion loses a running responder.     *)
NoOrphanResponder ==
  \A a \in Addr : role[a] \in Kinds /\ pc[a] # "exit" => respHandle[role[a]] = a

(* The watchdog recreates a monitor only when its task is gone: each monitor runs once, *)
(* in the task its handle names.                                                        *)
NoOrphanMonitor ==
  \A a \in Addr : role[a] \in Monitors => monHandle[role[a]] = a

(* A monitor acts on fresh data: from its read to the end of its loop no task changes   *)
(* the signals it checks, so it never spawns or kills on a stale comparison.  (The free *)
(* heap is the exception: allocation by any task changes it.)                           *)
SnapshotFresh ==
  \A a \in Addr : role[a] \in Monitors /\ InLoop(a) =>
    \A i \in DOMAIN Checks[role[a]] :
      LET k == Checks[role[a]][i] IN
      k \notin HeapKinds => (k \in seen[a] <=> k \in crit)

(* The clear of a signal's bit on the normal path of a monitor never erases an event    *)
(* that the recovery manager has yet to see: only EVT_TASK_FROZEN is ever left pending. *)
NoPendingCriticalEvent == bits \subseteq {FROZEN}

(* What a monitor relies on between two steps of its loop: the helper it has entered    *)
(* fits the reading, the handle it saw null is still null, and the responder it has to  *)
(* create or has just deleted does not exist.                                           *)
MonitorPhase ==
  \A a \in Addr : role[a] \in Monitors =>
    /\ pc[a] \in {"spawn", "create"} => Kind(a) \in seen[a]
    /\ pc[a] = "create" => respHandle[Kind(a)] = NULL
    /\ pc[a] \in {"create", "clear"} => Responders(Kind(a)) = {}

(* The inductive invariant: each of its parts needs the others to be preserved. *)
IInv ==
  /\ TypeOK
  /\ AtMostOneResponder
  /\ NoOrphanResponder
  /\ NoOrphanMonitor
  /\ SnapshotFresh
  /\ MonitorPhase

(* A responder ends after its signal has returned to normal for good, whoever ends it,  *)
(* unless the process has crashed or the watchdog is stuck in the malloc-failed hook.   *)
ResponderStops ==
  \A k \in Kinds :
    <>[](k \notin crit) => <>[](Responders(k) = {} \/ halted \/ wd = WdSpin)

(* While a signal stays critical it is given a responder again and again, although the  *)
(* watchdog may kill each one, as long as the means are there: the process and the      *)
(* watchdog run, the monitor of the signal is alive, and the responder's handle is not  *)
(* stale (a monitor takes a stale handle for a running responder).                      *)
MeansToServe(m, k) ==
  /\ ~halted /\ wd # WdSpin
  /\ \E a \in Addr : role[a] = m /\ pc[a] # "spin"
  /\ respHandle[k] # NULL => role[respHandle[k]] = k

CriticalIsServed ==
  \A m \in Monitors : \A i \in DOMAIN Checks[m] :
    LET k == Checks[m][i] IN
    <>[](k \in crit /\ MeansToServe(m, k)) => []<>(Responders(k) # {})

(* The tasks implement the service: a responder starts only where none exists and only  *)
(* while its signal is critical, and ends before another takes its place.               *)
Service == INSTANCE ResponderService
             WITH Tasks <- Addr, inst <- [k \in Kinds |-> Responders(k)]

ImplementsService == Service!Spec

(* README: core monitors run "Uninterrupted over full 110 s scenario".                  *)
MonitorsRunContinuously ==
  \A m \in Monitors : role[monHandle[m]] = m

(* vKillResponder: "Terminate a dynamic responder by handle.  Sets the handle to NULL   *)
(* after deletion": no task is deleted twice through a handle.                          *)
NoDoubleDelete == ~halted
=============================================================================
