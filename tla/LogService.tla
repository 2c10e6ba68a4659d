-------------------------------- MODULE LogService --------------------------------
(* The log service: log_event formats into one static buffer shared by all callers   *)
(* and sends a copy to xLogQueue without waiting; the logger task receives the       *)
(* messages and writes them under xPrintMutex, which the simulator's status line     *)
(* takes too, both with a bounded wait.  Many tasks call printf without the mutex;   *)
(* the C library serialises those with a lock of its own, of which the FreeRTOS      *)
(* kernel knows nothing: a task that waits for it stays ready at its priority.       *)
(* Scheduling is by fixed priorities with inheritance through xPrintMutex.           *)
(*                                                                                   *)
(* Sources: src/logger.c and its callers.                                            *)
EXTENDS Integers, Sequences

CONSTANTS
  Tasks,       \* the tasks that log or print
  Priority,    \* their base priorities
  LOGGER,      \* the logger task
  SIM,         \* the simulator task, which prints the status line
  Writers,     \* the tasks that call log_event
  Printers,    \* the tasks that call printf without the mutex
  NONE,        \* no task
  QueueDepth,  \* LOG_QUEUE_DEPTH
  MaxMessages  \* bound: messages of one writer

ASSUME LogAssumption ==
  /\ Priority \in [Tasks -> Nat]
  /\ {LOGGER, SIM} \subseteq Tasks
  /\ Priority[SIM] < Priority[LOGGER]
  /\ Writers \subseteq Tasks \ {LOGGER}
  /\ Printers \subseteq Tasks \ {LOGGER}
  /\ NONE \notin Tasks
  /\ QueueDepth \in Nat \ {0} /\ MaxMessages \in Nat

VARIABLES
  pc,      \* control state of each task
  count,   \* number of messages each writer has begun to log
  buf,     \* the static buffer of log_event, as two halves
  queue,   \* xLogQueue
  mutex,   \* holder of xPrintMutex
  stdio,   \* holder of the C library's lock on stdout
  heard    \* history: the messages of which the logger has received a half

vars == <<pc, count, buf, queue, mutex, stdio>>
allVars == <<vars, heard>>

Message == Writers \X (1 .. MaxMessages)
Blank   == <<NONE, 0>>
Buffer  == [1 .. 2 -> Message \cup {Blank}]

Current(t) == <<t, count[t]>>

TypeOK ==
  /\ pc \in [Tasks -> {"idle", "format", "format2", "send", "take", "blocked", "print",
                       "printing", "give"}]
  /\ count \in [Writers -> 0 .. MaxMessages]
  /\ buf \in Buffer
  /\ queue \in Seq(Buffer) /\ Len(queue) <= QueueDepth
  /\ mutex \in {LOGGER, SIM, NONE}
  /\ stdio \in Tasks \cup {NONE}
  /\ heard \subseteq Message \cup {Blank}
  /\ \A t \in Tasks : mutex = t => pc[t] \in {"print", "printing", "give"}

-----------------------------------------------------------------------------
(* Scheduling. *)

Ready(t) == pc[t] \notin {"idle", "blocked"}

(* Mutant: xPrintMutex without priority inheritance. *)
BasePriority(t) == Priority[t]

(* The holder of the mutex inherits the priority of a task that waits for it. *)
EffectivePriority(t) ==
  IF mutex = t /\ \E u \in Tasks : pc[u] = "blocked" /\ Priority[u] > Priority[t]
  THEN Priority[CHOOSE u \in Tasks : pc[u] = "blocked"]
  ELSE Priority[t]

(* Mutant: time slicing without priorities. *)
RoundRobin(t) == t \in Tasks

CanRun(t) ==
  \A u \in Tasks \ {t} :
    Ready(u) \/ (u = LOGGER /\ pc[u] = "idle" /\ queue # <<>>)
      => EffectivePriority(t) >= EffectivePriority(u)

At(t, l)   == pc[t] = l /\ CanRun(t)
Goto(t, l) == pc' = [pc EXCEPT ![t] = l]

-----------------------------------------------------------------------------
(* log_event: vsnprintf into the static buffer ... *)
BeginLog(t) ==
  /\ At(t, "idle")
  /\ t \in Writers /\ count[t] < MaxMessages
  /\ count' = [count EXCEPT ![t] = @ + 1]
  /\ Goto(t, "format")
  /\ UNCHANGED <<buf, queue, mutex, stdio>>

FormatHead(t) ==
  /\ At(t, "format")
  /\ buf' = [buf EXCEPT ![1] = Current(t)]
  /\ Goto(t, "format2")
  /\ UNCHANGED <<count, queue, mutex, stdio>>

FormatTail(t) ==
  /\ At(t, "format2")
  /\ buf' = [buf EXCEPT ![2] = Current(t)]
  /\ Goto(t, "send")
  /\ UNCHANGED <<count, queue, mutex, stdio>>

(* Mutant: the queue holds one message more. *)
SendUnbounded(t) ==
  /\ At(t, "send")
  /\ queue' = Append(queue, buf)
  /\ Goto(t, "idle")
  /\ UNCHANGED <<count, buf, mutex, stdio>>

(* Mutant: xQueueSendToFront. *)
SendFront(t) ==
  /\ At(t, "send")
  /\ queue' = IF Len(queue) < QueueDepth THEN <<buf>> \o queue ELSE queue
  /\ Goto(t, "idle")
  /\ UNCHANGED <<count, buf, mutex, stdio>>

(* ... and a send that does not wait: the message is dropped when the queue is full. *)
Send(t) ==
  /\ At(t, "send")
  /\ queue' = IF Len(queue) < QueueDepth THEN Append(queue, buf) ELSE queue
  /\ Goto(t, "idle")
  /\ UNCHANGED <<count, buf, mutex, stdio>>

-----------------------------------------------------------------------------
(* vLoggerTask receives a message, then calls write_msg. *)
Receive ==
  /\ At(LOGGER, "idle")
  /\ queue # <<>>
  /\ queue' = Tail(queue)
  /\ Goto(LOGGER, "take")
  /\ UNCHANGED <<count, buf, mutex, stdio>>

(* log_status_line formats into a buffer of its own, then calls write_msg. *)
StatusLine ==
  /\ At(SIM, "idle")
  /\ Goto(SIM, "take")
  /\ UNCHANGED <<count, buf, queue, mutex, stdio>>

(* printf outside write_msg: by the simulator, the monitors and the responders (which one *)
(* monitor stands for), by the watchdog when it has killed a responder, and by watchdog   *)
(* and recovery manager when they start.                                                  *)
RawPrintf(t) ==
  /\ At(t, "idle")
  /\ t \in Printers
  /\ Goto(t, "print")
  /\ UNCHANGED <<count, buf, queue, mutex, stdio>>

-----------------------------------------------------------------------------
(* write_msg: take the mutex, or wait for it ... *)
TakeMutex(t) ==
  /\ At(t, "take")
  /\ IF mutex = NONE THEN mutex' = t /\ Goto(t, "print")
                     ELSE UNCHANGED mutex /\ Goto(t, "blocked")
  /\ UNCHANGED <<count, buf, queue, stdio>>

(* Mutant: portMAX_DELAY instead of 100 ms. *)
WaitsForever(t) == pc[t] = "blocked" /\ UNCHANGED vars

(* ... for 100 ms at most: the message is dropped. *)
WaitTimesOut(t) ==
  /\ pc[t] = "blocked"
  /\ Goto(t, "idle")
  /\ UNCHANGED <<count, buf, queue, mutex, stdio>>

(* printf: a task that finds stdout locked stays ready and cannot go on. *)
LockStdio(t) ==
  /\ At(t, "print")
  /\ stdio = NONE
  /\ stdio' = t
  /\ Goto(t, "printing")
  /\ UNCHANGED <<count, buf, queue, mutex>>

UnlockStdio(t) ==
  /\ At(t, "printing")
  /\ stdio' = NONE
  /\ Goto(t, IF mutex = t THEN "give" ELSE "idle")
  /\ UNCHANGED <<count, buf, queue, mutex>>

(* Mutant: write_msg returns without giving the mutex back. *)
NeverGives(t) ==
  /\ At(t, "give")
  /\ Goto(t, "idle")
  /\ UNCHANGED <<count, buf, queue, mutex, stdio>>

(* xSemaphoreGive releases the waiter, which takes the mutex when it runs. *)
GiveMutex(t) ==
  /\ At(t, "give")
  /\ mutex' = NONE
  /\ pc' = [u \in Tasks |-> CASE u = t            -> "idle"
                              [] pc[u] = "blocked" -> "take"
                              [] OTHER             -> pc[u]]
  /\ UNCHANGED <<count, buf, queue, stdio>>

-----------------------------------------------------------------------------
Init ==
  /\ pc = [t \in Tasks |-> "idle"]
  /\ count = [t \in Writers |-> 0]
  /\ buf = [h \in 1 .. 2 |-> Blank]
  /\ queue = <<>>
  /\ mutex = NONE /\ stdio = NONE
  /\ heard = {}

(* The rest of an operation that has begun. *)
Continue(t) ==
  \/ FormatHead(t) \/ FormatTail(t) \/ Send(t)
  \/ TakeMutex(t) \/ LockStdio(t) \/ UnlockStdio(t) \/ GiveMutex(t)

Begin(t) == BeginLog(t) \/ RawPrintf(t) \/ (t = SIM /\ StatusLine)

(* Only the logger takes messages from the queue. *)
Hear == heard' = heard \cup (IF Len(queue') < Len(queue) THEN {Head(queue)[h] : h \in 1 .. 2}
                                                        ELSE {})

Next ==
  \/ Receive /\ Hear
  \/ \E t \in Tasks : (Begin(t) \/ Continue(t) \/ WaitTimesOut(t)) /\ Hear

Spec == Init /\ [][Next]_allVars

(* A task the scheduler can choose again and again goes on, and a wait ends; no task   *)
(* need begin anything.                                                               *)
Fairness ==
  /\ SF_vars(Receive)
  /\ \A t \in Tasks : SF_vars(Continue(t)) /\ WF_vars(WaitTimesOut(t))

FairSpec == Spec /\ Fairness

-----------------------------------------------------------------------------
(* Properties. *)

Whole(b, m) == b = [h \in 1 .. 2 |-> m]

(* logger.h: log_event is "Thread-safe": what a call sends is its own message, whole. *)
ThreadSafe == \A t \in Writers : pc[t] = "send" => Whole(buf, Current(t))

TopWriters == {t \in Writers : \A u \in Writers \ {t} : Priority[u] < Priority[t]}

(* The messages of the writer that no other writer can preempt (the watchdog) are sent   *)
(* whole whatever the others were doing with the buffer.                                 *)
TopWriterWhole ==
  \A t \in TopWriters : pc[t] = "send" => Whole(buf, Current(t))

(* The writers that share their priority with no other writer: all three of this program. *)
SoleWriters == {t \in Writers : \A u \in Writers \ {t} : Priority[u] # Priority[t]}

(* n is not of an older call than m, if they are of one such writer. *)
NotOlder(n, m) == m[1] = n[1] /\ m[1] \in SoleWriters => m[2] <= n[2]

(* Nothing in the queue is older than what the logger has received of the same writer: a  *)
(* message may be cut in half, sent again by the task that it interrupted, or dropped,    *)
(* but it never overtakes another of its writer.                                          *)
NeverOutOfOrder ==
  \A i \in 1 .. Len(queue), h \in 1 .. 2 : \A m \in heard : NotOlder(queue[i][h], m)

(* The status line is never dropped: the logger cannot lose the processor to the         *)
(* simulator while it holds the mutex, so the simulator finds it free.                   *)
StatusLineNeverWaits == pc[SIM] # "blocked"

(* Of the tasks below the logger, only the one that holds the mutex runs while the       *)
(* logger waits for it.  It need not get on: when a task it has preempted holds stdout,  *)
(* the simulator spins at the inherited priority until the logger's 100 ms are over.     *)
NoPriorityInversion ==
  [][pc[LOGGER] = "blocked" =>
       \A t \in Tasks : Priority[t] < Priority[LOGGER] /\ t # mutex => pc'[t] = pc[t]]_vars

(* The inductive invariant: who may be in which part of the service, the logger waits    *)
(* for the simulator only, and the top writer's halves stay as it wrote them.            *)
IInv ==
  /\ TypeOK
  /\ \A t \in Tasks :
       /\ pc[t] \in {"format", "format2", "send"} => t \in Writers /\ count[t] > 0
       /\ pc[t] \in {"take", "blocked", "give"} => t \in {LOGGER, SIM}
  /\ pc[LOGGER] = "blocked" => mutex = SIM
  /\ StatusLineNeverWaits
  /\ \A t \in TopWriters : pc[t] \in {"format2", "send"} => buf[1] = Current(t)
  /\ TopWriterWhole

(* The logger or a task above it finds stdout locked by a task that it has preempted:     *)
(* it stays ready, so the holder never runs again.                                       *)
StdoutHangs ==
  \E t \in Tasks : /\ Priority[t] >= Priority[LOGGER] /\ pc[t] = "print"
                   /\ stdio # NONE /\ Priority[stdio] < Priority[t]

(* Whatever the mutex and the writers do, the logger comes back and empties the queue;   *)
(* the one thing that can stop it is the lock of the C library, on the logger itself or  *)
(* on the watchdog, which prints whenever it has killed a responder.                     *)
QueueDrains == (queue # <<>>) ~> (queue = <<>> \/ StdoutHangs)

(* logger.h: "A mutex guards all printf calls across the system", and README: "Complete  *)
(* logs/system.log produced after run": everything that reached the queue is taken       *)
(* from it, because nothing but the mutex can make the logger wait.                      *)
LogIsComplete == (queue # <<>>) ~> (queue = <<>>)
=============================================================================
