----------------------------- MODULE LogServiceProofs -----------------------------
(* Theorems about LogService, for every set of tasks, writers and printers and every   *)
(* assignment of priorities that puts the simulator below the logger.                  *)
EXTENDS LogService, TLAPS

(* The part of TypeOK about one task at a time, and the parts about the shared state.  *)
Labels == {"idle", "format", "format2", "send", "take", "blocked", "print", "printing",
           "give"}

(* A task at one of these is in log_event. *)
Writing == {"format", "format2", "send"}

-----------------------------------------------------------------------------
(* Scheduling. *)

(* No task waits for the mutex but the logger, and it does so only while the simulator *)
(* holds it: nobody else inherits a priority, and the simulator inherits the logger's. *)
LEMMA Inheritance ==
  ASSUME IInv
  PROVE  /\ \A t \in Tasks : pc[t] = "blocked" => t = LOGGER
         /\ \A t \in Tasks : t # SIM \/ mutex # SIM => EffectivePriority(t) = Priority[t]
         /\ pc[LOGGER] = "blocked" => EffectivePriority(SIM) = Priority[LOGGER]
<1>1. \A t \in Tasks : pc[t] = "blocked" => t = LOGGER
  BY DEF IInv, StatusLineNeverWaits
<1>2. pc[LOGGER] = "blocked" => mutex = SIM
  BY DEF IInv
<1>3. LOGGER \in Tasks /\ SIM \in Tasks /\ Priority[SIM] < Priority[LOGGER]
  BY LogAssumption DEF LogAssumption
<1>4. \A t \in Tasks : t # SIM \/ mutex # SIM => EffectivePriority(t) = Priority[t]
  <2> SUFFICES ASSUME NEW t \in Tasks, t # SIM \/ mutex # SIM, mutex = t,
                      NEW u \in Tasks, pc[u] = "blocked"
               PROVE  FALSE
    BY DEF EffectivePriority
  <2> QED BY <1>1, <1>2
<1>5. ASSUME pc[LOGGER] = "blocked" PROVE EffectivePriority(SIM) = Priority[LOGGER]
  <2>1. (CHOOSE u \in Tasks : pc[u] = "blocked") = LOGGER
    BY <1>1, <1>3, <1>5
  <2> QED BY <1>2, <1>3, <1>5, <2>1 DEF EffectivePriority
<1> QED BY <1>1, <1>4, <1>5

(* A ready task keeps every task of lower effective priority from running. *)
LEMMA Preemption ==
  ASSUME NEW t \in Tasks, NEW u \in Tasks, CanRun(t), Ready(u), t # u
  PROVE  EffectivePriority(t) >= EffectivePriority(u)
BY DEF CanRun

(* A writer in log_event has its base priority: it holds no mutex. *)
LEMMA WriterPriority ==
  ASSUME IInv, NEW t \in Tasks, pc[t] \in Writing
  PROVE  EffectivePriority(t) = Priority[t]
<1>1. mutex # t
  BY DEF IInv, TypeOK, Writing
<1> QED BY <1>1, Inheritance

(* A task in log_event does not run while one of higher priority is in it. *)
LEMMA LowerWriterWaits ==
  ASSUME IInv, NEW t \in Tasks, NEW u \in Tasks, Priority[u] < Priority[t],
         pc[t] \in Writing, pc[u] \in Writing
  PROVE  ~CanRun(u)
<1> SUFFICES ASSUME CanRun(u) PROVE FALSE
  OBVIOUS
<1>1. Priority[u] \in Nat /\ Priority[t] \in Nat
  BY LogAssumption DEF LogAssumption
<1>2. EffectivePriority(u) >= EffectivePriority(t)
  BY <1>1, Preemption DEF Ready, Writing
<1>3. EffectivePriority(u) = Priority[u] /\ EffectivePriority(t) = Priority[t]
  BY WriterPriority
<1> QED BY <1>1, <1>2, <1>3

(* Nobody formats a message while the top writer is between its format and its send. *)
LEMMA TopWriterAlone ==
  ASSUME IInv, NEW t \in TopWriters, pc[t] \in Writing,
         NEW u \in Tasks, u # t, CanRun(u)
  PROVE  pc[u] \notin Writing
<1> SUFFICES ASSUME pc[u] \in Writing PROVE FALSE
  OBVIOUS
<1>1. t \in Tasks /\ u \in Writers /\ Priority[u] < Priority[t]
  BY LogAssumption DEF LogAssumption, TopWriters, IInv, Writing
<1> QED BY <1>1, LowerWriterWaits

(* The simulator finds the mutex free: the logger would not let it run. *)
LEMMA SimulatorFindsMutexFree ==
  ASSUME IInv, At(SIM, "take")
  PROVE  mutex = NONE
<1>1. SIM \in Tasks /\ LOGGER \in Tasks /\ Priority[SIM] < Priority[LOGGER]
      /\ Priority[SIM] \in Nat /\ Priority[LOGGER] \in Nat
  BY LogAssumption DEF LogAssumption
<1>2. mutex # SIM
  BY <1>1 DEF At, IInv, TypeOK
<1>3. ASSUME mutex = LOGGER PROVE FALSE
  <2>1. Ready(LOGGER)
    BY <1>1, <1>3 DEF IInv, TypeOK, Ready
  <2>2. EffectivePriority(SIM) >= EffectivePriority(LOGGER)
    BY <1>1, <2>1, Preemption DEF At
  <2>3. EffectivePriority(SIM) = Priority[SIM] /\ EffectivePriority(LOGGER) = Priority[LOGGER]
    BY <1>1, <1>2, Inheritance
  <2> QED BY <1>1, <2>2, <2>3
<1> QED BY <1>2, <1>3 DEF IInv, TypeOK

-----------------------------------------------------------------------------
(* The inductive invariant. *)

(* It holds initially. *)
LEMMA InitInv == Init => IInv
<1> SUFFICES ASSUME Init PROVE IInv
  OBVIOUS
<1>1. TypeOK
  <2>1. NONE \notin Tasks /\ LOGGER \in Tasks
    BY LogAssumption DEF LogAssumption
  <2>2. buf \in Buffer /\ queue \in Seq(Buffer) /\ Len(queue) <= QueueDepth
    BY LogAssumption DEF Init, Buffer, LogAssumption
  <2>3. count \in [Writers -> 0 .. MaxMessages]
    BY LogAssumption DEF Init, LogAssumption
  <2>4. pc \in [Tasks -> Labels] /\ \A t \in Tasks : mutex # t
    BY <2>1 DEF Init, Labels
  <2> QED BY <2>2, <2>3, <2>4 DEF Init, TypeOK, Labels
<1>2. \A t \in Tasks : pc[t] = "idle"
  BY DEF Init
<1>3. LOGGER \in Tasks /\ SIM \in Tasks /\ TopWriters \subseteq Tasks
  BY LogAssumption DEF LogAssumption, TopWriters
<1> QED BY <1>1, <1>2, <1>3 DEF IInv, StatusLineNeverWaits, TopWriterWhole

(* The steps of log_event preserve it. *)
LEMMA LogEventInv ==
  ASSUME IInv, NEW t \in Tasks,
         BeginLog(t) \/ FormatHead(t) \/ FormatTail(t) \/ Send(t),
         heard' \subseteq Message \cup {Blank}
  PROVE  IInv'
<1> USE DEF At, Goto
<1>0. /\ LOGGER \in Tasks /\ SIM \in Tasks /\ TopWriters \subseteq Tasks
      /\ TopWriters \subseteq Writers
      /\ MaxMessages \in Nat /\ QueueDepth \in Nat
  BY LogAssumption DEF LogAssumption, TopWriters
<1>1. CASE BeginLog(t)
  <2>1. /\ count' = [count EXCEPT ![t] = @ + 1] /\ pc' = [pc EXCEPT ![t] = "format"]
        /\ t \in Writers /\ pc[t] = "idle" /\ count[t] < MaxMessages
        /\ UNCHANGED <<buf, queue, mutex, stdio>>
    BY <1>1 DEF BeginLog
  <2>2. TypeOK'
    BY <1>0, <2>1 DEF IInv, TypeOK
  <2>3. \A u \in Tasks : pc'[u] = (IF u = t THEN "format" ELSE pc[u])
    BY <2>1 DEF IInv, TypeOK
  <2>4. \A u \in Writers : count'[u] = (IF u = t THEN count[u] + 1 ELSE count[u])
                           /\ count[u] \in Nat
    BY <2>1 DEF IInv, TypeOK
  <2>5. \A u \in TopWriters : pc'[u] \in {"format2", "send"} => buf'[1] = Current(u)'
    BY <1>0, <2>1, <2>3, <2>4 DEF IInv, Current
  <2>6. TopWriterWhole'
    BY <1>0, <2>1, <2>3, <2>4 DEF IInv, TopWriterWhole, Whole, Current
  <2> QED BY <1>0, <2>1, <2>2, <2>3, <2>4, <2>5, <2>6 DEF IInv, StatusLineNeverWaits
<1>2. CASE FormatHead(t)
  <2>1. /\ buf' = [buf EXCEPT ![1] = Current(t)] /\ pc' = [pc EXCEPT ![t] = "format2"]
        /\ pc[t] = "format" /\ CanRun(t)
        /\ UNCHANGED <<count, queue, mutex, stdio>>
    BY <1>2 DEF FormatHead
  <2>2. TypeOK'
    <3>1. Current(t) \in Message
      BY <1>0, <2>1 DEF IInv, TypeOK, Current, Message
    <3> QED BY <2>1, <3>1 DEF IInv, TypeOK, Buffer
  <2>3. \A u \in Tasks : pc'[u] = (IF u = t THEN "format2" ELSE pc[u])
    BY <2>1 DEF IInv, TypeOK
  <2>4. buf'[1] = Current(t) /\ buf'[2] = buf[2]
    BY <2>1 DEF IInv, TypeOK, Buffer
  <2>5. \A u \in TopWriters \ {t} : pc[u] \notin {"format2", "send"}
    BY <1>0, <2>1, TopWriterAlone DEF Writing
  <2>6. \A u \in TopWriters : pc'[u] \in {"format2", "send"} => u = t
    BY <1>0, <2>3, <2>5
  <2>7. TopWriterWhole'
    BY <1>0, <2>3, <2>6 DEF TopWriterWhole
  <2> QED BY <1>0, <2>1, <2>2, <2>3, <2>4, <2>6, <2>7 DEF IInv, StatusLineNeverWaits, Current
<1>3. CASE FormatTail(t)
  <2>1. /\ buf' = [buf EXCEPT ![2] = Current(t)] /\ pc' = [pc EXCEPT ![t] = "send"]
        /\ pc[t] = "format2" /\ CanRun(t)
        /\ UNCHANGED <<count, queue, mutex, stdio>>
    BY <1>3 DEF FormatTail
  <2>2. TypeOK'
    <3>1. Current(t) \in Message
      BY <1>0, <2>1 DEF IInv, TypeOK, Current, Message
    <3> QED BY <2>1, <3>1 DEF IInv, TypeOK, Buffer
  <2>3. \A u \in Tasks : pc'[u] = (IF u = t THEN "send" ELSE pc[u])
    BY <2>1 DEF IInv, TypeOK
  <2>4. buf' \in [1 .. 2 -> Message \cup {Blank}] /\ buf'[1] = buf[1] /\ buf'[2] = Current(t)
    BY <2>1, <2>2 DEF IInv, TypeOK, Buffer
  <2>5. \A u \in TopWriters \ {t} : pc[u] \notin {"format2", "send"}
    BY <1>0, <2>1, TopWriterAlone DEF Writing
  <2>6. \A u \in TopWriters : pc'[u] \in {"format2", "send"} => u = t
    BY <1>0, <2>3, <2>5
  <2>7. ASSUME t \in TopWriters PROVE buf'[1] = Current(t)
    BY <2>1, <2>4, <2>7 DEF IInv
  <2>8. TopWriterWhole'
    <3> SUFFICES ASSUME t \in TopWriters PROVE Whole(buf', Current(t))
      BY <2>1, <2>3, <2>6, <1>0 DEF TopWriterWhole, Current
    <3> QED BY <2>4, <2>7 DEF Whole
  <2> QED BY <1>0, <2>1, <2>2, <2>3, <2>6, <2>7, <2>8 DEF IInv, StatusLineNeverWaits, Current
<1>4. CASE Send(t)
  <2>1. /\ queue' = IF Len(queue) < QueueDepth THEN Append(queue, buf) ELSE queue
        /\ pc' = [pc EXCEPT ![t] = "idle"] /\ pc[t] = "send"
        /\ UNCHANGED <<count, buf, mutex, stdio>>
    BY <1>4 DEF Send
  <2>2. TypeOK'
    <3>1. queue' \in Seq(Buffer) /\ Len(queue') <= QueueDepth
      BY <1>0, <2>1 DEF IInv, TypeOK
    <3> QED BY <2>1, <3>1 DEF IInv, TypeOK
  <2>3. \A u \in Tasks : pc'[u] = (IF u = t THEN "idle" ELSE pc[u])
    BY <2>1 DEF IInv, TypeOK
  <2> QED BY <1>0, <2>1, <2>2, <2>3
          DEF IInv, StatusLineNeverWaits, TopWriterWhole, Whole, Current
<1> QED BY <1>1, <1>2, <1>3, <1>4

(* A step that moves one task to a label outside log_event and touches neither the     *)
(* buffer nor the counts leaves the top writer's halves alone.                         *)
LEMMA BufferUntouched ==
  ASSUME IInv, NEW t \in Tasks, pc'[t] \notin {"format", "format2", "send"},
         \A u \in Tasks \ {t} : pc'[u] = pc[u],
         UNCHANGED <<count, buf>>
  PROVE  /\ \A u \in Tasks : pc'[u] \in {"format", "format2", "send"}
                               => u \in Writers /\ count'[u] > 0
         /\ \A u \in TopWriters : pc'[u] \in {"format2", "send"} => buf'[1] = Current(u)'
         /\ TopWriterWhole'
<1>1. TopWriters \subseteq Tasks
  BY LogAssumption DEF LogAssumption, TopWriters
<1> QED BY <1>1 DEF IInv, TopWriterWhole, Whole, Current

(* The logger's receive, the status line and a printf preserve it. *)
LEMMA BeginInv ==
  ASSUME IInv, NEW t \in Tasks,
         (t = LOGGER /\ Receive) \/ (t = SIM /\ StatusLine) \/ RawPrintf(t),
         heard' \subseteq Message \cup {Blank}
  PROVE  IInv'
<1>1. LOGGER \in Tasks /\ SIM \in Tasks /\ LOGGER # SIM
  BY LogAssumption DEF LogAssumption
<1>2. /\ pc' = [pc EXCEPT ![t] = "take"] /\ t \in {LOGGER, SIM}
      \/ pc' = [pc EXCEPT ![t] = "print"]
  BY DEF Receive, StatusLine, RawPrintf, Goto
<1>3. /\ pc[t] = "idle" /\ UNCHANGED <<count, buf, mutex, stdio>>
      /\ queue' = queue \/ (queue # <<>> /\ queue' = Tail(queue))
  BY DEF Receive, StatusLine, RawPrintf, At
<1>4. \A u \in Tasks : pc'[u] = (IF u = t THEN pc'[t] ELSE pc[u])
  BY <1>2 DEF IInv, TypeOK
<1>5. pc'[t] = "print" \/ (pc'[t] = "take" /\ t \in {LOGGER, SIM})
  BY <1>2 DEF IInv, TypeOK
<1>6. TypeOK'
  <2>1. queue' \in Seq(Buffer) /\ Len(queue') <= QueueDepth
    <3>1. /\ queue \in Seq(Buffer) /\ Len(queue) \in Nat
          /\ Len(queue) <= QueueDepth /\ QueueDepth \in Nat
      BY LogAssumption DEF IInv, TypeOK, LogAssumption
    <3>2. CASE queue # <<>> /\ queue' = Tail(queue)
      <4>1. Tail(queue) \in Seq(Buffer) /\ Len(Tail(queue)) = Len(queue) - 1
        BY <3>1, <3>2
      <4> QED BY <3>1, <3>2, <4>1
    <3> QED BY <1>3, <3>1, <3>2
  <2>2. pc' \in [Tasks -> Labels]
    BY <1>2 DEF IInv, TypeOK, Labels
  <2> QED BY <1>3, <1>4, <2>1, <2>2 DEF IInv, TypeOK, Labels
<1> QED BY <1>1, <1>3, <1>4, <1>5, <1>6, BufferUntouched DEF IInv, StatusLineNeverWaits

(* The steps of write_msg and printf preserve it. *)
LEMMA WriteInv ==
  ASSUME IInv, NEW t \in Tasks,
         TakeMutex(t) \/ WaitTimesOut(t) \/ LockStdio(t) \/ UnlockStdio(t) \/ GiveMutex(t),
         heard' \subseteq Message \cup {Blank}
  PROVE  IInv'
<1>0. LOGGER \in Tasks /\ SIM \in Tasks /\ LOGGER # SIM /\ NONE \notin Tasks
  BY LogAssumption DEF LogAssumption
<1>1. CASE TakeMutex(t)
  <2>0. t \in {LOGGER, SIM} /\ mutex # t /\ pc[t] = "take"
    BY <1>1 DEF IInv, TypeOK, TakeMutex, At
  <2>1. CASE mutex = NONE
    <3>1. pc' = [pc EXCEPT ![t] = "print"] /\ mutex' = t
          /\ UNCHANGED <<count, buf, queue, stdio>>
      BY <1>1, <2>1 DEF TakeMutex, Goto
    <3>2. TypeOK'
      BY <1>0, <2>0, <2>1, <3>1 DEF IInv, TypeOK
    <3>3. pc[LOGGER] # "blocked"
      BY <1>0, <2>1 DEF IInv
    <3>4. \A u \in Tasks : pc'[u] = (IF u = t THEN "print" ELSE pc[u])
      BY <3>1 DEF IInv, TypeOK
    <3> QED BY <1>0, <3>1, <3>2, <3>3, <3>4, BufferUntouched DEF IInv, StatusLineNeverWaits
  <2>2. CASE mutex # NONE
    <3>1. pc' = [pc EXCEPT ![t] = "blocked"] /\ UNCHANGED <<mutex, count, buf, queue, stdio>>
      BY <1>1, <2>2 DEF TakeMutex, Goto
    <3>2. TypeOK'
      BY <2>0, <3>1 DEF IInv, TypeOK
    <3>3. t # SIM
      BY <1>1, <2>2, SimulatorFindsMutexFree DEF TakeMutex
    <3>4. t = LOGGER /\ mutex = SIM
      BY <2>0, <2>2, <3>3 DEF IInv, TypeOK
    <3>5. \A u \in Tasks : pc'[u] = (IF u = t THEN "blocked" ELSE pc[u])
      BY <3>1 DEF IInv, TypeOK
    <3> QED BY <1>0, <3>1, <3>2, <3>4, <3>5, BufferUntouched DEF IInv, StatusLineNeverWaits
  <2> QED BY <2>1, <2>2
<1>2. CASE WaitTimesOut(t)
  <2>1. pc' = [pc EXCEPT ![t] = "idle"] /\ pc[t] = "blocked"
        /\ UNCHANGED <<mutex, count, buf, queue, stdio>>
    BY <1>2 DEF WaitTimesOut, Goto
  <2>2. TypeOK'
    BY <2>1 DEF IInv, TypeOK
  <2>3. \A u \in Tasks : pc'[u] = (IF u = t THEN "idle" ELSE pc[u])
    BY <2>1 DEF IInv, TypeOK
  <2> QED BY <1>0, <2>1, <2>2, <2>3, BufferUntouched DEF IInv, StatusLineNeverWaits
<1>3. CASE LockStdio(t)
  <2>1. pc' = [pc EXCEPT ![t] = "printing"] /\ stdio' = t
        /\ UNCHANGED <<mutex, count, buf, queue>>
    BY <1>3 DEF LockStdio, Goto
  <2>2. TypeOK'
    BY <2>1 DEF IInv, TypeOK
  <2>3. \A u \in Tasks : pc'[u] = (IF u = t THEN "printing" ELSE pc[u])
    BY <2>1 DEF IInv, TypeOK
  <2> QED BY <1>0, <2>1, <2>2, <2>3, BufferUntouched DEF IInv, StatusLineNeverWaits
<1>4. CASE UnlockStdio(t)
  <2>1. PICK l \in {"give", "idle"} :
          /\ pc' = [pc EXCEPT ![t] = l] /\ stdio' = NONE
          /\ mutex = t <=> l = "give"
          /\ UNCHANGED <<mutex, count, buf, queue>>
    BY <1>4 DEF UnlockStdio, Goto
  <2>2. TypeOK'
    BY <2>1 DEF IInv, TypeOK
  <2>3. l = "give" => t \in {LOGGER, SIM}
    BY <1>0, <2>1 DEF IInv, TypeOK
  <2>4. \A u \in Tasks : pc'[u] = (IF u = t THEN l ELSE pc[u])
    BY <2>1 DEF IInv, TypeOK
  <2> QED BY <1>0, <2>1, <2>2, <2>3, <2>4, BufferUntouched DEF IInv, StatusLineNeverWaits
<1>5. CASE GiveMutex(t)
  <2>1. /\ pc' = [u \in Tasks |-> CASE u = t -> "idle"
                                    [] pc[u] = "blocked" -> "take"
                                    [] OTHER -> pc[u]]
        /\ mutex' = NONE /\ UNCHANGED <<count, buf, queue, stdio>>
    BY <1>5 DEF GiveMutex
  <2>2. \A u \in Tasks : /\ pc'[u] \in {"idle", "take"} \/ pc'[u] = pc[u]
                         /\ pc'[u] # "blocked"
                         /\ pc'[u] = "take" => u \in {LOGGER, SIM}
    BY <2>1 DEF IInv
  <2>3. TypeOK'
    BY <1>0, <2>1, <2>2 DEF IInv, TypeOK
  <2>4. TopWriters \subseteq Tasks
    BY LogAssumption DEF LogAssumption, TopWriters
  <2>5. \A u \in Tasks : Current(u)' = Current(u)
    BY <2>1 DEF Current
  <2>6. TopWriterWhole'
    BY <2>1, <2>2, <2>4, <2>5 DEF IInv, TopWriterWhole, Whole
  <2> QED BY <1>0, <2>1, <2>2, <2>3, <2>4, <2>5, <2>6 DEF IInv, StatusLineNeverWaits
<1> QED BY <1>1, <1>2, <1>3, <1>4, <1>5

(* A received message came from the queue. *)
LEMMA HeardFromQueue ==
  ASSUME IInv, Next
  PROVE  /\ heard' \subseteq Message \cup {Blank}
         /\ ~Receive => heard' = heard
         /\ Receive => heard' = heard \cup {queue[1][h] : h \in 1 .. 2}
<1>0. queue \in Seq(Buffer) /\ Len(queue) \in Nat
  BY DEF IInv, TypeOK
<1>1. CASE Receive
  <2>1. queue # <<>> /\ queue' = Tail(queue)
    BY <1>1 DEF Receive
  <2>2. Len(queue') < Len(queue) /\ Head(queue) = queue[1] /\ queue[1] \in Buffer
    BY <1>0, <2>1
  <2>3. heard' = heard \cup {queue[1][h] : h \in 1 .. 2}
    BY <2>2, <1>1 DEF Next, Hear
  <2>4. \A h \in 1 .. 2 : queue[1][h] \in Message \cup {Blank}
    BY <2>2 DEF Buffer
  <2> QED BY <1>1, <2>3, <2>4 DEF IInv, TypeOK
<1>2. CASE ~Receive
  <2>1. PICK t \in Tasks : (Begin(t) \/ Continue(t) \/ WaitTimesOut(t)) /\ Hear
    BY <1>2 DEF Next
  <2>2. queue' = queue \/ queue' = Append(queue, buf)
    BY <2>1 DEF Begin, BeginLog, StatusLine, RawPrintf, Continue, FormatHead, FormatTail, Send,
       TakeMutex, LockStdio, UnlockStdio, GiveMutex, WaitTimesOut
  <2>3. ~(Len(queue') < Len(queue))
    BY <1>0, <2>2 DEF IInv, TypeOK
  <2> QED BY <1>2, <2>1, <2>3 DEF Hear, IInv, TypeOK
<1> QED BY <1>1, <1>2

(* Every step preserves it. *)
LEMMA StepInv == IInv /\ [Next]_allVars => IInv'
<1> SUFFICES ASSUME IInv, [Next]_allVars PROVE IInv'
  OBVIOUS
<1>0. LOGGER \in Tasks /\ SIM \in Tasks
  BY LogAssumption DEF LogAssumption
<1>1. CASE Next
  <2>0. heard' \subseteq Message \cup {Blank}
    BY <1>1, HeardFromQueue
  <2>1. CASE Receive
    BY <1>0, <2>0, <2>1, BeginInv
  <2>2. ASSUME NEW t \in Tasks, Begin(t) PROVE IInv'
    BY <2>0, <2>2, BeginInv, LogEventInv DEF Begin
  <2>3. ASSUME NEW t \in Tasks, Continue(t) \/ WaitTimesOut(t) PROVE IInv'
    BY <2>0, <2>3, LogEventInv, WriteInv DEF Continue
  <2> QED BY <1>1, <2>1, <2>2, <2>3 DEF Next
<1>2. CASE UNCHANGED allVars
  BY <1>2 DEF IInv, TypeOK, StatusLineNeverWaits, TopWriterWhole, Whole, Current, vars, allVars
<1> QED BY <1>1, <1>2

-----------------------------------------------------------------------------
(* The order of messages. *)

(* A task that was preempted in log_event left nothing in the buffer of what a task    *)
(* above it is about to send.                                                          *)
LowerOverwritten ==
  \A t, u \in Writers : Priority[u] < Priority[t] =>
    /\ pc[t] \in {"format2", "send"} => buf[1][1] # u
    /\ pc[t] = "send" => buf[2][1] # u

(* What has left the buffer for the queue and, perhaps, for the logger. *)
Out == heard \cup UNION {{queue[i][h] : h \in 1 .. 2} : i \in 1 .. Len(queue)}

(* The two halves of the buffer are of one message, if they are of one writer and it   *)
(* is not between them.                                                                *)
HalvesAgree ==
  \A t \in SoleWriters :
    /\ pc[t] = "format2" /\ buf[1][1] = t => buf[1] = Current(t)
    /\ buf[1][1] = t /\ buf[2][1] = t /\ pc[t] # "format2" => buf[1] = buf[2]

(* Queued, in the buffer, being written: each is not older than what is before it. *)
QueueInOrder ==
  \A i, j \in 1 .. Len(queue), g, h \in 1 .. 2 : i < j => NotOlder(queue[j][h], queue[i][g])

BufferInOrder == \A h \in 1 .. 2 : \A m \in Out : NotOlder(buf[h], m)

CallsInOrder ==
  \A t \in SoleWriters : \A m \in Out \cup {buf[1], buf[2]} : NotOlder(Current(t), m)

(* The inductive invariant of the order. *)
OrderInv ==
  /\ LowerOverwritten /\ HalvesAgree
  /\ QueueInOrder /\ BufferInOrder /\ CallsInOrder /\ NeverOutOfOrder

(* What is in the service is messages. *)
LEMMA OrderTypes ==
  ASSUME IInv
  PROVE  /\ Out \subseteq Message \cup {Blank}
         /\ buf[1] \in Message \cup {Blank} /\ buf[2] \in Message \cup {Blank}
         /\ \A m \in Message \cup {Blank} : m = <<m[1], m[2]>> /\ m[2] \in Nat
         /\ \A t \in Writers : count[t] \in Nat
         /\ \A i \in 1 .. Len(queue), h \in 1 .. 2 : queue[i][h] \in Message \cup {Blank}
<1>1. /\ buf \in Buffer /\ queue \in Seq(Buffer) /\ heard \subseteq Message \cup {Blank}
      /\ \A t \in Writers : count[t] \in Nat
  BY DEF IInv, TypeOK
<1>2. \A b \in Buffer : b[1] \in Message \cup {Blank} /\ b[2] \in Message \cup {Blank}
  BY DEF Buffer
<1>3. \A i \in 1 .. Len(queue), h \in 1 .. 2 : queue[i][h] \in Message \cup {Blank}
  <2>1. \A i \in 1 .. Len(queue) : queue[i] \in Buffer
    BY <1>1
  <2> QED BY <1>2, <2>1
<1>4. \A m \in Message \cup {Blank} : m = <<m[1], m[2]>> /\ m[2] \in Nat
  BY LogAssumption DEF Message, Blank, LogAssumption
<1> QED BY <1>1, <1>2, <1>3, <1>4 DEF Out

(* A task can go on in log_event only if what is in the buffer of a writer with a      *)
(* priority of its own is whole, or the task is that writer.                           *)
LEMMA HalvesOfOthers ==
  ASSUME IInv, LowerOverwritten, NEW v \in Tasks, pc[v] = "send", CanRun(v),
         NEW t \in SoleWriters, buf[1][1] = t
  PROVE  pc[t] # "format2"
<1> SUFFICES ASSUME pc[t] = "format2" PROVE FALSE
  OBVIOUS
<1>1. v \in Writers /\ t \in Writers /\ t \in Tasks /\ t # v
  BY LogAssumption DEF LogAssumption, IInv, SoleWriters
<1>2. Priority[v] # Priority[t] /\ Priority[v] \in Nat /\ Priority[t] \in Nat
  BY <1>1, LogAssumption DEF LogAssumption, SoleWriters
<1>3. CASE Priority[v] < Priority[t]
  BY <1>1, <1>3, LowerWriterWaits DEF Writing
<1>4. CASE Priority[t] < Priority[v]
  BY <1>1, <1>4 DEF LowerOverwritten
<1> QED BY <1>2, <1>3, <1>4

(* It holds initially. *)
LEMMA InitOrder == Init => OrderInv
<1> SUFFICES ASSUME Init PROVE OrderInv
  OBVIOUS
<1>1. /\ Len(queue) = 0 /\ heard = {} /\ buf[1] = Blank /\ buf[2] = Blank /\ Out = {}
      /\ \A t \in Tasks : pc[t] = "idle"
  BY DEF Init, Out
<1>2. NONE \notin Tasks /\ Writers \subseteq Tasks /\ SoleWriters \subseteq Writers
  BY LogAssumption DEF LogAssumption, SoleWriters
<1>3. Blank[1] \notin Tasks
  BY <1>2 DEF Blank
<1> QED BY <1>1, <1>2, <1>3 DEF OrderInv, LowerOverwritten, HalvesAgree, QueueInOrder,
           BufferInOrder, CallsInOrder, NotOlder, NeverOutOfOrder

(* A call begins: only the number of the last call grows. *)
LEMMA BeginKeepsOrder ==
  ASSUME IInv, OrderInv, NEW v \in Tasks, BeginLog(v), UNCHANGED heard
  PROVE  OrderInv'
<1>1. /\ v \in Writers /\ count' = [count EXCEPT ![v] = @ + 1] /\ pc[v] = "idle"
      /\ pc' = [pc EXCEPT ![v] = "format"] /\ UNCHANGED <<buf, queue>>
  BY DEF BeginLog, At, Goto
<1>2. /\ \A t \in Tasks : pc'[t] = IF t = v THEN "format" ELSE pc[t]
      /\ \A t \in Writers : count'[t] = IF t = v THEN count[t] + 1 ELSE count[t]
  BY <1>1 DEF IInv, TypeOK
<1>3. Writers \subseteq Tasks /\ SoleWriters \subseteq Writers /\ Out' = Out
  BY <1>1, LogAssumption DEF LogAssumption, SoleWriters, Out
<1>4. LowerOverwritten' /\ HalvesAgree'
  BY <1>1, <1>2, <1>3 DEF OrderInv, LowerOverwritten, HalvesAgree, Current
<1>5. QueueInOrder' /\ BufferInOrder' /\ NeverOutOfOrder'
  BY <1>1, <1>3 DEF OrderInv, QueueInOrder, BufferInOrder, NeverOutOfOrder, NotOlder
<1>6. CallsInOrder'
  <2> SUFFICES ASSUME NEW t \in SoleWriters, NEW m \in Out \cup {buf[1], buf[2]}, m[1] = t
               PROVE  m[2] <= count'[t]
    BY <1>1, <1>3 DEF CallsInOrder, NotOlder, Current
  <2>1. m[2] <= count[t]
    BY DEF OrderInv, CallsInOrder, NotOlder, Current
  <2>2. m[2] \in Nat /\ count[t] \in Nat
    BY <1>3, OrderTypes
  <2> QED BY <1>2, <1>3, <2>1, <2>2
<1> QED BY <1>4, <1>5, <1>6 DEF OrderInv

(* The first half: nothing of the writer is newer than its call. *)
LEMMA HeadKeepsOrder ==
  ASSUME IInv, OrderInv, NEW v \in Tasks, FormatHead(v), UNCHANGED heard
  PROVE  OrderInv'
<1>1. /\ CanRun(v) /\ pc[v] = "format" /\ buf' = [buf EXCEPT ![1] = Current(v)]
      /\ pc' = [pc EXCEPT ![v] = "format2"] /\ UNCHANGED <<count, queue>>
  BY DEF FormatHead, At, Goto
<1>2. /\ \A t \in Tasks : pc'[t] = IF t = v THEN "format2" ELSE pc[t]
      /\ buf'[1] = <<v, count[v]>> /\ buf'[2] = buf[2]
      /\ v \in Writers
  BY <1>1 DEF IInv, TypeOK, Buffer, Current
<1>3. Writers \subseteq Tasks /\ SoleWriters \subseteq Writers /\ Out' = Out
  BY <1>1, LogAssumption DEF LogAssumption, SoleWriters, Out
<1>4. LowerOverwritten'
  <2> SUFFICES ASSUME NEW t \in Writers, NEW u \in Writers, Priority[u] < Priority[t]
               PROVE  /\ pc'[t] \in {"format2", "send"} => v # u
                      /\ pc'[t] = "send" => buf[2][1] # u
    BY <1>2 DEF LowerOverwritten
  <2>1. ASSUME pc'[t] \in {"format2", "send"}, v = u PROVE FALSE
    <3>1. t # v
      BY <2>1, <1>3, LogAssumption DEF LogAssumption
    <3> QED BY <1>1, <1>2, <1>3, <2>1, <3>1, LowerWriterWaits DEF Writing
  <2> QED BY <1>2, <1>3, <2>1 DEF OrderInv, LowerOverwritten
<1>5. HalvesAgree'
  BY <1>1, <1>2, <1>3 DEF HalvesAgree, Current
<1>6. QueueInOrder' /\ NeverOutOfOrder'
  BY <1>1 DEF OrderInv, QueueInOrder, NeverOutOfOrder, NotOlder
<1>7. BufferInOrder'
  BY <1>1, <1>2, <1>3 DEF OrderInv, BufferInOrder, CallsInOrder, NotOlder, Current
<1>8. CallsInOrder'
  <2> SUFFICES ASSUME NEW t \in SoleWriters, NEW m \in Out \cup {<<v, count[v]>>, buf[2]},
                      m[1] = t
               PROVE  m[2] <= count[t]
    BY <1>1, <1>2, <1>3 DEF CallsInOrder, NotOlder, Current
  <2>1. count[t] \in Nat
    BY <1>3, OrderTypes
  <2> QED BY <2>1 DEF OrderInv, CallsInOrder, NotOlder, Current
<1> QED BY <1>4, <1>5, <1>6, <1>7, <1>8 DEF OrderInv

(* The second half, and the two are of one message. *)
LEMMA TailKeepsOrder ==
  ASSUME IInv, OrderInv, NEW v \in Tasks, FormatTail(v), UNCHANGED heard
  PROVE  OrderInv'
<1>1. /\ CanRun(v) /\ pc[v] = "format2" /\ buf' = [buf EXCEPT ![2] = Current(v)]
      /\ pc' = [pc EXCEPT ![v] = "send"] /\ UNCHANGED <<count, queue>>
  BY DEF FormatTail, At, Goto
<1>2. /\ \A t \in Tasks : pc'[t] = IF t = v THEN "send" ELSE pc[t]
      /\ buf'[2] = <<v, count[v]>> /\ buf'[1] = buf[1]
      /\ v \in Writers
  BY <1>1 DEF IInv, TypeOK, Buffer, Current
<1>3. Writers \subseteq Tasks /\ SoleWriters \subseteq Writers /\ Out' = Out
  BY <1>1, LogAssumption DEF LogAssumption, SoleWriters, Out
<1>4. LowerOverwritten'
  <2> SUFFICES ASSUME NEW t \in Writers, NEW u \in Writers, Priority[u] < Priority[t]
               PROVE  /\ pc'[t] \in {"format2", "send"} => buf[1][1] # u
                      /\ pc'[t] = "send" => v # u
    BY <1>2 DEF LowerOverwritten
  <2>1. ASSUME pc'[t] = "send", v = u PROVE FALSE
    <3>1. t # v
      BY <2>1, <1>3, LogAssumption DEF LogAssumption
    <3> QED BY <1>1, <1>2, <1>3, <2>1, <3>1, LowerWriterWaits DEF Writing
  <2> QED BY <1>1, <1>2, <1>3, <2>1 DEF OrderInv, LowerOverwritten
<1>5. HalvesAgree'
  BY <1>1, <1>2, <1>3 DEF OrderInv, HalvesAgree, Current
<1>6. QueueInOrder' /\ NeverOutOfOrder'
  BY <1>1 DEF OrderInv, QueueInOrder, NeverOutOfOrder, NotOlder
<1>7. BufferInOrder'
  BY <1>1, <1>2, <1>3 DEF OrderInv, BufferInOrder, CallsInOrder, NotOlder, Current
<1>8. CallsInOrder'
  <2> SUFFICES ASSUME NEW t \in SoleWriters, NEW m \in Out \cup {buf[1], <<v, count[v]>>},
                      m[1] = t
               PROVE  m[2] <= count[t]
    BY <1>1, <1>2, <1>3 DEF CallsInOrder, NotOlder, Current
  <2>1. count[t] \in Nat
    BY <1>3, OrderTypes
  <2> QED BY <2>1 DEF OrderInv, CallsInOrder, NotOlder, Current
<1> QED BY <1>4, <1>5, <1>6, <1>7, <1>8 DEF OrderInv

(* A send copies the buffer behind everything that is queued, or drops it. *)
LEMMA SendKeepsOrder ==
  ASSUME IInv, OrderInv, NEW v \in Tasks, Send(v), UNCHANGED heard
  PROVE  OrderInv'
<1>1. /\ CanRun(v) /\ pc[v] = "send" /\ pc' = [pc EXCEPT ![v] = "idle"]
      /\ UNCHANGED <<count, buf>>
      /\ queue' = queue \/ queue' = Append(queue, buf)
  BY DEF Send, At, Goto
<1>2. /\ \A t \in Tasks : pc'[t] = IF t = v THEN "idle" ELSE pc[t]
      /\ queue \in Seq(Buffer) /\ Len(queue) \in Nat /\ buf \in Buffer
  BY <1>1 DEF IInv, TypeOK
<1>3. Writers \subseteq Tasks /\ SoleWriters \subseteq Writers
  BY LogAssumption DEF LogAssumption, SoleWriters
<1>4. LowerOverwritten' /\ HalvesAgree'
  BY <1>1, <1>2, <1>3 DEF OrderInv, LowerOverwritten, HalvesAgree, Current
<1>5. CASE queue' = queue
  BY <1>1, <1>4, <1>5 DEF OrderInv, QueueInOrder, BufferInOrder, CallsInOrder, NeverOutOfOrder,
     NotOlder, Out, Current
<1>6. CASE queue' = Append(queue, buf)
  <2>1. /\ Len(queue') = Len(queue) + 1 /\ queue'[Len(queue) + 1] = buf
        /\ \A i \in 1 .. Len(queue) : queue'[i] = queue[i]
    BY <1>2, <1>6
  <2>2. \A i \in 1 .. Len(queue') : \/ i \in 1 .. Len(queue) /\ queue'[i] = queue[i]
                                    \/ i = Len(queue) + 1 /\ queue'[i] = buf
    BY <1>2, <2>1
  <2>3. \A i \in 1 .. Len(queue), h \in 1 .. 2 : queue[i][h] \in Out
    BY DEF Out
  <2>4. QueueInOrder'
    <3> SUFFICES ASSUME NEW i \in 1 .. Len(queue'), NEW j \in 1 .. Len(queue'),
                        NEW g \in 1 .. 2, NEW h \in 1 .. 2, i < j
                 PROVE  NotOlder(queue'[j][h], queue'[i][g])
      BY DEF QueueInOrder, NotOlder
    <3>1. i \in 1 .. Len(queue) /\ queue'[i] = queue[i]
      BY <1>2, <2>1, <2>2
    <3>2. CASE j \in 1 .. Len(queue) /\ queue'[j] = queue[j]
      BY <3>1, <3>2 DEF OrderInv, QueueInOrder
    <3>3. CASE queue'[j] = buf
      BY <2>3, <3>1, <3>3 DEF OrderInv, BufferInOrder
    <3> QED BY <2>2, <3>2, <3>3
  <2>5. Out' \subseteq Out \cup {buf[1], buf[2]}
    BY <2>2, <2>3 DEF Out
  <2>6. BufferInOrder'
    <3>1. \A g, h \in 1 .. 2 : NotOlder(buf[h], buf[g])
      <4> SUFFICES ASSUME NEW g \in 1 .. 2, NEW h \in 1 .. 2, NEW t \in SoleWriters,
                          buf[g][1] = t, buf[h][1] = t
                   PROVE  buf[g][2] <= buf[h][2]
        BY DEF NotOlder
      <4>1. buf[1][2] \in Nat /\ buf[2][2] \in Nat
        BY OrderTypes
      <4>2. CASE g = h
        BY <4>1, <4>2
      <4>3. CASE g # h
        <5>1. buf[1][1] = t /\ buf[2][1] = t
          BY <4>3
        <5>2. pc[t] # "format2"
          BY <1>1, <5>1, HalvesOfOthers DEF OrderInv
        <5>3. buf[1] = buf[2]
          BY <5>1, <5>2 DEF OrderInv, HalvesAgree
        <5> QED BY <4>1, <5>3
      <4> QED BY <4>2, <4>3
    <3> QED BY <1>1, <2>5, <3>1 DEF OrderInv, BufferInOrder, NotOlder
  <2>7. CallsInOrder'
    BY <1>1, <2>5 DEF OrderInv, CallsInOrder, NotOlder, Current
  <2>8. NeverOutOfOrder'
    <3>1. heard \subseteq Out
      BY DEF Out
    <3> QED BY <2>2, <3>1 DEF OrderInv, NeverOutOfOrder, BufferInOrder, NotOlder
  <2> QED BY <1>4, <2>4, <2>6, <2>7, <2>8 DEF OrderInv
<1> QED BY <1>1, <1>5, <1>6

(* The logger receives what has been in the queue longest. *)
LEMMA ReceiveKeepsOrder ==
  ASSUME IInv, OrderInv, Receive, heard' = heard \cup {queue[1][h] : h \in 1 .. 2}
  PROVE  OrderInv'
<1>1. /\ queue # <<>> /\ queue' = Tail(queue) /\ UNCHANGED <<count, buf>>
      /\ pc' = [pc EXCEPT ![LOGGER] = "take"] /\ pc[LOGGER] = "idle"
  BY DEF Receive, At, Goto
<1>2. /\ \A t \in Tasks : pc'[t] = IF t = LOGGER THEN "take" ELSE pc[t]
      /\ queue \in Seq(Buffer) /\ Len(queue) \in Nat
  BY <1>1 DEF IInv, TypeOK
<1>3. Writers \subseteq Tasks /\ SoleWriters \subseteq Writers /\ LOGGER \notin Writers
  BY LogAssumption DEF LogAssumption, SoleWriters
<1>4. /\ Len(queue') = Len(queue) - 1 /\ 1 \in 1 .. Len(queue)
      /\ \A i \in 1 .. Len(queue') : queue'[i] = queue[i + 1] /\ i + 1 \in 1 .. Len(queue)
  BY <1>1, <1>2
<1>5. LowerOverwritten' /\ HalvesAgree'
  BY <1>1, <1>2, <1>3 DEF OrderInv, LowerOverwritten, HalvesAgree, Current
<1>6. QueueInOrder'
  BY <1>4 DEF OrderInv, QueueInOrder, NotOlder
<1>7. Out' \subseteq Out
  BY <1>4 DEF Out
<1>8. BufferInOrder' /\ CallsInOrder'
  BY <1>1, <1>7 DEF OrderInv, BufferInOrder, CallsInOrder, NotOlder, Current
<1>9. NeverOutOfOrder'
  <2> SUFFICES ASSUME NEW i \in 1 .. Len(queue'), NEW h \in 1 .. 2, NEW m \in heard'
               PROVE  NotOlder(queue'[i][h], m)
    BY DEF NeverOutOfOrder, NotOlder
  <2>1. CASE m \in heard
    BY <1>4, <2>1 DEF OrderInv, NeverOutOfOrder
  <2>2. CASE \E g \in 1 .. 2 : m = queue[1][g]
    BY <1>4, <2>2 DEF OrderInv, QueueInOrder
  <2> QED BY <2>1, <2>2
<1> QED BY <1>5, <1>6, <1>8, <1>9 DEF OrderInv

(* Outside log_event and the receive nothing of it changes. *)
LEMMA OthersKeepOrder ==
  ASSUME IInv, OrderInv, NEW v \in Tasks, UNCHANGED heard,
         \/ StatusLine \/ RawPrintf(v) \/ TakeMutex(v) \/ WaitTimesOut(v)
         \/ LockStdio(v) \/ UnlockStdio(v) \/ GiveMutex(v)
  PROVE  OrderInv'
<1>1. UNCHANGED <<count, buf, queue>>
  BY DEF StatusLine, RawPrintf, TakeMutex, WaitTimesOut, LockStdio, UnlockStdio, GiveMutex
<1>2. \A t \in Tasks : pc'[t] \in {"format2", "send"} => pc'[t] = pc[t]
  BY DEF StatusLine, RawPrintf, TakeMutex, WaitTimesOut, LockStdio, UnlockStdio, GiveMutex, Goto,
     IInv, TypeOK
<1>3. \A t \in Tasks : pc[t] = "format2" => pc'[t] = "format2"
  BY DEF StatusLine, RawPrintf, TakeMutex, WaitTimesOut, LockStdio, UnlockStdio, GiveMutex, Goto,
     At, IInv, TypeOK
<1>4. Writers \subseteq Tasks /\ SoleWriters \subseteq Writers /\ Out' = Out
  BY <1>1, LogAssumption DEF LogAssumption, SoleWriters, Out
<1>5. LowerOverwritten' /\ HalvesAgree'
  BY <1>1, <1>2, <1>3, <1>4 DEF OrderInv, LowerOverwritten, HalvesAgree, Current
<1> QED BY <1>1, <1>4, <1>5 DEF OrderInv, QueueInOrder, BufferInOrder, CallsInOrder,
           NeverOutOfOrder, NotOlder, Current

(* Every step preserves it. *)
LEMMA StepOrder == IInv /\ OrderInv /\ [Next]_allVars => OrderInv'
<1> SUFFICES ASSUME IInv, OrderInv, [Next]_allVars PROVE OrderInv'
  OBVIOUS
<1>1. CASE UNCHANGED allVars
  BY <1>1 DEF OrderInv, LowerOverwritten, HalvesAgree, QueueInOrder, BufferInOrder, CallsInOrder,
     NeverOutOfOrder, NotOlder, Out, Current, vars, allVars
<1>2. CASE Next /\ Receive
  BY <1>2, HeardFromQueue, ReceiveKeepsOrder
<1>3. CASE Next /\ ~Receive
  <2>1. UNCHANGED heard
    BY <1>3, HeardFromQueue
  <2>2. PICK v \in Tasks : Begin(v) \/ Continue(v) \/ WaitTimesOut(v)
    BY <1>3 DEF Next
  <2>3. CASE BeginLog(v) \/ FormatHead(v) \/ FormatTail(v) \/ Send(v)
    BY <2>1, <2>3, BeginKeepsOrder, HeadKeepsOrder, TailKeepsOrder, SendKeepsOrder
  <2>4. CASE \/ StatusLine \/ RawPrintf(v) \/ TakeMutex(v) \/ WaitTimesOut(v)
             \/ LockStdio(v) \/ UnlockStdio(v) \/ GiveMutex(v)
    BY <2>1, <2>4, OthersKeepOrder
  <2> QED BY <2>2, <2>3, <2>4 DEF Begin, Continue
<1> QED BY <1>1, <1>2, <1>3

-----------------------------------------------------------------------------
(* The theorems. *)

(* Every state of every behaviour satisfies the inductive invariant, types included. *)
THEOREM Invariance == Spec => []IInv
BY InitInv, StepInv, PTL DEF Spec

(* Buffer, queue, mutex and tasks keep their types. *)
THEOREM TypeCorrect == Spec => []TypeOK
<1>1. IInv => TypeOK
  BY DEF IInv
<1> QED BY <1>1, Invariance, PTL

(* What the writer of highest priority sends is its own message, whole, however the    *)
(* other writers were interrupted in the shared buffer.                                *)
THEOREM WatchdogMessagesWhole == Spec => []TopWriterWhole
<1>1. IInv => TopWriterWhole
  BY DEF IInv
<1> QED BY <1>1, Invariance, PTL

(* The simulator never waits for xPrintMutex, so no status line is dropped. *)
THEOREM NoStatusLineDropped == Spec => []StatusLineNeverWaits
<1>1. IInv => StatusLineNeverWaits
  BY DEF IInv
<1> QED BY <1>1, Invariance, PTL

(* However often calls of log_event cut into each other, and whatever the full queue    *)
(* drops, a writer with a priority of its own is never heard out of order: nothing      *)
(* older than what the logger has received of it is still to come from the queue.       *)
THEOREM MessagesKeepTheirOrder == Spec => []NeverOutOfOrder
<1>1. OrderInv => NeverOutOfOrder
  BY DEF OrderInv
<1>2. Spec => []OrderInv
  BY InitOrder, StepOrder, Invariance, PTL DEF Spec
<1> QED BY <1>1, <1>2, PTL

(* While the logger waits for the mutex no task below it runs but the holder. *)
THEOREM InversionBounded == Spec => NoPriorityInversion
<1> DEFINE Bounded == pc[LOGGER] = "blocked" =>
             \A t \in Tasks : Priority[t] < Priority[LOGGER] /\ t # mutex => pc'[t] = pc[t]
<1>1. IInv /\ [Next]_allVars => [Bounded]_vars
  <2>0. UNCHANGED allVars => UNCHANGED vars
    BY DEF allVars
  <2> SUFFICES ASSUME IInv, Next, pc[LOGGER] = "blocked",
                      NEW t \in Tasks, Priority[t] < Priority[LOGGER], t # mutex
               PROVE  pc'[t] = pc[t]
    BY <2>0
  <2>1. LOGGER \in Tasks /\ SIM \in Tasks /\ Priority[SIM] < Priority[LOGGER]
        /\ \A u \in Tasks : Priority[u] \in Nat
    BY LogAssumption DEF LogAssumption
  <2>2. mutex = SIM /\ t # LOGGER /\ t # SIM /\ Ready(SIM)
    BY <2>1 DEF IInv, TypeOK, Ready
  <2>3. ~CanRun(t)
    <3>1. EffectivePriority(t) = Priority[t] /\ EffectivePriority(SIM) = Priority[LOGGER]
      BY <2>2, Inheritance
    <3> QED BY <2>1, <2>2, <3>1, Preemption
  <2>4. pc[t] # "blocked"
    BY <2>2, Inheritance
  <2>5. CASE Receive
    BY <2>1, <2>2, <2>5 DEF Receive, Goto, IInv, TypeOK
  <2>6. ASSUME NEW u \in Tasks, Begin(u) \/ Continue(u) \/ WaitTimesOut(u)
        PROVE  pc'[t] = pc[t]
    <3>1. u # t
      BY <2>3, <2>4, <2>6 DEF Begin, BeginLog, StatusLine, RawPrintf, Continue, FormatHead,
         FormatTail, Send, TakeMutex, LockStdio, UnlockStdio, GiveMutex, WaitTimesOut, At
    <3>2. CASE GiveMutex(u)
      BY <2>4, <3>1, <3>2 DEF GiveMutex
    <3>3. CASE ~GiveMutex(u)
      <4>1. PICK l \in Labels : pc' = [pc EXCEPT ![u] = l]
        BY <2>6, <3>3 DEF Begin, BeginLog, StatusLine, RawPrintf, Continue, FormatHead,
           FormatTail, Send, TakeMutex, LockStdio, UnlockStdio, WaitTimesOut, Goto, Labels
      <4> QED BY <3>1, <4>1 DEF IInv, TypeOK
    <3> QED BY <3>2, <3>3
  <2> QED BY <2>5, <2>6 DEF Next
<1> QED BY <1>1, Invariance, PTL DEF Spec, NoPriorityInversion
=============================================================================
