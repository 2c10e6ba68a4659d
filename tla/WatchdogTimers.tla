------------------------------ MODULE WatchdogTimers ------------------------------
(* The time keeping of the watchdog: heartbeat stamps of the application's own      *)
(* tasks and spawn stamps of the responders, all 32-bit millisecond counts that are *)
(* compared by unsigned subtraction and use 0 as "no stamp".  The responders        *)
(* themselves are the abstract service here: each starts and ends at any time       *)
(* (ResponderLifecycle shows how).  The watchdog has the highest priority, so no    *)
(* task runs during a pass, but the tick interrupt does.                            *)
(*                                                                                  *)
(* Sources: src/tasks/watchdog.c, include/tasks/watchdog.h and the callers of       *)
(* watchdog_kick in src/main.c.                                                     *)
EXTENDS Integers, Sequences

CONSTANTS
  Width,      \* width in bits of the tick count and of the stamps (32 in the code)
  Period,     \* period of the watchdog
  TTL,        \* WATCHDOG_RESPONDER_TTL_MS
  TIMEOUT,    \* WATCHDOG_TIMEOUT_MS
  Responders, \* the responders
  Tracked,    \* those of the watchdog's resp[], in its order
  OwnTasks,   \* the tasks with a heartbeat, WD_TASK_*
  Kickers,    \* those that call watchdog_kick
  PassTicks,  \* bound: ticks that may fall into one pass
  MaxStall    \* bound: ticks between the two halves of a kick

ASSUME TimerAssumption ==
  /\ {Width, Period, TTL, TIMEOUT} \subseteq Nat \ {0}
  /\ PassTicks \in 0 .. Period - 1
  /\ MaxStall \in 0 .. TIMEOUT - 1
  /\ Tracked \in Seq(Responders)
  /\ Kickers \subseteq OwnTasks
  /\ 2 ^ Width \in Nat /\ 2 ^ Width > TTL + TIMEOUT + 4 * Period

VARIABLES
  clock,      \* xTickCount
  due,        \* ticks until vTaskDelayUntil releases the watchdog
  pass,       \* position in a pass: "sleep", "heartbeats", "track" or "ttl"
  wi,         \* the entry of Tracked it has reached
  t_ms,       \* the watchdog's reading of the clock at the top of its loop
  present,    \* responders whose handle is not NULL
  spawn_ms,   \* s_..._spawn_ms
  hb,         \* g_wd_heartbeat_ms
  kick,       \* kick[i]: the tick count watchdog_kick has read and not yet stored, or -1
  age,        \* history: ticks since the responder was created
  held,       \* history: ticks since a pass last found no responder, or killed it
  quiet,      \* history: ticks since the reading of the last stored kick
  unwarned    \* history: ticks since the last stored kick or alert, or Unseen

vars == <<clock, due, pass, wi, t_ms, present, spawn_ms, hb, kick, age, held, quiet, unwarned>>
responderVars == <<present, spawn_ms, age, held>>
heartbeatVars == <<hb, kick, quiet, unwarned>>
watchdogVars  == <<due, pass, wi, t_ms>>

(* Histories stop counting here, beyond every limit a property compares them with. *)
Cap == TTL + TIMEOUT + 5 * Period

AtMost(x, max) == IF x < max THEN x ELSE max

(* A task that has not kicked yet, or whose last kick or alert was read at clock 0:     *)
(* the code cannot tell the two apart, and looks at neither again before the next kick. *)
Unseen == -1
Noted(reading) == IF reading = 0 THEN Unseen ELSE 0

(* Mutants: no wrap-around; a later stamp counts as no gap. *)
WideSum(x, y)        == x + y
ClampedElapsed(x, y) == IF x < y THEN 0 ELSE x - y

(* uint32_t arithmetic. *)
Sum(x, y)     == (x + y) % 2 ^ Width
Elapsed(x, y) == (x - y) % 2 ^ Width

Stamps == 0 .. 2 ^ Width - 1

TypeOK ==
  /\ clock \in Stamps /\ t_ms \in Stamps
  /\ due \in 0 .. Period
  /\ pass \in {"sleep", "heartbeats", "track", "ttl"}
  /\ wi \in 0 .. Len(Tracked)
  /\ pass \in {"track", "ttl"} <=> wi # 0
  /\ present \subseteq Responders
  /\ spawn_ms \in [Responders -> Stamps]
  /\ hb \in [OwnTasks -> Stamps]
  /\ kick \in [OwnTasks -> Stamps \cup {-1}]
  /\ age \in [Responders -> 0 .. Cap] /\ held \in [Responders -> 0 .. Cap]
  /\ quiet \in [OwnTasks -> 0 .. Cap] /\ unwarned \in [OwnTasks -> {Unseen} \cup 0 .. Cap]

-----------------------------------------------------------------------------
(* The tick interrupt.  A watchdog that is due runs before time goes on, and a pass   *)
(* and a kick are short.  A task that never gets to the second half of a kick is one  *)
(* that never began the kick: the first half changes nothing that anyone reads.       *)
TicksInPass == Period - due

Tick ==
  /\ IF pass = "sleep" THEN due > 0 ELSE TicksInPass < PassTicks
  /\ \A i \in OwnTasks : kick[i] # -1 => Elapsed(clock, kick[i]) < MaxStall
  /\ clock' = Sum(clock, 1)
  /\ due' = due - 1
  /\ age'      = [k \in Responders |-> AtMost(age[k] + 1, Cap)]
  /\ held'     = [k \in Responders |-> AtMost(held[k] + 1, Cap)]
  /\ quiet'    = [i \in OwnTasks |-> AtMost(quiet[i] + 1, Cap)]
  /\ unwarned' = [i \in OwnTasks |-> IF unwarned[i] = Unseen THEN Unseen
                                     ELSE AtMost(unwarned[i] + 1, Cap)]
  /\ UNCHANGED <<pass, wi, t_ms, present, spawn_ms, hb, kick>>

(* Other tasks run only while the watchdog sleeps and is not due. *)
OthersRun == pass = "sleep" /\ due > 0

-----------------------------------------------------------------------------
(* watchdog_kick: read the tick count ... *)
KickRead(i) ==
  /\ OthersRun
  /\ i \in Kickers /\ kick[i] = -1
  /\ kick' = [kick EXCEPT ![i] = clock]
  /\ UNCHANGED <<clock, watchdogVars, responderVars, hb, quiet, unwarned>>

(* ... and store it; the watchdog may have run in between. *)
KickStore(i) ==
  /\ OthersRun
  /\ kick[i] # -1
  /\ hb' = [hb EXCEPT ![i] = kick[i]]
  /\ quiet' = [quiet EXCEPT ![i] = Elapsed(clock, kick[i])]
  /\ unwarned' = [unwarned EXCEPT ![i] = Noted(kick[i])]
  /\ kick' = [kick EXCEPT ![i] = -1]
  /\ UNCHANGED <<clock, watchdogVars, responderVars>>

(* A monitor creates the responder, and monitor or responder end it. *)
Spawn(k) ==
  /\ OthersRun
  /\ k \notin present
  /\ present' = present \cup {k}
  /\ age' = [age EXCEPT ![k] = 0]
  /\ UNCHANGED <<clock, watchdogVars, spawn_ms, held, heartbeatVars>>

End(k) ==
  /\ OthersRun
  /\ k \in present
  /\ present' = present \ {k}
  /\ UNCHANGED <<clock, watchdogVars, spawn_ms, age, held, heartbeatVars>>

-----------------------------------------------------------------------------
(* vWatchdogTask is released and reads the clock. *)
WdWake ==
  /\ pass = "sleep" /\ due = 0
  /\ t_ms' = clock
  /\ due' = Period
  /\ pass' = "heartbeats"
  /\ UNCHANGED <<clock, wi, responderVars, heartbeatVars>>

(* Mutant: the boundary itself counts as silence. *)
TimedOutEarly(i) == hb[i] > 0 /\ Elapsed(t_ms, hb[i]) >= TIMEOUT

TimedOut(i) == hb[i] > 0 /\ Elapsed(t_ms, hb[i]) > TIMEOUT

(* The heartbeat loop; the checks of the monitors before it use no time. *)
CheckHeartbeats ==
  /\ pass = "heartbeats"
  /\ hb' = [i \in OwnTasks |-> IF TimedOut(i) THEN t_ms ELSE hb[i]]
  /\ unwarned' = [i \in OwnTasks |-> IF TimedOut(i) THEN Noted(t_ms) ELSE unwarned[i]]
  /\ IF Tracked = <<>> THEN pass' = "sleep" /\ UNCHANGED wi
                       ELSE pass' = "track" /\ wi' = 1
  /\ UNCHANGED <<clock, due, t_ms, responderVars, kick, quiet>>

(* Mutant: a stamp is renewed although it is set. *)
RestampAlways(k) ==
  spawn_ms' = [spawn_ms EXCEPT ![k] = IF k \notin present THEN 0 ELSE clock]

Stamp(k) ==
  spawn_ms' = [spawn_ms EXCEPT ![k] = CASE k \notin present -> 0
                                        [] k \in present /\ @ = 0 -> clock
                                        [] OTHER -> @]

(* track_spawn reads the clock again, after t_ms was read. *)
TrackSpawn ==
  /\ pass = "track"
  /\ Stamp(Tracked[wi])
  /\ held' = [held EXCEPT ![Tracked[wi]] = IF Tracked[wi] \in present THEN @ ELSE 0]
  /\ IF wi = Len(Tracked) THEN pass' = "ttl" /\ wi' = 1
                          ELSE wi' = wi + 1 /\ UNCHANGED pass
  /\ UNCHANGED <<clock, due, t_ms, present, age, heartbeatVars>>

Expired(k) == k \in present /\ spawn_ms[k] # 0 /\ Elapsed(t_ms, spawn_ms[k]) > TTL

NextResponder ==
  IF wi = Len(Tracked) THEN pass' = "sleep" /\ wi' = 0
                       ELSE wi' = wi + 1 /\ UNCHANGED pass

RespectTTL ==
  /\ pass = "ttl"
  /\ ~Expired(Tracked[wi])
  /\ NextResponder
  /\ UNCHANGED <<clock, due, t_ms, responderVars, heartbeatVars>>

(* Mutant: the stamp survives the kill. *)
KillKeepsStamp(k) ==
  /\ present' = present \ {k}
  /\ UNCHANGED spawn_ms

(* vKillResponder, then the stamp is cleared. *)
KillResponder(k) ==
  /\ present' = present \ {k}
  /\ spawn_ms' = [spawn_ms EXCEPT ![k] = 0]

EnforceTTL ==
  /\ pass = "ttl"
  /\ Expired(Tracked[wi])
  /\ KillResponder(Tracked[wi])
  /\ held' = [held EXCEPT ![Tracked[wi]] = 0]
  /\ NextResponder
  /\ UNCHANGED <<clock, due, t_ms, age, heartbeatVars>>

-----------------------------------------------------------------------------
Init ==
  /\ clock = 0 /\ due = 0 /\ pass = "sleep" /\ wi = 0 /\ t_ms = 0
  /\ present = {}
  /\ spawn_ms = [k \in Responders |-> 0]
  /\ hb = [i \in OwnTasks |-> 0]
  /\ kick = [i \in OwnTasks |-> -1]
  /\ age = [k \in Responders |-> 0] /\ held = [k \in Responders |-> 0]
  /\ quiet = [i \in OwnTasks |-> 0] /\ unwarned = [i \in OwnTasks |-> Unseen]

Next ==
  \/ Tick
  \/ \E i \in OwnTasks : KickRead(i) \/ KickStore(i)
  \/ \E k \in Responders : Spawn(k) \/ End(k)
  \/ WdWake \/ CheckHeartbeats \/ TrackSpawn \/ RespectTTL \/ EnforceTTL

Spec == Init /\ [][Next]_vars

-----------------------------------------------------------------------------
(* Properties. *)

(* README: "Responder alive > 10 s without recovery -> killed": a responder of the list  *)
(* gets no older than its time to live and three periods, across wrap-around: one period *)
(* until it is stamped, one more if the stamp would be the 0 that means none, one to the *)
(* kill.                                                                                 *)
KilledInTime ==
  \A i \in DOMAIN Tracked :
    LET k == Tracked[i] IN k \in present => age[k] <= TTL + 3 * Period + PassTicks

(* A stamp taken after the pass read its clock.  *)
StampAhead(k) == Elapsed(spawn_ms[k], t_ms) \in 1 .. PassTicks

(* A kill is due: unless the stamp is ahead of the clock reading, every pass for more   *)
(* than a time to live has found a responder there (the one killed or predecessors).    *)
KillIsDue ==
  [][\A i \in DOMAIN Tracked :
       LET k == Tracked[i] IN
       pass = "ttl" /\ k \in present \ present' /\ ~StampAhead(k) => held[k] > TTL]_vars

(* watchdog.c: killed when "it has been alive longer than WATCHDOG_RESPONDER_TTL_MS".   *)
KilledOnlyWhenOld ==
  [][\A k \in Responders : pass = "ttl" /\ k \in present \ present' => age[k] > TTL]_vars

(* No healthy task is reported frozen: an alert means that no kick whose clock reading   *)
(* is at most WATCHDOG_TIMEOUT_MS old has been stored, also across wrap-around.          *)
NoFalseAlarm ==
  [][\A i \in OwnTasks :
       pass = "heartbeats" /\ hb'[i] # hb[i] => quiet[i] - TicksInPass > TIMEOUT]_vars

(* A task that stops kicking is noticed within a timeout and two periods, and again     *)
(* after each alert, whatever a kick in two halves does to the reset stamp: unless its  *)
(* last kick, or the last alert for it, was read at clock 0.  That task is Unseen: the  *)
(* stamp is then the 0 that means none, and its silence is never noticed.  It is so for *)
(* the first kick of a task that runs at tick 0, and for one of 2^32 later ones.        *)
SilenceIsNoticed ==
  \A i \in OwnTasks :
    unwarned[i] # Unseen => unwarned[i] <= TIMEOUT + Period + PassTicks
=============================================================================
