------------------------------ MODULE DashboardBridge ------------------------------
(* dashboard/serve.py between a log file and the browser.  The monitor writes whole     *)
(* lines; it may be stopped and started again (its logger opens the log with mode "w"), *)
(* and `make clean` removes the log.  A thread tails the file, one thread per request   *)
(* answers with the parsed state and the recent events; the browser asks again every    *)
(* second without waiting for the last answer.                                          *)
(*                                                                                      *)
(* A status line takes two cells of the file and any other line one: enough for a       *)
(* position that falls into the middle of a line.  A critical section is one step.      *)
(*                                                                                      *)
(* Sources: dashboard/serve.py, src/logger.c (logger_init, write_msg), Makefile (clean).*)
EXTENDS DashboardTables, Sequences

CONSTANTS
  Handlers,   \* threads of the server
  Uptimes,    \* bound: the uptimes of status lines
  Killed,     \* bound: the responders that watchdog lines name
  EventsMax,  \* maxlen of parsed_events
  Recent,     \* events in an answer
  MaxLines,   \* bound: lines written
  MaxStarts   \* bound: starts of the monitor

ASSUME BridgeAssumption ==
  /\ Uptimes \subseteq Nat
  /\ EventsMax \in Nat \ {0} /\ Recent \in 1 .. EventsMax
  /\ MaxLines \in Nat /\ MaxStarts \in Nat

Responders == {"temp", "batt", "comm", "heap"}
ASSUME KilledAssumption == Killed \subseteq Responders

(* Inodes; a start needs at most one of its own. *)
Files == 1 .. MaxStarts
NoFile == 0

VARIABLES
  path,       \* the inode that logs/system.log names
  file,       \* the cells of every inode
  out,        \* the inode the running monitor writes to, or NoFile
  starts, cleaned,   \* history: starts of the monitor; has the log been removed?
  log,        \* history: every line written, by number
  in, pos, tailAt, line,   \* tail_log: the open inode, the position, where it is, its line
  parsed_events,           \* the numbers of the lines in the ring
  state,      \* what apply_to_state has made of the lines
  snap        \* each handler's answer so far

fileVars == <<path, file, out, starts, cleaned, log>>
tailVars == <<in, pos, tailAt, line>>
vars == <<fileVars, tailVars, parsed_events, state, snap>>

SensorLines == [type : {"sensor"}, up : Uptimes]
SpawnLines  == [type : {"spawn"}, resp : {"temp"}]
KillLines   == [type : {"kill"}, resp : Killed]
LogLines == SensorLines \cup SpawnLines \cup KillLines

(* A line as tail_log reads it: its number and, unless it is a whole one, "half". *)
NoLine == [n |-> 0, type |-> "none"]
ReadLines == [n : 0 .. MaxLines, type : {"sensor", "spawn", "kill", "half", "none"}]

(* n: the number of the line that was applied last. *)
States == [n : 0 .. MaxLines, up : Uptimes \cup {0}, phase : DashboardPhases,
           running : BOOLEAN, alive : SUBSET Responders]
InitialState == [n |-> 0, up |-> 0, phase |-> "NOMINAL", running |-> FALSE, alive |-> {}]
Snaps == [at : {"idle", "copied", "ready"}, state : States, events : Seq(1 .. MaxLines)]
NoSnap == [at |-> "idle", state |-> InitialState, events |-> <<>>]

TypeOK ==
  /\ path \in Files \cup {NoFile} /\ out \in Files \cup {NoFile} /\ in \in Files \cup {NoFile}
  /\ file \in [Files -> Seq((1 .. MaxLines) \X {1, 2})]
  /\ starts \in 0 .. MaxStarts /\ cleaned \in BOOLEAN
  /\ log \in Seq(LogLines) /\ Len(log) <= MaxLines
  /\ pos \in Nat /\ tailAt \in {"open", "read", "append", "apply"} /\ line \in ReadLines
  /\ parsed_events \in Seq(1 .. MaxLines) /\ Len(parsed_events) <= EventsMax
  /\ state \in States
  /\ snap \in [Handlers -> Snaps]

-----------------------------------------------------------------------------
(* The log file. *)

(* logger_init: fopen(..., "w") empties the file that is there or makes a new one. *)
Start ==
  /\ out = NoFile /\ starts < MaxStarts
  /\ starts' = starts + 1
  /\ path' = IF path = NoFile THEN starts' ELSE path
  /\ out' = path'
  /\ file' = [file EXCEPT ![path'] = <<>>]
  /\ UNCHANGED <<cleaned, log, tailVars, parsed_events, state, snap>>

(* The monitor ends. *)
Stop ==
  /\ out # NoFile
  /\ out' = NoFile
  /\ UNCHANGED <<path, file, starts, cleaned, log, tailVars, parsed_events, state, snap>>

(* make clean; a running monitor keeps its file. *)
Clean ==
  /\ path # NoFile
  /\ path' = NoFile /\ cleaned' = TRUE
  /\ UNCHANGED <<file, out, starts, log, tailVars, parsed_events, state, snap>>

Cells(n, l) == IF l.type = "sensor" THEN <<<<n, 1>>, <<n, 2>>>> ELSE <<<<n, 1>>>>

(* write_msg: one line, flushed. *)
Write(l) ==
  /\ out # NoFile /\ Len(log) < MaxLines
  /\ log' = Append(log, l)
  /\ file' = [file EXCEPT ![out] = @ \o Cells(Len(log'), l)]
  /\ UNCHANGED <<path, out, starts, cleaned, tailVars, parsed_events, state, snap>>

-----------------------------------------------------------------------------
(* tail_log.  While there is no file, or nothing new in it, it sleeps. *)

(* Mutant: tailing starts at the end of the file. *)
TailOpenAtEnd ==
  /\ tailAt = "open" /\ path # NoFile
  /\ in' = path /\ pos' = Len(file[path]) /\ tailAt' = "read"
  /\ UNCHANGED <<fileVars, line, parsed_events, state, snap>>

TailOpen ==
  /\ tailAt = "open" /\ path # NoFile
  /\ in' = path /\ pos' = 0 /\ tailAt' = "read"
  /\ UNCHANGED <<fileVars, line, parsed_events, state, snap>>

(* readline: up to the end of the line, from wherever the position is.  Half a status  *)
(* line matches no pattern and passes for an event.                                    *)
TailRead ==
  /\ tailAt = "read" /\ pos < Len(file[in])
  /\ LET n == file[in][pos + 1][1]
         whole == file[in][pos + 1][2] = 1
     IN /\ line' = [n |-> n, type |-> IF whole THEN log[n].type ELSE "half"]
        /\ pos' = pos + IF whole THEN Len(Cells(n, log[n])) ELSE 1
  /\ tailAt' = "append"
  /\ UNCHANGED <<fileVars, in, parsed_events, state, snap>>

(* Mutant: the ring keeps one too many. *)
LastOfOne(s, m) == IF Len(s) <= m + 1 THEN s ELSE SubSeq(s, Len(s) - m, Len(s))

(* deque(maxlen = m), and the slice [-m:]. *)
LastOf(s, m) == IF Len(s) <= m THEN s ELSE SubSeq(s, Len(s) - m + 1, Len(s))

(* Mutant: only event lines are kept. *)
TailAppendEvents ==
  /\ tailAt = "append" /\ tailAt' = "apply"
  /\ parsed_events' = IF line.type = "sensor" THEN parsed_events
                      ELSE LastOf(Append(parsed_events, line.n), EventsMax)
  /\ UNCHANGED <<fileVars, in, pos, line, state, snap>>

TailAppend ==
  /\ tailAt = "append" /\ tailAt' = "apply"
  /\ parsed_events' = LastOf(Append(parsed_events, line.n), EventsMax)
  /\ UNCHANGED <<fileVars, in, pos, line, state, snap>>

(* Mutant: a responder keeps what the last event said of it. *)
AppliedUnmapped(s, l) ==
  IF l.type = "sensor"
  THEN [s EXCEPT !.n = l.n, !.up = log[l.n].up, !.phase = PhaseOfUptime(log[l.n].up),
                 !.running = TRUE]
  ELSE [s EXCEPT !.n = l.n,
                 !.alive = CASE l.type = "spawn" -> @ \cup {log[l.n].resp}
                             [] l.type = "kill"  -> @ \ {log[l.n].resp}
                             [] OTHER -> @]

(* apply_to_state, which ends with _apply_phase_responder_mapping: whatever an event    *)
(* says of a responder is replaced by the phase's table.                                *)
Applied(s, l) ==
  IF l.type = "sensor"
  THEN LET p == PhaseOfUptime(log[l.n].up)
       IN [n |-> l.n, up |-> log[l.n].up, phase |-> p, running |-> TRUE, alive |-> ShownAlive(p)]
  ELSE [s EXCEPT !.n = l.n, !.alive = ShownAlive(s.phase)]

TailApply ==
  /\ tailAt = "apply" /\ tailAt' = "read"
  /\ state' = Applied(state, line)
  /\ UNCHANGED <<fileVars, in, pos, line, parsed_events, snap>>

Tail_log == TailOpen \/ TailRead \/ TailAppend \/ TailApply

-----------------------------------------------------------------------------
(* do_GET of /api/state: the copy under the lock, the events without it. *)

Snapshot(h) ==
  /\ snap[h] = NoSnap
  /\ snap' = [snap EXCEPT ![h] = [@ EXCEPT !.at = "copied", !.state = state]]
  /\ UNCHANGED <<fileVars, tailVars, parsed_events, state>>

AddEvents(h) ==
  /\ snap[h].at = "copied"
  /\ snap' = [snap EXCEPT ![h] = [@ EXCEPT !.at = "ready",
                                         !.events = LastOf(parsed_events, Recent)]]
  /\ UNCHANGED <<fileVars, tailVars, parsed_events, state>>

(* The answer is sent and the thread is done. *)
Send(h) ==
  /\ snap[h].at = "ready"
  /\ snap' = [snap EXCEPT ![h] = NoSnap]
  /\ UNCHANGED <<fileVars, tailVars, parsed_events, state>>

-----------------------------------------------------------------------------
Init ==
  /\ path = NoFile /\ out = NoFile /\ file = [f \in Files |-> <<>>]
  /\ starts = 0 /\ cleaned = FALSE /\ log = <<>>
  /\ in = NoFile /\ pos = 0 /\ tailAt = "open" /\ line = NoLine
  /\ parsed_events = <<>> /\ state = InitialState
  /\ snap = [h \in Handlers |-> NoSnap]

Next ==
  \/ Start \/ Stop \/ Clean
  \/ \E l \in LogLines : Write(l)
  \/ TailOpen \/ TailRead \/ TailAppend \/ TailApply
  \/ \E h \in Handlers : Snapshot(h) \/ AddEvents(h) \/ Send(h)

Spec == Init /\ [][Next]_vars

(* The tailing thread sleeps a tenth of a second at most and is never blocked for long. *)
FairSpec == Spec /\ WF_vars(Tail_log)

-----------------------------------------------------------------------------
(* Properties. *)

(* No answer has a state that is ahead of the events beside it, although the two are     *)
(* copied one after the other, the second without the lock: the tailing thread appends   *)
(* before it applies, the handler copies in the other order.                             *)
LastNumber(events) == IF events = <<>> THEN 0 ELSE events[Len(events)]
EventsCoverState ==
  \A h \in Handlers : snap[h].at = "ready" => snap[h].state.n <= LastNumber(snap[h].events)

(* An answer shows the responders as the phase beside them says, whatever spawn and kill *)
(* lines the log had in between and whenever the copy was taken.                         *)
RespondersMatchPhase ==
  \A h \in Handlers : snap[h].state.alive = ShownAlive(snap[h].state.phase)

(* Until the monitor is started again every line is applied once, whole and in order,    *)
(* those included that were written before the bridge looked.                            *)
NoLineSkipped ==
  [][starts <= 1 => state.n' \in {state.n, state.n + 1} /\ line'.type # "half"]_vars

(* ... and every line is applied in the end. *)
TailCatchesUp ==
  \A n \in 1 .. MaxLines :
    (Len(log) >= n /\ starts = 1 /\ ~cleaned) ~> (state.n >= n \/ starts > 1 \/ cleaned)

(* "Re-opens if file is rotated/recreated." *)
ReopensRecreatedLog ==
  \A f \in Files : (path = f /\ in \notin {f, NoFile}) ~> (in = f \/ path # f)
=============================================================================
