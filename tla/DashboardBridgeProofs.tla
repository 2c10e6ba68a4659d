---------------------------- MODULE DashboardBridgeProofs ----------------------------
(* What the bridge answers, for every number of request threads, every log and every   *)
(* number of restarts of the monitor.                                                  *)
EXTENDS DashboardBridge, SequenceTheorems, TLAPS

(* A file holds lines that were written, in the order of their numbers. *)
FileInv ==
  \A f \in Files : \A i \in 1 .. Len(file[f]) :
    /\ file[f][i][1] \in 1 .. Len(log)
    /\ \A j \in i .. Len(file[f]) : file[f][i][1] <= file[f][j][1]

(* What is still unread was written after what was read, also when the file has been    *)
(* emptied below the position in between.                                               *)
Newest == LastNumber(parsed_events)
TailInv ==
  /\ tailAt = "open" => parsed_events = <<>>
  /\ tailAt # "open" =>
       /\ in \in Files
       /\ \A i \in pos + 1 .. Len(file[in]) :
            Newest <= file[in][i][1] /\ (tailAt = "append" => line.n <= file[in][i][1])
  /\ tailAt \in {"append", "apply"} =>
       /\ line.n \in 1 .. Len(log)
       /\ line.type \in {"half", log[line.n].type}
  /\ Newest <= Len(log)
  /\ tailAt = "append" => Newest <= line.n
  /\ tailAt = "apply"  => Newest = line.n

(* The state is behind the ring, and so is every copy of it. *)
AnswerInv ==
  /\ state.n <= Newest
  /\ state.alive = ShownAlive(state.phase)
  /\ \A h \in Handlers : snap[h].at = "copied" => snap[h].state.n <= Newest

IInv == TypeOK /\ FileInv /\ TailInv /\ AnswerInv /\ EventsCoverState /\ RespondersMatchPhase

-----------------------------------------------------------------------------
(* Rings, cells and tables. *)

LEMMA LastOfProperties ==
  ASSUME NEW S, NEW s \in Seq(S), NEW m \in Nat \ {0}
  PROVE  /\ LastOf(s, m) \in Seq(S) /\ Len(LastOf(s, m)) <= m
         /\ LastNumber(LastOf(s, m)) = LastNumber(s)
<1>1. CASE Len(s) <= m
  BY <1>1 DEF LastOf
<1>2. CASE ~(Len(s) <= m)
  <2> DEFINE t == SubSeq(s, Len(s) - m + 1, Len(s))
  <2>1. Len(s) \in Nat /\ Len(s) - m + 1 \in 1 .. Len(s)
    BY <1>2
  <2>2. /\ t \in Seq(S) /\ Len(t) = m
        /\ \A i \in 1 .. m : t[i] = s[Len(s) - m + i]
    BY <2>1, SubSeqProperties, ElementOfSeq
  <2> HIDE DEF t
  <2>3. t[Len(t)] = s[Len(s)] /\ t # <<>> /\ s # <<>>
    BY <2>1, <2>2
  <2> QED BY <1>2, <2>2, <2>3 DEF LastOf, LastNumber, t
<1> QED BY <1>1, <1>2

LEMMA LastOfAppended ==
  ASSUME NEW S, NEW s \in Seq(S), NEW n \in S
  PROVE  LastNumber(Append(s, n)) = n
  BY DEF LastNumber

LEMMA CellsProperties ==
  ASSUME NEW n \in Nat, NEW l \in LogLines
  PROVE  /\ Cells(n, l) \in Seq({n} \X {1, 2}) /\ Len(Cells(n, l)) \in {1, 2}
         /\ \A i \in 1 .. Len(Cells(n, l)) : Cells(n, l)[i][1] = n
<1>1. CASE l.type = "sensor"
  BY <1>1 DEF Cells
<1>2. CASE l.type # "sensor"
  BY <1>2 DEF Cells
<1> QED BY <1>1, <1>2

LEMMA Tables ==
  /\ \A u \in Nat : PhaseOfUptime(u) \in DashboardPhases
  /\ \A p \in DashboardPhases : ShownAlive(p) \subseteq Responders
  BY DEF PhaseOfUptime, DashboardPhases, ShownAlive, Responders

LEMMA LinesAreTyped ==
  ASSUME NEW l \in LogLines
  PROVE  /\ l.type \in {"sensor", "spawn", "kill"}
         /\ l.type = "sensor" => l.up \in Uptimes
  BY DEF LogLines, SensorLines, SpawnLines, KillLines

LEMMA InitialTypes ==
  InitialState \in States /\ NoSnap \in Snaps
<1>1. InitialState \in States
  BY BridgeAssumption DEF InitialState, States, DashboardPhases
<1> QED BY <1>1 DEF NoSnap, Snaps

-----------------------------------------------------------------------------
(* IInv holds at the start, and every step preserves it. *)

LEMMA IInvInit ==
  ASSUME Init
  PROVE  IInv
<1> USE DEF Init
<1>1. TypeOK
  <2>1. line \in ReadLines /\ state \in States /\ snap \in [Handlers -> Snaps]
    BY InitialTypes, BridgeAssumption DEF NoLine, ReadLines
  <2>2. /\ file \in [Files -> Seq((1 .. MaxLines) \X {1, 2})]
        /\ log \in Seq(LogLines) /\ Len(log) <= MaxLines
        /\ parsed_events \in Seq(1 .. MaxLines) /\ Len(parsed_events) <= EventsMax
    BY BridgeAssumption
  <2>3. starts \in 0 .. MaxStarts /\ pos \in Nat
    BY BridgeAssumption
  <2>4. cleaned \in BOOLEAN
    OBVIOUS
  <2> QED BY <2>1, <2>2, <2>3, <2>4 DEF TypeOK
<1>2. FileInv BY DEF FileInv
<1>3. TailInv BY DEF TailInv, Newest, LastNumber
<1>4. AnswerInv BY DEF AnswerInv, Newest, LastNumber, InitialState, ShownAlive, NoSnap
<1>5. EventsCoverState BY DEF EventsCoverState, NoSnap
<1>6. RespondersMatchPhase BY DEF RespondersMatchPhase, NoSnap, InitialState, ShownAlive
<1> QED BY <1>1, <1>2, <1>3, <1>4, <1>5, <1>6 DEF IInv

LEMMA StartPreserves ==
  ASSUME IInv, Start
  PROVE  IInv'
<1> USE DEF IInv, Start, tailVars
<1>0. path' \in Files
  BY BridgeAssumption DEF TypeOK, Files, NoFile
<1>1. file' \in [Files -> Seq((1 .. MaxLines) \X {1, 2})] /\ file'[path'] = <<>>
      /\ \A f \in Files : f # path' => file'[f] = file[f]
  BY <1>0 DEF TypeOK
<1>2. TypeOK' BY <1>0, <1>1, BridgeAssumption DEF TypeOK
<1>3. FileInv' BY <1>1 DEF FileInv, TypeOK
<1>4. TailInv'
  <2>1. CASE in = path' BY <1>1, <2>1 DEF TailInv, Newest, TypeOK
  <2>2. CASE in # path' BY <1>1, <2>2 DEF TailInv, Newest, TypeOK
  <2> QED BY <2>1, <2>2
<1>5. AnswerInv' BY DEF AnswerInv, Newest
<1>6. EventsCoverState' BY DEF EventsCoverState
<1>7. RespondersMatchPhase' BY DEF RespondersMatchPhase
<1> QED BY <1>2, <1>3, <1>4, <1>5, <1>6, <1>7

(* Stop and Clean touch neither files nor lines. *)
LEMMA StopPreserves ==
  ASSUME IInv, Stop \/ Clean
  PROVE  IInv'
<1> USE DEF IInv, Stop, Clean, tailVars
<1>1. TypeOK' BY DEF TypeOK
<1>2. FileInv' BY DEF FileInv
<1>3. TailInv' BY DEF TailInv, Newest
<1>4. AnswerInv' BY DEF AnswerInv, Newest
<1>5. EventsCoverState' BY DEF EventsCoverState
<1>6. RespondersMatchPhase' BY DEF RespondersMatchPhase
<1> QED BY <1>1, <1>2, <1>3, <1>4, <1>5, <1>6

LEMMA WritePreserves ==
  ASSUME IInv, NEW l \in LogLines, Write(l)
  PROVE  IInv'
<1> USE DEF IInv, Write, tailVars
<1> DEFINE n == Len(log) + 1
           old == file[out]
           new == Cells(n, l)
<1>1. /\ out \in Files /\ Len(log) \in Nat /\ n \in 1 .. MaxLines
      /\ log' \in Seq(LogLines) /\ Len(log') = n
      /\ \A i \in 1 .. Len(log) : log'[i] = log[i]
  BY BridgeAssumption DEF TypeOK, NoFile
<1>2. /\ new \in Seq((1 .. MaxLines) \X {1, 2}) /\ Len(new) \in {1, 2}
      /\ \A i \in 1 .. Len(new) : new[i][1] = n
  <2>1. /\ new \in Seq({n} \X {1, 2}) /\ Len(new) \in {1, 2}
        /\ \A i \in 1 .. Len(new) : new[i][1] = n
    <3>1. n \in Nat BY <1>1
    <3> HIDE DEF n
    <3> QED BY <3>1, CellsProperties
  <2>2. {n} \X {1, 2} \subseteq (1 .. MaxLines) \X {1, 2}
    BY <1>1
  <2> QED BY <2>1, <2>2, SeqMonotonic
<1>3. old \in Seq((1 .. MaxLines) \X {1, 2}) /\ Len(old) \in Nat
  BY <1>1 DEF TypeOK
<1>4. /\ file'[out] = old \o new
      /\ \A f \in Files : f # out => file'[f] = file[f]
  BY <1>1 DEF TypeOK
<1> HIDE DEF new, old
<1>5. /\ old \o new \in Seq((1 .. MaxLines) \X {1, 2})
      /\ Len(old \o new) = Len(old) + Len(new)
      /\ \A i \in 1 .. Len(old) : (old \o new)[i] = old[i]
      /\ \A i \in Len(old) + 1 .. Len(old) + Len(new) : (old \o new)[i][1] = n
  <2>1. /\ old \o new \in Seq((1 .. MaxLines) \X {1, 2})
        /\ Len(old \o new) = Len(old) + Len(new)
        /\ \A i \in 1 .. Len(old) + Len(new) :
             (old \o new)[i] = IF i <= Len(old) THEN old[i] ELSE new[i - Len(old)]
    BY <1>2, <1>3, ConcatProperties
  <2> QED BY <1>2, <1>3, <2>1
<1>6. \A i \in 1 .. Len(old) :
        /\ old[i][1] \in 1 .. Len(log)
        /\ \A j \in i .. Len(old) : old[i][1] <= old[j][1]
  BY <1>1 DEF FileInv, old
<1>7. TypeOK'
  <2>1. file' \in [Files -> Seq((1 .. MaxLines) \X {1, 2})]
    BY <1>4, <1>5 DEF TypeOK
  <2> QED BY <1>1, <2>1 DEF TypeOK
<1>8. FileInv'
  <2> SUFFICES ASSUME NEW f \in Files, NEW i \in 1 .. Len(file'[f])
               PROVE  /\ file'[f][i][1] \in 1 .. n
                      /\ \A j \in i .. Len(file'[f]) : file'[f][i][1] <= file'[f][j][1]
    BY <1>1 DEF FileInv
  <2>1. CASE f = out
    <3> DEFINE t == old \o new
    <3>1. file'[f] = t BY <1>4, <2>1
    <3>2. \A k \in 1 .. Len(t) : IF k <= Len(old) THEN t[k] = old[k] ELSE t[k][1] = n
      BY <1>2, <1>3, <1>5
    <3>3. Len(t) \in Nat BY <1>5
    <3> HIDE DEF t, IInv, Write
    <3>4. t[i][1] \in 1 .. n
      BY <1>1, <1>3, <1>6, <3>1, <3>2
    <3>5. ASSUME NEW j \in i .. Len(t) PROVE t[i][1] <= t[j][1]
      <4>1. CASE j <= Len(old)
        <5>1. i \in 1 .. Len(old) /\ j \in i .. Len(old)
          BY <1>3, <3>1, <3>3, <3>5, <4>1
        <5>2. t[i] = old[i] /\ t[j] = old[j]
          BY <1>3, <3>1, <3>2, <3>3, <3>5, <5>1
        <5> QED BY <1>6, <5>1, <5>2
      <4>2. CASE ~(j <= Len(old)) BY <1>1, <1>3, <3>1, <3>2, <3>3, <3>4, <4>2
      <4> QED BY <4>1, <4>2
    <3> QED BY <3>1, <3>4, <3>5
  <2>2. CASE f # out
    BY <1>1, <1>4, <2>2 DEF FileInv
  <2> QED BY <2>1, <2>2
<1>9. TailInv'
  <2>1. Newest' = Newest /\ Newest <= Len(log) /\ Newest \in Nat
    BY BridgeAssumption DEF TailInv, Newest, LastNumber, TypeOK
  <2>2. ASSUME tailAt # "open", NEW i \in pos + 1 .. Len(file'[in])
        PROVE  /\ Newest <= file'[in][i][1]
               /\ tailAt = "append" => line.n <= file'[in][i][1]
    <3>1. CASE in = out
      <4>1. CASE i <= Len(old)
        <5>1. file'[in][i] = file[in][i] /\ i \in pos + 1 .. Len(file[in])
          BY <1>4, <1>5, <2>2, <3>1, <4>1 DEF TypeOK, old
        <5> QED BY <2>2, <5>1 DEF TailInv
      <4>2. CASE ~(i <= Len(old))
        <5>1. pos \in Nat /\ in = out
          BY <3>1 DEF TypeOK
        <5>3. tailAt = "append" => line.n \in 1 .. Len(log)
          BY DEF TailInv
        <5> HIDE DEF IInv, Write
        <5>4. file'[in] = old \o new
          BY <1>4, <5>1
        <5>5. i \in Len(old) + 1 .. Len(old) + Len(new)
          BY <1>2, <1>3, <1>5, <2>2, <4>2, <5>1, <5>4
        <5>2. file'[in][i][1] = n
          BY <1>5, <5>4, <5>5
        <5> QED BY <1>1, <2>1, <5>2, <5>3
      <4> QED BY <4>1, <4>2
    <3>2. CASE in # out
      BY <1>4, <2>2, <3>2 DEF TailInv
    <3> QED BY <3>1, <3>2
  <2>3. tailAt \in {"append", "apply"} =>
          line.n \in 1 .. n /\ line.type \in {"half", log'[line.n].type}
    BY <1>1 DEF TailInv
  <2>4. UNCHANGED <<in, pos, tailAt, line, parsed_events>> /\ Newest <= n
    BY <1>1, <2>1
  <2>5. \/ tailAt = "open" /\ parsed_events = <<>>
        \/ tailAt # "open" /\ in \in Files
    BY DEF TailInv
  <2>6. (tailAt = "append" => Newest <= line.n) /\ (tailAt = "apply" => Newest = line.n)
    BY DEF TailInv
  <2> HIDE DEF IInv, Write
  <2> QED BY <1>1, <2>1, <2>2, <2>3, <2>4, <2>5, <2>6 DEF TailInv
<1>10. AnswerInv' BY DEF AnswerInv, Newest
<1>11. EventsCoverState' BY DEF EventsCoverState
<1>12. RespondersMatchPhase' BY DEF RespondersMatchPhase
<1> QED BY <1>7, <1>8, <1>9, <1>10, <1>11, <1>12

LEMMA TailOpenPreserves ==
  ASSUME IInv, TailOpen
  PROVE  IInv'
<1> USE DEF IInv, TailOpen, fileVars
<1>1. path \in Files BY DEF TypeOK
<1>2. TypeOK' BY <1>1 DEF TypeOK
<1>3. FileInv' BY DEF FileInv
<1>4. TailInv'
  <2>1. Newest = 0 /\ Newest' = 0
    BY DEF TailInv, Newest, LastNumber
  <2>2. \A i \in 1 .. Len(file[path]) : file[path][i][1] \in Nat
    BY <1>1 DEF FileInv, TypeOK
  <2> QED BY <1>1, <2>1, <2>2 DEF TailInv, TypeOK
<1>5. AnswerInv' BY DEF AnswerInv, Newest
<1>6. EventsCoverState' BY DEF EventsCoverState
<1>7. RespondersMatchPhase' BY DEF RespondersMatchPhase
<1> QED BY <1>2, <1>3, <1>4, <1>5, <1>6, <1>7

(* A reader inside a line reads its second cell. *)
LEMMA TailReadPreserves ==
  ASSUME IInv, TailRead
  PROVE  IInv'
<1> USE DEF IInv, TailRead, fileVars
<1> DEFINE cell == file[in][pos + 1]
           n == cell[1]
           step == IF cell[2] = 1 THEN Len(Cells(n, log[n])) ELSE 1
<1>1. /\ in \in Files /\ pos \in Nat /\ Len(file[in]) \in Nat
      /\ pos + 1 \in pos + 1 .. Len(file[in]) /\ pos + 1 \in 1 .. Len(file[in])
  BY DEF TypeOK, TailInv
<1>2. n \in 1 .. Len(log) /\ Len(log) \in Nat /\ Len(log) <= MaxLines
  BY <1>1 DEF FileInv, TypeOK
<1>3. log[n] \in LogLines
  BY <1>2 DEF TypeOK
<1>4. step \in {1, 2} /\ pos' = pos + step
  <2>1. pos' = pos + step OBVIOUS
  <2>2. n \in Nat BY <1>2
  <2> HIDE DEF n
  <2>3. Len(Cells(n, log[n])) \in {1, 2}
    BY <1>3, <2>2, CellsProperties
  <2> QED BY <2>1, <2>3
<1>5. /\ line' = [n |-> n, type |-> IF cell[2] = 1 THEN log[n].type ELSE "half"]
      /\ line'.n = n /\ line'.type \in {"half", log[n].type}
  OBVIOUS
<1> HIDE DEF cell, n, step
<1>6. line' \in ReadLines
  BY <1>2, <1>3, <1>5, LinesAreTyped, BridgeAssumption DEF ReadLines
<1>7. TypeOK' BY <1>1, <1>4, <1>6 DEF TypeOK
<1>8. FileInv' BY DEF FileInv
<1>9. TailInv'
  <2>1. Newest' = Newest /\ Newest <= n /\ Newest <= Len(log)
    BY <1>1 DEF TailInv, Newest, n, cell
  <2>2. ASSUME NEW i \in pos' + 1 .. Len(file[in])
        PROVE  Newest <= file[in][i][1] /\ n <= file[in][i][1]
    <3>1. i \in pos + 1 .. Len(file[in]) BY <1>1, <1>4
    <3> QED BY <1>1, <3>1 DEF TailInv, FileInv, n, cell
  <2> QED BY <1>1, <1>2, <1>5, <2>1, <2>2 DEF TailInv
<1>10. AnswerInv' BY DEF AnswerInv, Newest
<1>11. EventsCoverState' BY DEF EventsCoverState
<1>12. RespondersMatchPhase' BY DEF RespondersMatchPhase
<1> QED BY <1>7, <1>8, <1>9, <1>10, <1>11, <1>12

LEMMA TailAppendPreserves ==
  ASSUME IInv, TailAppend
  PROVE  IInv'
<1> USE DEF IInv, TailAppend, fileVars
<1>1. /\ line.n \in 1 .. Len(log) /\ Len(log) \in Nat /\ Len(log) <= MaxLines
      /\ Newest <= line.n /\ in \in Files
  BY DEF TailInv, TypeOK
<1>2. Append(parsed_events, line.n) \in Seq(1 .. MaxLines)
  BY <1>1, BridgeAssumption DEF TypeOK
<1>3. /\ parsed_events' \in Seq(1 .. MaxLines) /\ Len(parsed_events') <= EventsMax
      /\ Newest' = line.n
  <2>1. LastNumber(Append(parsed_events, line.n)) = line.n
    BY <1>1, LastOfAppended, BridgeAssumption DEF TypeOK
  <2> QED BY <1>2, <2>1, LastOfProperties, BridgeAssumption DEF Newest
<1>4. TypeOK' BY <1>3 DEF TypeOK
<1>5. FileInv' BY DEF FileInv
<1>6. TailInv' BY <1>1, <1>3 DEF TailInv
<1>7. AnswerInv'
  <2>1. ASSUME NEW x \in Nat, x <= Newest PROVE x <= Newest'
    BY <1>1, <1>3, <2>1, BridgeAssumption DEF Newest, LastNumber, TypeOK
  <2>2. state.n \in Nat /\ \A h \in Handlers : snap[h].state.n \in Nat
    BY BridgeAssumption DEF TypeOK, States, Snaps
  <2> QED BY <2>1, <2>2 DEF AnswerInv
<1>8. EventsCoverState' BY DEF EventsCoverState
<1>9. RespondersMatchPhase' BY DEF RespondersMatchPhase
<1> QED BY <1>4, <1>5, <1>6, <1>7, <1>8, <1>9

LEMMA TailApplyPreserves ==
  ASSUME IInv, TailApply
  PROVE  IInv'
<1> USE DEF IInv, TailApply, fileVars
<1>1. /\ line.n \in 1 .. Len(log) /\ Len(log) \in Nat /\ Len(log) <= MaxLines
      /\ log[line.n] \in LogLines /\ line.type \in {"half", log[line.n].type}
      /\ Newest = line.n
  BY DEF TailInv, TypeOK
<1>2. state' \in States /\ state'.n = line.n /\ state'.alive = ShownAlive(state'.phase)
  <2>1. CASE line.type = "sensor"
    <3> DEFINE u == log[line.n].up
               p == PhaseOfUptime(u)
    <3>1. u \in Uptimes /\ p \in DashboardPhases /\ ShownAlive(p) \subseteq Responders
      BY <1>1, <2>1, LinesAreTyped, Tables, BridgeAssumption
    <3>2. state' = [n |-> line.n, up |-> u, phase |-> p, running |-> TRUE, alive |-> ShownAlive(p)]
      BY <2>1 DEF Applied
    <3> HIDE DEF p, u
    <3> QED BY <1>1, <3>1, <3>2, BridgeAssumption DEF States
  <2>2. CASE line.type # "sensor"
    <3>1. state \in States /\ ShownAlive(state.phase) \subseteq Responders
      BY Tables DEF TypeOK, States
    <3>2. state' = [state EXCEPT !.n = line.n, !.alive = ShownAlive(state.phase)]
      BY <2>2 DEF Applied
    <3>3. line.n \in 0 .. MaxLines
      BY <1>1, BridgeAssumption
    <3> HIDE DEF IInv, TailApply
    <3> QED BY <3>1, <3>2, <3>3 DEF States
  <2> QED BY <2>1, <2>2
<1>3. TypeOK' BY <1>2 DEF TypeOK
<1>4. FileInv' BY DEF FileInv
<1>5. TailInv' BY DEF TailInv, Newest
<1>6. AnswerInv' BY <1>1, <1>2 DEF AnswerInv, Newest
<1>7. EventsCoverState' BY DEF EventsCoverState
<1>8. RespondersMatchPhase' BY DEF RespondersMatchPhase
<1> QED BY <1>3, <1>4, <1>5, <1>6, <1>7, <1>8

(* A handler changes its own copy only. *)
LEMMA HandlerPreserves ==
  ASSUME IInv, NEW g \in Handlers, Snapshot(g) \/ AddEvents(g) \/ Send(g)
  PROVE  IInv'
<1> USE DEF IInv, Snapshot, AddEvents, Send, fileVars, tailVars
<1> DEFINE events == LastOf(parsed_events, Recent)
<1>1. /\ events \in Seq(1 .. MaxLines) /\ LastNumber(events) = Newest
  <2>1. parsed_events \in Seq(1 .. MaxLines) /\ Recent \in Nat \ {0}
    BY BridgeAssumption DEF TypeOK
  <2> QED BY <2>1, LastOfProperties DEF Newest
<1> HIDE DEF events
<1>2. \A h \in Handlers : h # g => snap'[h] = snap[h]
  BY DEF TypeOK
<1>3. /\ snap'[g] \in Snaps
      /\ snap'[g].at = "copied" => snap'[g].state = state
      /\ snap'[g].at = "ready" =>
           snap'[g].state.n <= Newest /\ snap'[g].events = events
      /\ snap'[g].state.alive = ShownAlive(snap'[g].state.phase)
  <2>1. CASE Snapshot(g)
    <3>1. snap[g] \in Snaps /\ snap'[g] = [snap[g] EXCEPT !.at = "copied", !.state = state]
      BY <2>1 DEF TypeOK
    <3>2. state \in States /\ state.alive = ShownAlive(state.phase)
      BY DEF TypeOK, AnswerInv
    <3> HIDE DEF IInv, Snapshot, AddEvents, Send
    <3> QED BY <3>1, <3>2 DEF Snaps
  <2>2. CASE AddEvents(g)
    <3>1. snap'[g] = [snap[g] EXCEPT !.at = "ready", !.events = events]
      BY <2>2 DEF TypeOK, events
    <3>2. snap[g] \in Snaps /\ snap[g].at = "copied" /\ snap[g].state.n <= Newest
      BY <2>2 DEF TypeOK, AnswerInv
    <3> QED BY <1>1, <3>1, <3>2 DEF Snaps, RespondersMatchPhase
  <2>3. CASE Send(g)
    <3>1. snap'[g] = NoSnap
      BY <2>3 DEF TypeOK
    <3> QED BY <3>1, InitialTypes DEF NoSnap, InitialState, ShownAlive
  <2> QED BY <2>1, <2>2, <2>3
<1>4. UNCHANGED <<fileVars, tailVars, parsed_events, state>>
  OBVIOUS
<1>5. snap' \in [Handlers -> Snaps]
  BY <1>3 DEF TypeOK
<1>6. TypeOK' BY <1>4, <1>5 DEF TypeOK
<1>7. FileInv' BY <1>4 DEF FileInv
<1>8. TailInv' BY <1>4 DEF TailInv, Newest
<1>9. AnswerInv' BY <1>2, <1>3, <1>4 DEF AnswerInv, Newest
<1>10. EventsCoverState' BY <1>1, <1>2, <1>3 DEF EventsCoverState
<1>11. RespondersMatchPhase' BY <1>2, <1>3 DEF RespondersMatchPhase
<1> QED BY <1>6, <1>7, <1>8, <1>9, <1>10, <1>11

THEOREM Invariance == Spec => []IInv
<1>1. Init => IInv BY IInvInit
<1>2. IInv /\ [Next]_vars => IInv'
  <2> SUFFICES ASSUME IInv, [Next]_vars PROVE IInv'
    OBVIOUS
  <2>1. CASE Next
    BY <2>1, StartPreserves, StopPreserves, WritePreserves, TailOpenPreserves,
       TailReadPreserves, TailAppendPreserves, TailApplyPreserves, HandlerPreserves DEF Next
  <2>2. CASE UNCHANGED vars
    BY <2>2 DEF vars, fileVars, tailVars, IInv, TypeOK, FileInv, TailInv, AnswerInv, Newest,
       EventsCoverState, RespondersMatchPhase
  <2> QED BY <2>1, <2>2
<1> QED BY <1>1, <1>2, PTL DEF Spec

-----------------------------------------------------------------------------
(* The theorems. *)

THEOREM TypeCorrect == Spec => []TypeOK
<1>1. IInv => TypeOK BY DEF IInv
<1> QED BY <1>1, Invariance, PTL

(* The state of an answer is never ahead of its events, although only the state is       *)
(* copied under the lock, for any number of request threads.                             *)
THEOREM AnswersAreCovered == Spec => []EventsCoverState
<1>1. IInv => EventsCoverState BY DEF IInv
<1> QED BY <1>1, Invariance, PTL

(* An answer's responders are those of the answer's phase. *)
THEOREM AnswersAreConsistent == Spec => []RespondersMatchPhase
<1>1. IInv => RespondersMatchPhase BY DEF IInv
<1> QED BY <1>1, Invariance, PTL

-----------------------------------------------------------------------------
(* One run of the monitor: nothing is lost between the file and the state. *)

(* The last cell of its line, among these lines. *)
EndsLine(lines, c) == c[2] = 2 \/ lines[c[1]].type # "sensor"

(* The cell after c. *)
NextCell(lines, c) == IF EndsLine(lines, c) THEN <<c[1] + 1, 1>> ELSE <<c[1], 2>>

(* The number of the last line that tail_log has taken from the file. *)
Taken == IF tailAt \in {"append", "apply"} THEN line.n ELSE state.n

(* Before the first start there is nothing; afterwards the only file in use holds the    *)
(* cells of every line of the log in order.                                              *)
NotStarted == path = NoFile /\ out = NoFile /\ log = <<>> /\ tailAt = "open"
WholeFile ==
  LET cells == file[1]
  IN /\ path \in {1, NoFile} /\ out \in {1, NoFile}
     /\ Len(cells) = 0 => log = <<>>
     /\ Len(cells) # 0 =>
          /\ cells[1] = <<1, 1>>
          /\ EndsLine(log, cells[Len(cells)]) /\ cells[Len(cells)][1] = Len(log)
     /\ \A i \in 1 .. Len(cells) - 1 : cells[i + 1] = NextCell(log, cells[i])

(* The position is at the start of the first line that was not taken. *)
AtLineStart ==
  /\ tailAt = "open"  => pos = 0 /\ Taken = 0
  /\ tailAt # "open" => in = 1
  /\ IF pos < Len(file[1]) THEN file[1][pos + 1] = <<Taken + 1, 1>>
     ELSE pos = Len(file[1]) /\ Taken = Len(log)

OneRunInv ==
  starts <= 1 =>
    /\ starts = 0 => NotStarted
    /\ starts = 1 => WholeFile /\ AtLineStart
    /\ tailAt = "open" => state.n = 0 /\ pos = 0
    /\ tailAt \in {"append", "apply"} => line.n = state.n + 1
    /\ line.type # "half"

LEMMA CellsAre ==
  ASSUME NEW n \in Nat, NEW l \in LogLines
  PROVE  /\ Cells(n, l)[1] = <<n, 1>>
         /\ IF l.type = "sensor" THEN Len(Cells(n, l)) = 2 /\ Cells(n, l)[2] = <<n, 2>>
            ELSE Len(Cells(n, l)) = 1
<1>1. CASE l.type = "sensor"
  BY <1>1 DEF Cells
<1>2. CASE l.type # "sensor"
  BY <1>2 DEF Cells
<1> QED BY <1>1, <1>2

(* Once the monitor has been started there is a first file. *)
LEMMA FirstFile ==
  ASSUME TypeOK, FileInv, starts = 1
  PROVE  /\ 1 \in Files
         /\ file[1] \in Seq((1 .. MaxLines) \X {1, 2}) /\ Len(file[1]) \in Nat
         /\ \A i \in 1 .. Len(file[1]) : file[1][i][1] \in 1 .. Len(log)
         /\ Len(log) \in Nat /\ pos \in Nat
<1>1. 1 \in Files
  BY BridgeAssumption DEF TypeOK, Files
<1> QED BY <1>1 DEF TypeOK, FileInv

LEMMA OneRunInit ==
  ASSUME Init
  PROVE  OneRunInv
  BY DEF Init, OneRunInv, NotStarted, InitialState, NoLine

LEMMA OneRunStart ==
  ASSUME IInv, OneRunInv, Start
  PROVE  OneRunInv'
<1> SUFFICES ASSUME starts' <= 1 PROVE OneRunInv'
  BY DEF OneRunInv
<1> USE DEF Start, tailVars, IInv
<1>1. starts = 0 /\ starts' = 1 /\ 1 \in Files
  BY BridgeAssumption DEF TypeOK, Files
<1>2. NotStarted /\ state.n = 0 /\ pos = 0 /\ line.type # "half"
  BY <1>1 DEF OneRunInv, NotStarted
<1>3. path' = 1 /\ out' = 1 /\ file'[1] = <<>> /\ log' = <<>> /\ tailAt' = "open"
  BY <1>1, <1>2 DEF NotStarted, TypeOK
<1>4. WholeFile' BY <1>3 DEF WholeFile
<1>5. AtLineStart' BY <1>2, <1>3 DEF AtLineStart, Taken
<1> QED BY <1>1, <1>2, <1>3, <1>4, <1>5 DEF OneRunInv

(* What happens to the path, and to the answers, does not touch the file in use. *)
LEMMA OneRunApart ==
  ASSUME IInv, OneRunInv,
         \/ Stop \/ Clean
         \/ \E h \in Handlers : Snapshot(h) \/ AddEvents(h) \/ Send(h)
         \/ UNCHANGED vars
  PROVE  OneRunInv'
<1>1. /\ UNCHANGED <<file, starts, log, tailVars, state>>
      /\ path' \in {path, NoFile} /\ out' \in {out, NoFile}
  BY DEF Stop, Clean, Snapshot, AddEvents, Send, fileVars, vars
<1> SUFFICES ASSUME starts <= 1 PROVE OneRunInv'
  BY <1>1 DEF OneRunInv
<1>2. CASE starts = 0
  BY <1>1, <1>2 DEF OneRunInv, NotStarted, tailVars
<1>3. CASE starts = 1
  <2>1. WholeFile' BY <1>1, <1>3 DEF OneRunInv, WholeFile, EndsLine, NextCell
  <2>2. AtLineStart' BY <1>1, <1>3 DEF OneRunInv, AtLineStart, Taken, tailVars
  <2> QED BY <1>1, <1>3, <2>1, <2>2 DEF OneRunInv, tailVars
<1> QED BY <1>2, <1>3 DEF IInv, TypeOK

(* A new line follows the last one, cell by cell. *)
LEMMA OneRunWrite ==
  ASSUME IInv, OneRunInv, NEW l \in LogLines, Write(l)
  PROVE  OneRunInv'
<1> SUFFICES ASSUME starts <= 1 PROVE OneRunInv'
  BY DEF Write, OneRunInv
<1> DEFINE old == file[1]
           n == Len(log) + 1
           new == Cells(n, l)
<1>1. starts = 1 /\ out = 1 /\ WholeFile /\ AtLineStart
  BY BridgeAssumption DEF Write, OneRunInv, NotStarted, WholeFile, IInv, TypeOK, NoFile
<1>2. /\ 1 \in Files /\ old \in Seq((1 .. MaxLines) \X {1, 2}) /\ Len(old) \in Nat
      /\ \A i \in 1 .. Len(old) : old[i][1] \in 1 .. Len(log)
      /\ Len(log) \in Nat /\ pos \in Nat
  BY <1>1, FirstFile DEF IInv
<1>3. /\ log' = Append(log, l) /\ Len(log') = n /\ log'[n] = l
      /\ \A i \in 1 .. Len(log) : log'[i] = log[i]
      /\ file'[1] = old \o new
      /\ UNCHANGED <<path, out, starts, tailVars, state>>
  BY <1>1, <1>2 DEF Write, IInv, TypeOK
<1>4. /\ new \in Seq({n} \X {1, 2}) /\ Len(new) \in {1, 2} /\ new[1] = <<n, 1>>
      /\ IF l.type = "sensor" THEN Len(new) = 2 /\ new[2] = <<n, 2>> ELSE Len(new) = 1
  <2>1. n \in Nat BY <1>2
  <2> HIDE DEF n
  <2> QED BY <2>1, CellsProperties, CellsAre
<1> HIDE DEF old, new, n
<1> DEFINE cells == old \o new
<1>5. /\ Len(cells) = Len(old) + Len(new)
      /\ \A i \in 1 .. Len(old) : cells[i] = old[i]
      /\ cells[Len(old) + 1] = <<n, 1>>
      /\ l.type = "sensor" => Len(cells) = Len(old) + 2 /\ cells[Len(old) + 2] = <<n, 2>>
      /\ l.type # "sensor" => Len(cells) = Len(old) + 1
  <2>1. /\ Len(cells) = Len(old) + Len(new)
        /\ \A i \in 1 .. Len(old) + Len(new) :
             cells[i] = IF i <= Len(old) THEN old[i] ELSE new[i - Len(old)]
    BY <1>2, <1>4, ConcatProperties
  <2> HIDE DEF cells
  <2>2. \A i \in 1 .. Len(old) : cells[i] = old[i]
    BY <1>2, <1>4, <2>1
  <2>3. ASSUME NEW j \in 1 .. Len(new)
        PROVE  cells[Len(old) + j] = new[j]
    <3>1. /\ Len(old) + j \in 1 .. Len(old) + Len(new)
          /\ ~(Len(old) + j <= Len(old)) /\ Len(old) + j - Len(old) = j
      BY <1>2, <1>4
    <3> QED BY <2>1, <3>1
  <2>4. 1 \in 1 .. Len(new) /\ (l.type = "sensor" => 2 \in 1 .. Len(new))
    BY <1>4
  <2> QED BY <1>4, <2>1, <2>2, <2>3, <2>4
<1>6. file'[1] = cells BY <1>3
<1> HIDE DEF cells
<1>7. \A i \in 1 .. Len(old) :
        /\ NextCell(log', cells[i]) = NextCell(log, old[i])
        /\ EndsLine(log', cells[i]) <=> EndsLine(log, old[i])
  BY <1>2, <1>3, <1>5 DEF NextCell, EndsLine
<1>8. /\ Len(old) = 0 => n = 1
      /\ Len(old) # 0 =>
           old[1] = <<1, 1>> /\ EndsLine(log, old[Len(old)]) /\ old[Len(old)][1] = Len(log)
      /\ \A i \in 1 .. Len(old) - 1 : old[i + 1] = NextCell(log, old[i])
      /\ path \in {1, NoFile} /\ out \in {1, NoFile}
  BY <1>1, <1>2 DEF WholeFile, n, old
<1>9. /\ EndsLine(log', <<n, 1>>) <=> l.type # "sensor"
      /\ EndsLine(log', <<n, 2>>)
  BY <1>3 DEF EndsLine
<1>10. WholeFile'
  <2>1. cells[1] = <<1, 1>>
    <3>1. CASE Len(old) = 0 BY <1>5, <1>8, <3>1
    <3>2. CASE Len(old) # 0 BY <1>2, <1>5, <1>8, <3>2
    <3> QED BY <3>1, <3>2
  <2>2. EndsLine(log', cells[Len(cells)]) /\ cells[Len(cells)][1] = n
    BY <1>2, <1>5, <1>9
  <2>3. ASSUME NEW i \in 1 .. Len(cells) - 1
        PROVE  cells[i + 1] = NextCell(log', cells[i])
    <3>1. CASE i < Len(old)
      <4>1. i \in 1 .. Len(old) - 1 /\ i \in 1 .. Len(old) /\ i + 1 \in 1 .. Len(old)
        BY <1>2, <3>1
      <4> QED BY <1>5, <1>7, <1>8, <4>1
    <3>2. CASE i = Len(old)
      <4>1. i \in 1 .. Len(old) /\ Len(old) # 0
        BY <1>2, <3>2
      <4>2. NextCell(log', cells[i]) = <<Len(log) + 1, 1>>
        BY <1>7, <1>8, <3>2, <4>1 DEF NextCell
      <4> QED BY <1>5, <3>2, <4>2 DEF n
    <3>3. CASE i = Len(old) + 1
      <4>1. l.type = "sensor" BY <1>2, <1>5, <3>3
      <4>2. i + 1 = Len(old) + 2 BY <1>2, <3>3
      <4> QED BY <1>5, <1>9, <3>3, <4>1, <4>2 DEF NextCell
    <3> QED BY <1>2, <1>5, <2>3, <3>1, <3>2, <3>3
  <2> QED BY <1>1, <1>2, <1>3, <1>5, <1>6, <1>8, <2>1, <2>2, <2>3 DEF WholeFile
<1>11. AtLineStart'
  <2>1. Taken' = Taken /\ UNCHANGED <<in, pos, tailAt>>
    BY <1>3 DEF Taken, tailVars
  <2>2. /\ tailAt = "open" => pos = 0 /\ Taken = 0
        /\ tailAt # "open" => in = 1
        /\ IF pos < Len(old) THEN old[pos + 1] = <<Taken + 1, 1>>
           ELSE pos = Len(old) /\ Taken = Len(log)
    BY <1>1 DEF AtLineStart, old
  <2>3. pos < Len(cells) /\ cells[pos + 1] = <<Taken + 1, 1>>
    <3>1. CASE pos < Len(old)
      <4>1. pos + 1 \in 1 .. Len(old) /\ pos < Len(cells)
        BY <1>2, <1>4, <1>5, <3>1
      <4> QED BY <1>5, <2>2, <3>1, <4>1
    <3>2. CASE ~(pos < Len(old))
      <4>1. pos = Len(old) /\ pos < Len(cells) /\ n = Taken + 1
        BY <1>2, <1>4, <1>5, <2>2, <3>2 DEF n
      <4> QED BY <1>5, <4>1
    <3> QED BY <3>1, <3>2
  <2> QED BY <1>6, <2>1, <2>2, <2>3 DEF AtLineStart
<1> QED BY <1>1, <1>3, <1>10, <1>11 DEF OneRunInv, tailVars

LEMMA OneRunOpen ==
  ASSUME IInv, OneRunInv, TailOpen
  PROVE  OneRunInv'
<1> USE DEF TailOpen, fileVars
<1> SUFFICES ASSUME starts <= 1 PROVE OneRunInv'
  BY DEF OneRunInv
<1>1. starts = 1 /\ path = 1 /\ WholeFile /\ AtLineStart
  BY DEF OneRunInv, NotStarted, WholeFile, IInv, TypeOK
<1>2. /\ in' = 1 /\ pos' = 0 /\ tailAt' = "read" /\ Taken' = 0
      /\ state' = state /\ state.n = 0 /\ line' = line /\ line.type # "half"
  BY <1>1 DEF OneRunInv, Taken
<1>3. WholeFile' BY <1>1 DEF WholeFile, EndsLine, NextCell
<1>4. AtLineStart'
  BY <1>1, <1>2, FirstFile DEF AtLineStart, WholeFile, IInv
<1> QED BY <1>1, <1>2, <1>3, <1>4 DEF OneRunInv

(* The reader takes the next line whole and is at the start of the one after. *)
LEMMA OneRunRead ==
  ASSUME IInv, OneRunInv, TailRead
  PROVE  OneRunInv'
<1> USE DEF TailRead, fileVars
<1> SUFFICES ASSUME starts <= 1 PROVE OneRunInv'
  BY DEF OneRunInv
<1> DEFINE cells == file[1]
           n == state.n + 1
<1>1. starts = 1 /\ WholeFile /\ AtLineStart /\ in = 1 /\ Taken = state.n
  BY DEF OneRunInv, NotStarted, AtLineStart, Taken, IInv, TypeOK
<1>2. /\ Len(cells) \in Nat /\ pos \in Nat /\ pos < Len(cells)
      /\ \A i \in 1 .. Len(cells) : cells[i][1] \in 1 .. Len(log)
      /\ state.n \in Nat /\ Len(log) \in Nat
  BY <1>1, FirstFile, BridgeAssumption DEF IInv, TypeOK, States
<1>3. cells[pos + 1] = <<n, 1>> /\ n \in 1 .. Len(log)
  <2>1. cells[pos + 1] = <<n, 1>>
    BY <1>1, <1>2 DEF AtLineStart
  <2>2. pos + 1 \in 1 .. Len(cells)
    BY <1>2
  <2> QED BY <1>2, <2>1, <2>2
<1>4. log[n] \in LogLines
  BY <1>3 DEF IInv, TypeOK
<1>5. /\ line' = [n |-> n, type |-> log[n].type]
      /\ pos' = pos + Len(Cells(n, log[n])) /\ tailAt' = "append"
  BY <1>1, <1>3
<1>6. /\ \A i \in 1 .. Len(cells) - 1 : cells[i + 1] = NextCell(log, cells[i])
      /\ EndsLine(log, cells[Len(cells)]) /\ cells[Len(cells)][1] = Len(log)
  BY <1>1, <1>2 DEF WholeFile
<1>7. /\ line'.n = n /\ line'.type # "half" /\ Taken' = n
      /\ UNCHANGED <<file, log, path, out, starts, in, state>>
  BY <1>4, <1>5, LinesAreTyped DEF Taken
<1> HIDE DEF cells, n, TailRead
<1>8. pos' \in Nat /\ pos' >= 1 /\ pos' <= Len(cells)
      /\ EndsLine(log, cells[pos']) /\ cells[pos'][1] = n
  <2>0. n \in Nat BY <1>3
  <2>1. CASE log[n].type = "sensor"
    <3>1. ~EndsLine(log, <<n, 1>>) /\ NextCell(log, <<n, 1>>) = <<n, 2>>
      BY <2>1 DEF EndsLine, NextCell
    <3>2. pos + 1 # Len(cells)
      BY <1>3, <1>6, <3>1
    <3>3. pos + 1 \in 1 .. Len(cells) - 1
      BY <1>2, <3>2
    <3>4. cells[pos + 2] = <<n, 2>>
      <4>1. cells[(pos + 1) + 1] = <<n, 2>> BY <1>3, <1>6, <3>1, <3>3
      <4>2. (pos + 1) + 1 = pos + 2 BY <1>2
      <4> QED BY <4>1, <4>2
    <3>5. pos' = pos + 2
      BY <1>4, <1>5, <2>0, <2>1, CellsAre
    <3> QED BY <1>2, <3>3, <3>4, <3>5 DEF EndsLine
  <2>2. CASE log[n].type # "sensor"
    <3>1. pos' = pos + 1
      BY <1>4, <1>5, <2>0, <2>2, CellsAre
    <3> QED BY <1>2, <1>3, <2>2, <3>1 DEF EndsLine
  <2> QED BY <2>1, <2>2
<1>9. WholeFile' BY <1>1, <1>7 DEF WholeFile, EndsLine, NextCell
<1>10. AtLineStart'
  <2>1. IF pos' < Len(cells) THEN cells[pos' + 1] = <<n + 1, 1>>
        ELSE pos' = Len(cells) /\ n = Len(log)
    <3>1. CASE pos' < Len(cells)
      <4>1. pos' \in 1 .. Len(cells) - 1
        BY <1>2, <1>8, <3>1
      <4> QED BY <1>6, <1>8, <3>1, <4>1 DEF NextCell
    <3>2. CASE ~(pos' < Len(cells))
      <4>1. pos' = Len(cells) BY <1>2, <1>8, <3>2
      <4> QED BY <1>6, <1>8, <3>2, <4>1
    <3> QED BY <3>1, <3>2
  <2> QED BY <1>1, <1>5, <1>7, <2>1 DEF AtLineStart, cells
<1>11. n = state.n + 1 BY DEF n
<1> QED BY <1>1, <1>5, <1>7, <1>9, <1>10, <1>11 DEF OneRunInv

LEMMA OneRunApply ==
  ASSUME IInv, OneRunInv, TailAppend \/ TailApply
  PROVE  OneRunInv'
<1>1. /\ UNCHANGED <<fileVars, in, pos, line>>
      /\ tailAt' \in {"read", "apply"} /\ tailAt \in {"append", "apply"}
      /\ IF tailAt' = "apply" THEN state' = state ELSE state'.n = line.n
  <2>1. CASE TailAppend
    BY <2>1 DEF TailAppend
  <2>2. CASE TailApply
    <3>1. state' = Applied(state, line) /\ state \in States
      BY <2>2 DEF TailApply, IInv, TypeOK
    <3>2. state'.n = line.n
      BY <3>1 DEF Applied, States
    <3> QED BY <2>2, <3>2 DEF TailApply
  <2> QED BY <2>1, <2>2
<1> SUFFICES ASSUME starts <= 1 PROVE OneRunInv'
  BY <1>1 DEF OneRunInv, fileVars
<1>2. starts = 1 /\ WholeFile /\ AtLineStart
  BY <1>1 DEF OneRunInv, NotStarted, IInv, TypeOK
<1>3. Taken' = Taken
  BY <1>1 DEF Taken
<1>4. WholeFile' BY <1>1, <1>2 DEF WholeFile, EndsLine, NextCell, fileVars
<1>5. AtLineStart' BY <1>1, <1>2, <1>3 DEF AtLineStart, fileVars
<1> QED BY <1>1, <1>2, <1>4, <1>5 DEF OneRunInv, fileVars

LEMMA OneRunHolds == Spec => []OneRunInv
<1>1. Init => OneRunInv BY OneRunInit
<1>2. IInv /\ OneRunInv /\ [Next]_vars => OneRunInv'
  BY OneRunStart, OneRunApart, OneRunWrite, OneRunOpen, OneRunRead, OneRunApply DEF Next
<1> QED BY <1>1, <1>2, Invariance, PTL DEF Spec

(* While the monitor runs for the first time, also when its log is removed under it, the  *)
(* bridge applies every line once, whole and in the order in which it was written.        *)
THEOREM LinesAreAppliedInOrder == Spec => NoLineSkipped
<1>1. ASSUME IInv, OneRunInv, OneRunInv', [Next]_vars, starts <= 1
      PROVE  state.n' \in {state.n, state.n + 1} /\ line'.type # "half"
  <2>1. CASE Start
    BY <1>1, <2>1 DEF Start, OneRunInv, tailVars
  <2>2. CASE TailApply
    BY <1>1, <2>2 DEF TailApply, Applied, OneRunInv
  <2>3. CASE ~Start /\ ~TailApply
    <3>1. starts' = starts /\ state' = state
      BY <1>1, <2>3 DEF Next, vars, fileVars, tailVars, Stop, Clean, Write, TailOpen, TailRead,
         TailAppend, Snapshot, AddEvents, Send
    <3> QED BY <1>1, <3>1 DEF OneRunInv
  <2> QED BY <2>1, <2>2, <2>3
<1>2. IInv /\ OneRunInv /\ OneRunInv' /\ [Next]_vars =>
        [starts <= 1 => state.n' \in {state.n, state.n + 1} /\ line'.type # "half"]_vars
  BY <1>1
<1> QED BY <1>2, Invariance, OneRunHolds, PTL DEF Spec, NoLineSkipped
=====================================================================================
