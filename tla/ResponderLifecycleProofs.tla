----------------------- MODULE ResponderLifecycleProofs -----------------------
(* Theorems about ResponderLifecycle, for every set of monitors, signals, heap blocks *)
(* and every order of checks and of the watchdog's scan that ConstantAssumption       *)
(* admits.                                                                            *)
EXTENDS ResponderLifecycle, TLAPS

-----------------------------------------------------------------------------
(* Types. *)

(* The signal a monitor is checking is a signal. *)
LEMMA KindType ==
  ASSUME NEW a \in Addr, role[a] \in Monitors, chk[a] \in DOMAIN Checks[role[a]]
  PROVE  Kind(a) \in Kinds
BY ConstantAssumption DEF ConstantAssumption, Kind

(* Allocation makes no other signal critical. *)
LEMMA HeapShrinksType ==
  ASSUME TypeOK, HeapShrinks
  PROVE  crit' \subseteq Kinds
BY ConstantAssumption DEF ConstantAssumption, TypeOK, HeapShrinks

(* The next check of a loop is a check of that loop. *)
LEMMA NextCheckType ==
  ASSUME TypeOK, NEW a \in Addr, role[a] \in Monitors,
         chk[a] \in DOMAIN Checks[role[a]], NextCheck(a)
  PROVE  /\ pc' \in [Addr -> MonitorPc \cup ResponderPc \cup {"free", "zombie"}]
         /\ chk' \in [Addr -> Nat]
         /\ seen' \in [Addr -> SUBSET Kinds]
         /\ pc'[a] \in {"sleep", "check"}
         /\ pc'[a] = "check" => chk'[a] \in DOMAIN Checks[role[a]]
         /\ \A b \in Addr \ {a} : pc'[b] = pc[b] /\ chk'[b] = chk[b]
         /\ role' = role
<1>1. Checks[role[a]] \in Seq(Kinds) /\ Len(Checks[role[a]]) \in Nat
  BY ConstantAssumption DEF ConstantAssumption
<1> QED BY <1>1 DEF NextCheck, LastOne, TypeOK, MonitorPc

(* Initially every variable has its type. *)
LEMMA InitType == Init => TypeOK
<1> SUFFICES ASSUME Init PROVE TypeOK
  OBVIOUS
<1>1. Len(WdScan) \in Nat
  BY ConstantAssumption DEF ConstantAssumption
<1>2. NULL \notin Addr \cup Monitors \cup Kinds /\ Monitors \cap Kinds = {}
  BY ConstantAssumption DEF ConstantAssumption
<1>3. \A a \in Addr : role[a] \in Monitors \cup {NULL} /\ (role[a] = NULL <=> pc[a] = "free")
                      /\ pc[a] \in {"read", "free"}
  BY <1>2 DEF Init
<1>4. wd \in 0 .. WdSpin
  BY <1>1 DEF Init, WdSpin
<1>5. dataQueue \in [Monitors -> 0 .. QueueLength]
  BY ConstantAssumption DEF Init, ConstantAssumption
<1>6. role \in [Addr -> Monitors \cup Kinds \cup {NULL}]
  BY <1>3 DEF Init
<1>7. pc \in [Addr -> MonitorPc \cup ResponderPc \cup {"free", "zombie"}]
  BY DEF Init, MonitorPc
<1> QED BY <1>2, <1>3, <1>4, <1>5, <1>6, <1>7 DEF Init, TypeOK, MonitorPc, ResponderPc

(* Every step of a monitor preserves the types. *)
LEMMA MonitorStepType ==
  ASSUME TypeOK, NEW a \in Addr, MonWake(a) \/ MonStep(a)
  PROVE  TypeOK'
<1> USE DEF taskVars, handleVars
<1>0. \A m \in Monitors : 1 \in DOMAIN Checks[m]
  <2> TAKE m \in Monitors
  <2>1. Checks[m] \in Seq(Kinds) /\ Len(Checks[m]) \in Nat
    BY ConstantAssumption DEF ConstantAssumption
  <2>2. Len(Checks[m]) > 0
    BY ConstantAssumption DEF ConstantAssumption
  <2> QED BY <2>1, <2>2
<1>1. CASE MonWake(a)
  BY <1>1 DEF TypeOK, MonWake, Goto, MonitorPc, ResponderPc
<1>2. CASE MonRead(a)
  BY <1>0, <1>2, ConstantAssumption DEF ConstantAssumption, TypeOK, MonRead, MonitorAt, MonitorPc, ResponderPc
<1>3. CASE MonCheckCritical(a)
  BY <1>3, KindType DEF TypeOK, MonCheckCritical, MonitorAt, SetBits, Goto, MonitorPc, ResponderPc
<1>4. CASE MonCheckNormal(a)
  BY <1>4, KindType DEF TypeOK, MonCheckNormal, MonitorAt, Goto, MonitorPc, ResponderPc
<1>5. CASE MonSpawn(a)
  BY <1>5, NextCheckType DEF TypeOK, MonSpawn, MonitorAt, Goto, MonitorPc, ResponderPc
<1>6. CASE MonCreate(a)
  <2>1. Kind(a) \in Kinds
    BY <1>6, KindType DEF TypeOK, MonCreate, MonitorAt, MonitorPc
  <2>2. PICK b \in Free : /\ role' = [role EXCEPT ![b] = Kind(a)]
                          /\ pc' = [pc EXCEPT ![b] = "poll",
                                              ![a] = IF LastOne(a) THEN "sleep" ELSE "check"]
                          /\ respHandle' = [respHandle EXCEPT ![Kind(a)] = b]
    BY <1>6 DEF MonCreate
  <2>3. b \in Addr /\ b # a /\ role[b] = NULL /\ Kind(a) # NULL /\ Kind(a) \notin Monitors
    BY <1>6, <2>1, ConstantAssumption
    DEF ConstantAssumption, Free, MonCreate, MonitorAt, TypeOK
  <2>4. /\ role' \in [Addr -> Monitors \cup Kinds \cup {NULL}]
        /\ pc' \in [Addr -> MonitorPc \cup ResponderPc \cup {"free", "zombie"}]
        /\ respHandle' \in [Kinds -> Addr \cup {NULL}]
        /\ chk' \in [Addr -> Nat]
        /\ seen' \in [Addr -> SUBSET Kinds]
    BY <1>6, <2>1, <2>2, <2>3 DEF TypeOK, MonCreate, MonitorPc, ResponderPc
  <2>5. pc'[a] = "check" => chk'[a] \in DOMAIN Checks[role[a]]
    <3>1. Checks[role[a]] \in Seq(Kinds) /\ Len(Checks[role[a]]) \in Nat
      BY <1>6, ConstantAssumption DEF ConstantAssumption, MonCreate, MonitorAt
    <3>2. chk[a] \in DOMAIN Checks[role[a]]
      BY <1>6 DEF TypeOK, MonCreate, MonitorAt, MonitorPc
    <3>3. chk'[a] = IF LastOne(a) THEN 0 ELSE chk[a] + 1
      BY <1>6 DEF TypeOK, MonCreate
    <3>4. pc'[a] = "check" => ~LastOne(a)
      BY <2>2, <2>3 DEF TypeOK
    <3> QED BY <3>1, <3>2, <3>3, <3>4 DEF LastOne
  <2>6. \A c \in Addr \ {a} : chk'[c] = chk[c]
    BY <1>6 DEF TypeOK, MonCreate
  <2>7. role'[b] = Kind(a) /\ pc'[b] = "poll" /\ role'[a] = role[a] /\ pc'[a] \in {"sleep", "check"}
    BY <2>2, <2>3 DEF TypeOK
  <2>8. \A c \in Addr \ {a, b} : role'[c] = role[c] /\ pc'[c] = pc[c]
    BY <2>2 DEF TypeOK
  <2>9. role[a] \in Monitors
    BY <1>6 DEF MonCreate, MonitorAt
  <2>10. \A c \in Addr :
       /\ role'[c] = NULL <=> pc'[c] \in {"free", "zombie"}
       /\ role'[c] \in Monitors => pc'[c] \in MonitorPc
       /\ role'[c] \in Kinds => pc'[c] \in ResponderPc
       /\ pc'[c] \in MonitorPc \ {"sleep", "read"} => chk'[c] \in DOMAIN Checks[role'[c]]
    <3> TAKE c \in Addr
    <3>1. CASE c = a
      BY <3>1, <2>5, <2>7, <2>9, ConstantAssumption DEF ConstantAssumption, MonitorPc
    <3>2. CASE c = b
      BY <3>2, <2>1, <2>3, <2>7 DEF MonitorPc, ResponderPc
    <3>3. CASE c \notin {a, b}
      BY <3>3, <2>6, <2>8 DEF TypeOK
    <3> QED BY <3>1, <3>2, <3>3
  <2> QED BY <1>6, <2>4, <2>10, HeapShrinksType DEF TypeOK, MonCreate
<1>7. CASE MonAllocFails(a)
  BY <1>7 DEF TypeOK, MonAllocFails, MonitorAt, Goto, MonitorPc, ResponderPc
<1>8. CASE MonKill(a)
  BY <1>8, NextCheckType DEF TypeOK, MonKill, MonitorAt, Goto, MonitorPc, ResponderPc
<1>9. CASE MonDelete(a)
  <2> DEFINE h == IF respHandle[Kind(a)] = NULL THEN a ELSE respHandle[Kind(a)]
  <2>1. h \in Addr
    BY <1>9, KindType DEF TypeOK, MonDelete, MonitorAt, MonitorPc
  <2>2. /\ role' = [role EXCEPT ![h] = NULL]
        /\ pc' = IF h = a THEN [pc EXCEPT ![a] = "zombie"]
                          ELSE [pc EXCEPT ![a] = "clear", ![h] = "free"]
        /\ chk' = [chk EXCEPT ![h] = 0]
        /\ seen' = [seen EXCEPT ![h] = {}]
    BY <1>9 DEF MonDelete
  <2>3. role[a] \in Monitors /\ pc[a] = "delete"
    BY <1>9 DEF MonDelete, MonitorAt
  <2> HIDE DEF h
  <2>4. /\ role' \in [Addr -> Monitors \cup Kinds \cup {NULL}]
        /\ pc' \in [Addr -> MonitorPc \cup ResponderPc \cup {"free", "zombie"}]
        /\ chk' \in [Addr -> Nat]
        /\ seen' \in [Addr -> SUBSET Kinds]
    BY <2>1, <2>2 DEF TypeOK, MonitorPc, ResponderPc
  <2>5. \A c \in Addr :
       /\ role'[c] = NULL <=> pc'[c] \in {"free", "zombie"}
       /\ role'[c] \in Monitors => pc'[c] \in MonitorPc
       /\ role'[c] \in Kinds => pc'[c] \in ResponderPc
       /\ pc'[c] \in MonitorPc \ {"sleep", "read"} => chk'[c] \in DOMAIN Checks[role'[c]]
    <3> TAKE c \in Addr
    <3>1. CASE c = h
      BY <3>1, <2>1, <2>2, ConstantAssumption DEF ConstantAssumption, TypeOK, MonitorPc
    <3>2. CASE c = a /\ c # h
      <4>1. role'[c] = role[a] /\ pc'[c] = "clear" /\ chk'[c] = chk[a]
        BY <3>2, <2>1, <2>2 DEF TypeOK
      <4>2. chk[a] \in DOMAIN Checks[role[a]]
        BY <2>3 DEF TypeOK, MonitorPc
      <4> QED BY <4>1, <4>2, <2>3, ConstantAssumption DEF ConstantAssumption, MonitorPc
    <3>3. CASE c \notin {a, h}
      BY <3>3, <2>1, <2>2 DEF TypeOK
    <3> QED BY <3>1, <3>2, <3>3
  <2> QED BY <1>9, <2>4, <2>5 DEF TypeOK, MonDelete, HeapGrows
<1>10. CASE MonDeleteCrashes(a)
  BY <1>10 DEF TypeOK, MonDeleteCrashes
<1>11. CASE MonClear(a)
  BY <1>11, NextCheckType, KindType DEF TypeOK, MonClear, MonitorAt, MonitorPc, ResponderPc
<1> QED BY <1>1, <1>2, <1>3, <1>4, <1>5, <1>6, <1>7, <1>8, <1>9, <1>10, <1>11 DEF MonStep

(* Every step of a responder preserves the types. *)
LEMMA ResponderStepType ==
  ASSUME TypeOK, NEW a \in Addr, RespWake(a) \/ RespStep(a)
  PROVE  TypeOK'
<1> USE DEF taskVars, handleVars
<1>0. NULL \notin Kinds /\ Monitors \cap Kinds = {}
  BY ConstantAssumption DEF ConstantAssumption
<1>1. CASE RespWake(a)
  BY <1>0, <1>1 DEF TypeOK, RespWake, Goto, MonitorPc, ResponderPc
<1>2. CASE RespPoll(a)
  BY <1>0, <1>2 DEF TypeOK, RespPoll, ResponderAt, Goto, MonitorPc, ResponderPc
<1>3. CASE RespUnhandle(a)
  BY <1>0, <1>3 DEF TypeOK, RespUnhandle, ResponderAt, Goto, MonitorPc, ResponderPc
<1>4. CASE RespExit(a)
  BY <1>0, <1>4, ConstantAssumption DEF ConstantAssumption, TypeOK, RespExit, ResponderAt, MonitorPc, ResponderPc
<1> QED BY <1>1, <1>2, <1>3, <1>4 DEF RespStep

(* Every step of the watchdog preserves the types. *)
LEMMA WatchdogStepType ==
  ASSUME TypeOK, WdWake \/ WdStep
  PROVE  TypeOK'
<1> USE DEF taskVars, handleVars
<1>0. /\ NULL \notin Kinds \cup Monitors /\ Monitors \cap Kinds = {}
      /\ WdScan \in Seq(Monitors \cup Kinds) /\ Len(WdScan) \in Nat
  BY ConstantAssumption DEF ConstantAssumption
<1>1. \A S : WdAt(S) => wd' \in 0 .. WdSpin \/ ~WdAdvance
  BY <1>0 DEF WdAt, WdAdvance, WdSpin
<1>2. CASE WdWake
  BY <1>0, <1>2 DEF TypeOK, WdWake, WdSpin
<1>3. CASE WdMonitorAlive
  BY <1>1, <1>3 DEF TypeOK, WdMonitorAlive
<1>4. CASE WdRecreate
  <2> DEFINE m == WdScan[wd]
  <2>1. m \in Monitors
    BY <1>4 DEF WdRecreate, WdAt
  <2>2. PICK b \in Free : /\ role' = [role EXCEPT ![b] = m]
                          /\ pc'   = [pc EXCEPT ![b] = "read"]
                          /\ monHandle' = [monHandle EXCEPT ![m] = b]
    BY <1>4 DEF WdRecreate
  <2>3. b \in Addr
    BY DEF Free
  <2>4. chk' = chk /\ seen' = seen
    BY <1>4 DEF WdRecreate
  <2> HIDE DEF m
  <2>5. /\ role' \in [Addr -> Monitors \cup Kinds \cup {NULL}]
        /\ pc' \in [Addr -> MonitorPc \cup ResponderPc \cup {"free", "zombie"}]
        /\ monHandle' \in [Monitors -> Addr]
    BY <2>1, <2>2, <2>3 DEF TypeOK, MonitorPc
  <2>6. \A c \in Addr :
       /\ role'[c] = NULL <=> pc'[c] \in {"free", "zombie"}
       /\ role'[c] \in Monitors => pc'[c] \in MonitorPc
       /\ role'[c] \in Kinds => pc'[c] \in ResponderPc
       /\ pc'[c] \in MonitorPc \ {"sleep", "read"} => chk'[c] \in DOMAIN Checks[role'[c]]
    BY <1>0, <2>1, <2>2, <2>3, <2>4 DEF TypeOK, MonitorPc
  <2>7. bits' \subseteq Kinds \cup {FROZEN} /\ rec' \subseteq Kinds \cup {FROZEN}
    BY <1>4 DEF TypeOK, WdRecreate, SetBits
  <2>8. wd' \in 0 .. WdSpin
    BY <1>1, <1>4 DEF WdRecreate
  <2> QED BY <1>4, <2>4, <2>5, <2>6, <2>7, <2>8, HeapShrinksType DEF TypeOK, WdRecreate
<1>5. CASE WdAllocFails
  BY <1>0, <1>5 DEF TypeOK, WdAllocFails, WdSpin, SetBits
<1>6. CASE WdResponderPasses
  BY <1>1, <1>6 DEF TypeOK, WdResponderPasses
<1>7. CASE WdKill
  <2> DEFINE k == WdScan[wd]
             h == respHandle[k]
  <2>1. k \in Kinds /\ h \in Addr
    BY <1>7 DEF WdKill, WdAt, TypeOK
  <2>2. /\ role' = [role EXCEPT ![h] = NULL]
        /\ pc'   = [pc   EXCEPT ![h] = "free"]
        /\ chk'  = [chk  EXCEPT ![h] = 0]
        /\ seen' = [seen EXCEPT ![h] = {}]
        /\ respHandle' = [respHandle EXCEPT ![k] = NULL]
    BY <1>7 DEF WdKill
  <2> HIDE DEF k, h
  <2>3. /\ role' \in [Addr -> Monitors \cup Kinds \cup {NULL}]
        /\ pc' \in [Addr -> MonitorPc \cup ResponderPc \cup {"free", "zombie"}]
        /\ chk' \in [Addr -> Nat]
        /\ seen' \in [Addr -> SUBSET Kinds]
        /\ respHandle' \in [Kinds -> Addr \cup {NULL}]
    BY <2>1, <2>2 DEF TypeOK
  <2>4. \A c \in Addr :
       /\ role'[c] = NULL <=> pc'[c] \in {"free", "zombie"}
       /\ role'[c] \in Monitors => pc'[c] \in MonitorPc
       /\ role'[c] \in Kinds => pc'[c] \in ResponderPc
       /\ pc'[c] \in MonitorPc \ {"sleep", "read"} => chk'[c] \in DOMAIN Checks[role'[c]]
    BY <1>0, <2>1, <2>2 DEF TypeOK, MonitorPc
  <2>5. bits' \subseteq Kinds \cup {FROZEN} /\ rec' \subseteq Kinds \cup {FROZEN}
    BY <1>7 DEF TypeOK, WdKill, SetBits
  <2>6. wd' \in 0 .. WdSpin
    BY <1>1, <1>7 DEF WdKill
  <2> QED BY <1>7, <2>3, <2>4, <2>5, <2>6 DEF TypeOK, WdKill, HeapGrows
<1>8. CASE WdKillCrashes
  BY <1>8 DEF TypeOK, WdKillCrashes
<1> QED BY <1>2, <1>3, <1>4, <1>5, <1>6, <1>7, <1>8 DEF WdStep

(* Type correctness is inductive on its own. *)
LEMMA StepType == TypeOK /\ [Next]_vars => TypeOK'
<1> SUFFICES ASSUME TypeOK, [Next]_vars PROVE TypeOK'
  OBVIOUS
<1>1. ASSUME NEW a \in Addr, MonWake(a) \/ MonStep(a) PROVE TypeOK'
  BY <1>1, MonitorStepType
<1>2. ASSUME NEW a \in Addr, RespWake(a) \/ RespStep(a) PROVE TypeOK'
  BY <1>2, ResponderStepType
<1>3. CASE WdWake \/ WdStep
  BY <1>3, WatchdogStepType
<1>4. CASE RecStep
  BY <1>4 DEF TypeOK, RecStep, taskVars, handleVars
<1>5. CASE SimStep
  BY <1>5 DEF TypeOK, SimStep, taskVars, handleVars
<1>6. CASE IdleStep
  BY <1>6 DEF TypeOK, IdleStep, HeapGrows, handleVars, MonitorPc, ResponderPc
<1>7. CASE UNCHANGED vars
  BY <1>7 DEF TypeOK, vars
<1> QED BY <1>1, <1>2, <1>3, <1>4, <1>5, <1>6, <1>7 DEF Next

(* Every state of every behaviour is well typed. *)
THEOREM TypeCorrect == Spec => []TypeOK
BY InitType, StepType, PTL DEF Spec

-----------------------------------------------------------------------------
(* The safety invariant. *)

(* While a monitor can run every responder sleeps: it has the lower priority. *)
LEMMA RespondersSleep ==
  ASSUME TypeOK, CanRun(PRIORITY_CORE_MONITOR), NEW b \in Addr, role[b] \in Kinds
  PROVE  pc[b] = "delay"
<1>1. role[b] # NULL
  BY ConstantAssumption DEF ConstantAssumption
<1>2. Ready(b) => PRIORITY_CORE_MONITOR >= PRIORITY_RESPONDER
  BY DEF CanRun, TaskPriority
<1>3. ~Ready(b)
  BY <1>2 DEF PRIORITY_CORE_MONITOR, PRIORITY_RESPONDER
<1> QED BY <1>1, <1>3 DEF TypeOK, Ready, Live, ResponderPc

(* While the simulator or the idle task can run no monitor is inside its loop. *)
LEMMA MonitorsSleep ==
  ASSUME TypeOK, NEW p \in {PRIORITY_SIMULATOR, PRIORITY_IDLE}, CanRun(p),
         NEW b \in Addr, role[b] \in Monitors
  PROVE  pc[b] = "sleep"
<1>1. role[b] # NULL /\ role[b] \notin Kinds
  BY ConstantAssumption DEF ConstantAssumption
<1>2. Ready(b) => p >= PRIORITY_CORE_MONITOR
  BY <1>1 DEF CanRun, TaskPriority
<1>3. ~Ready(b)
  BY <1>2 DEF PRIORITY_CORE_MONITOR, PRIORITY_SIMULATOR, PRIORITY_IDLE
<1> QED BY <1>1, <1>3 DEF TypeOK, Ready, Live, MonitorPc

(* No two monitors check the same signal. *)
LEMMA ChecksAreDisjoint ==
  ASSUME NEW a \in Addr, NEW b \in Addr, role[a] \in Monitors, role[b] \in Monitors,
         chk[a] \in DOMAIN Checks[role[a]], chk[b] \in DOMAIN Checks[role[b]],
         Kind(a) = Kind(b)
  PROVE  role[a] = role[b]
BY ConstantAssumption DEF ConstantAssumption, Kind

(* The initial states satisfy the invariant: only monitors exist, none is in its loop. *)
LEMMA InitInv == Init => IInv
<1> SUFFICES ASSUME Init PROVE IInv
  OBVIOUS
<1>1. TypeOK
  BY InitType
<1>2. \A a \in Addr : role[a] \notin Kinds /\ pc[a] \in {"read", "free"}
  BY ConstantAssumption DEF ConstantAssumption, Init
<1>3. \A a \in Addr : role[a] \in Monitors => monHandle[role[a]] = a
  BY ConstantAssumption DEF ConstantAssumption, Init
<1> QED BY <1>1, <1>2, <1>3 DEF IInv, AtMostOneResponder, NoOrphanResponder,
          NoOrphanMonitor, SnapshotFresh, MonitorPhase, InLoop

(* A step that ends with NextCheck, and changes neither handle but its own signal's,     *)
(* leaves a monitor outside the phases that MonitorPhase constrains.                     *)
LEMMA NextCheckInv ==
  ASSUME IInv, TypeOK', NEW a \in Addr, role[a] \in Monitors, InLoop(a),
         NextCheck(a), UNCHANGED <<crit, monHandle>>,
         \/ UNCHANGED respHandle
         \/ /\ respHandle' = [respHandle EXCEPT ![Kind(a)] = NULL]
            /\ Responders(Kind(a)) = {}
  PROVE  IInv'
<1>1. chk[a] \in DOMAIN Checks[role[a]] /\ TypeOK
  BY DEF IInv, TypeOK, InLoop, MonitorPc
<1>2. /\ role' = role
      /\ pc'[a] \in {"sleep", "check"}
      /\ \A b \in Addr \ {a} : pc'[b] = pc[b] /\ chk'[b] = chk[b]
  BY <1>1, NextCheckType
<1>3. /\ \A b \in Addr \ {a} : seen'[b] = seen[b]
      /\ pc'[a] = "check" => seen'[a] = seen[a]
  BY <1>1 DEF NextCheck, TypeOK
<1>4. role[a] \notin Kinds /\ Kind(a) \in Kinds
  BY <1>1, KindType, ConstantAssumption DEF ConstantAssumption
<1>5. AtMostOneResponder' /\ NoOrphanMonitor'
  BY <1>2 DEF IInv, AtMostOneResponder, NoOrphanMonitor
<1>6. NoOrphanResponder'
  BY <1>1, <1>2, <1>4 DEF IInv, TypeOK, NoOrphanResponder, Responders
<1>7. SnapshotFresh'
  BY <1>2, <1>3 DEF IInv, SnapshotFresh, InLoop
<1>8. MonitorPhase'
  <2> SUFFICES ASSUME NEW b \in Addr, role[b] \in Monitors
               PROVE  /\ pc'[b] \in {"spawn", "create"} => Kind(b)' \in seen'[b]
                      /\ pc'[b] = "create" => respHandle[Kind(b)]' = NULL
                      /\ pc'[b] \in {"create", "clear"} => Responders(Kind(b))' = {}
    BY <1>2 DEF MonitorPhase
  <2>1. CASE b = a
    BY <2>1, <1>2
  <2>2. CASE b # a
    <3>1. Kind(b)' = Kind(b) /\ pc'[b] = pc[b] /\ seen'[b] = seen[b]
      BY <2>2, <1>2, <1>3 DEF Kind
    <3>2. respHandle[Kind(b)] = NULL /\ Kind(b) \in Kinds => respHandle'[Kind(b)] = NULL
      BY <1>1 DEF TypeOK
    <3>3. pc[b] = "create" => Kind(b) \in Kinds
      BY <1>1, KindType DEF TypeOK, MonitorPc
    <3> QED BY <3>1, <3>2, <3>3, <1>2 DEF IInv, MonitorPhase, Responders
  <2> QED BY <2>1, <2>2
<1> QED BY <1>5, <1>6, <1>7, <1>8 DEF IInv

(* A step that only moves a monitor to another point of its loop, or out of it, keeps    *)
(* the invariant when the monitor may rely there on what MonitorPhase says.              *)
LEMMA GotoInv ==
  ASSUME IInv, TypeOK', NEW a \in Addr, role[a] \in Monitors, NEW l \in MonitorPc,
         Goto(a, l), UNCHANGED <<crit, handleVars>>,
         l \in {"read", "spin"} \/ InLoop(a),
         l \in {"spawn", "create"} => Kind(a) \in seen[a],
         l = "create" => respHandle[Kind(a)] = NULL,
         l \in {"create", "clear"} => Responders(Kind(a)) = {}
  PROVE  IInv'
<1> USE DEF handleVars
<1>1. TypeOK /\ role' = role /\ seen' = seen /\ chk' = chk /\ role[a] \notin Kinds
      /\ pc'[a] = l /\ \A b \in Addr \ {a} : pc'[b] = pc[b]
  BY ConstantAssumption DEF ConstantAssumption, IInv, TypeOK, Goto
<1>2. AtMostOneResponder' /\ NoOrphanMonitor'
  BY <1>1 DEF IInv, AtMostOneResponder, NoOrphanMonitor
<1>3. NoOrphanResponder'
  BY <1>1 DEF IInv, NoOrphanResponder
<1>4. SnapshotFresh'
  BY <1>1 DEF IInv, SnapshotFresh, InLoop
<1>5. MonitorPhase'
  BY <1>1 DEF IInv, MonitorPhase, Kind, Responders
<1> QED BY <1>2, <1>3, <1>4, <1>5 DEF IInv

(* A monitor creates a responder only when none exists, and on a fresh reading. *)
LEMMA MonCreateInv ==
  ASSUME IInv, TypeOK', NEW a \in Addr, MonCreate(a)
  PROVE  IInv'
<1>1. TypeOK /\ role[a] \in Monitors /\ pc[a] = "create" /\ chk[a] \in DOMAIN Checks[role[a]]
  BY DEF IInv, TypeOK, MonCreate, MonitorAt, MonitorPc
<1>2. Kind(a) \in Kinds /\ Kind(a) \notin Monitors /\ Kind(a) # NULL /\ Monitors \cap Kinds = {}
  BY <1>1, KindType, ConstantAssumption DEF ConstantAssumption
<1>3. PICK n \in Free : /\ role' = [role EXCEPT ![n] = Kind(a)]
                        /\ pc' = [pc EXCEPT ![n] = "poll",
                                            ![a] = IF LastOne(a) THEN "sleep" ELSE "check"]
                        /\ respHandle' = [respHandle EXCEPT ![Kind(a)] = n]
  BY DEF MonCreate
<1>4. n \in Addr /\ n # a /\ role[n] = NULL
  BY <1>1 DEF Free, TypeOK
<1>5. /\ role'[n] = Kind(a) /\ pc'[n] = "poll" /\ respHandle'[Kind(a)] = n
      /\ \A b \in Addr \ {n} : role'[b] = role[b]
      /\ \A b \in Addr \ {n, a} : pc'[b] = pc[b]
      /\ pc'[a] \in {"sleep", "check"}
      /\ \A k \in Kinds \ {Kind(a)} : respHandle'[k] = respHandle[k]
  BY <1>1, <1>2, <1>3, <1>4 DEF TypeOK
<1>6. /\ \A b \in Addr \ {a} : chk'[b] = chk[b] /\ seen'[b] = seen[b]
      /\ pc'[a] = "check" => seen'[a] = seen[a]
  BY <1>1, <1>3, <1>4 DEF TypeOK, MonCreate
<1>7. \A b \in Addr : role[b] # Kind(a)
  BY <1>1 DEF IInv, MonitorPhase, Responders
<1>8. AtMostOneResponder'
  BY <1>5, <1>7 DEF IInv, AtMostOneResponder
<1>9. NoOrphanResponder'
  BY <1>1, <1>2, <1>5, <1>7 DEF IInv, NoOrphanResponder
<1>10. NoOrphanMonitor'
  BY <1>2, <1>5 DEF IInv, NoOrphanMonitor, MonCreate
<1>11. SnapshotFresh'
  <2>1. \A k \in Kinds \ HeapKinds : k \in crit' <=> k \in crit
    BY DEF MonCreate, HeapShrinks
  <2>2. \A m \in Monitors : \A i \in DOMAIN Checks[m] : Checks[m][i] \in Kinds
    BY ConstantAssumption DEF ConstantAssumption
  <2>3. \A b \in Addr : role'[b] \in Monitors =>
           b # n /\ (InLoop(b)' => InLoop(b) /\ seen'[b] = seen[b])
    BY <1>1, <1>2, <1>5, <1>6 DEF InLoop
  <2> QED BY <2>1, <2>2, <2>3, <1>5 DEF IInv, SnapshotFresh
<1>12. MonitorPhase'
  <2> SUFFICES ASSUME NEW b \in Addr, role'[b] \in Monitors
               PROVE  /\ pc'[b] \in {"spawn", "create"} => Kind(b)' \in seen'[b]
                      /\ pc'[b] = "create" => respHandle[Kind(b)]' = NULL
                      /\ pc'[b] \in {"create", "clear"} => Responders(Kind(b))' = {}
    BY DEF MonitorPhase
  <2>1. CASE b = a
    BY <2>1, <1>5
  <2>2. CASE b # a
    <3>1. b # n /\ role'[b] = role[b] /\ pc'[b] = pc[b] /\ seen'[b] = seen[b]
          /\ Kind(b)' = Kind(b)
      BY <2>2, <1>2, <1>5, <1>6 DEF Kind
    <3>2. pc[b] \in {"create", "clear"} => chk[b] \in DOMAIN Checks[role[b]] /\ Kind(b) \in Kinds
      BY <3>1, <1>1, KindType DEF TypeOK, MonitorPc
    <3>3. pc[b] \in {"create", "clear"} => Kind(b) # Kind(a)
      <4>1. role[b] # role[a]
        BY <2>2, <3>1, <1>1 DEF IInv, NoOrphanMonitor
      <4> QED BY <4>1, <3>1, <3>2, <1>1, ChecksAreDisjoint
    <3> QED BY <3>1, <3>2, <3>3, <1>5 DEF IInv, MonitorPhase, Responders
  <2> QED BY <2>1, <2>2
<1> QED BY <1>8, <1>9, <1>10, <1>11, <1>12 DEF IInv

(* Once a monitor has deleted the task it found in a handle, no responder of that signal *)
(* exists: if there was one, it was the task in the handle.                              *)
LEMMA MonDeleteInv ==
  ASSUME IInv, TypeOK', NEW a \in Addr, MonDelete(a)
  PROVE  IInv'
<1> DEFINE h == IF respHandle[Kind(a)] = NULL THEN a ELSE respHandle[Kind(a)]
<1>1. /\ TypeOK /\ role[a] \in Monitors /\ pc[a] = "delete" /\ chk[a] \in DOMAIN Checks[role[a]]
      /\ CanRun(PRIORITY_CORE_MONITOR)
  BY DEF IInv, TypeOK, MonDelete, MonitorAt, MonitorPc
<1>2. Kind(a) \in Kinds /\ NULL \notin Monitors \cup Kinds \cup Addr /\ Monitors \cap Kinds = {}
  BY <1>1, KindType, ConstantAssumption DEF ConstantAssumption
<1>3. /\ h \in Addr
      /\ role' = [role EXCEPT ![h] = NULL]
      /\ pc' = IF h = a THEN [pc EXCEPT ![a] = "zombie"]
                        ELSE [pc EXCEPT ![a] = "clear", ![h] = "free"]
      /\ chk' = [chk EXCEPT ![h] = 0]
      /\ seen' = [seen EXCEPT ![h] = {}]
      /\ respHandle' = respHandle /\ monHandle' = monHandle
  BY <1>1, <1>2 DEF TypeOK, MonDelete, handleVars
<1>4. \A b \in Addr : role[b] = Kind(a) => b = h
  BY <1>1, <1>2, RespondersSleep DEF IInv, NoOrphanResponder
<1> HIDE DEF h
<1>5. /\ role'[h] = NULL
      /\ \A b \in Addr \ {h} : role'[b] = role[b] /\ chk'[b] = chk[b] /\ seen'[b] = seen[b]
      /\ \A b \in Addr \ {h, a} : pc'[b] = pc[b]
      /\ a # h => pc'[a] = "clear"
  BY <1>1, <1>3 DEF TypeOK
<1>6. AtMostOneResponder'
  BY <1>2, <1>5 DEF IInv, AtMostOneResponder
<1>7. NoOrphanResponder'
  BY <1>1, <1>2, <1>3, <1>5 DEF IInv, NoOrphanResponder
<1>8. NoOrphanMonitor'
  BY <1>2, <1>3, <1>5 DEF IInv, NoOrphanMonitor
<1>9. SnapshotFresh'
  <2>1. \A k \in Kinds \ HeapKinds : k \in crit' <=> k \in crit
    BY DEF MonDelete, HeapGrows
  <2>2. \A m \in Monitors : \A i \in DOMAIN Checks[m] : Checks[m][i] \in Kinds
    BY ConstantAssumption DEF ConstantAssumption
  <2>3. \A b \in Addr : role'[b] \in Monitors =>
           role'[b] = role[b] /\ (InLoop(b)' => InLoop(b) /\ seen'[b] = seen[b])
    BY <1>1, <1>2, <1>5 DEF InLoop
  <2> QED BY <2>1, <2>2, <2>3 DEF IInv, SnapshotFresh
<1>10. MonitorPhase'
  <2> SUFFICES ASSUME NEW b \in Addr, role'[b] \in Monitors
               PROVE  /\ pc'[b] \in {"spawn", "create"} => Kind(b)' \in seen'[b]
                      /\ pc'[b] = "create" => respHandle[Kind(b)]' = NULL
                      /\ pc'[b] \in {"create", "clear"} => Responders(Kind(b))' = {}
    BY DEF MonitorPhase
  <2>0. b # h /\ role'[b] = role[b] /\ seen'[b] = seen[b] /\ Kind(b)' = Kind(b)
    BY <1>2, <1>5 DEF Kind
  <2>1. CASE b = a
    BY <2>0, <2>1, <1>2, <1>4, <1>5 DEF Responders
  <2>2. CASE b # a
    <3>1. pc'[b] = pc[b]
      BY <2>0, <2>2, <1>5
    <3>2. pc[b] \in {"create", "clear"} => Kind(b) \in Kinds
      BY <2>0, <1>1, KindType DEF TypeOK, MonitorPc
    <3> QED BY <2>0, <3>1, <3>2, <1>2, <1>3, <1>5 DEF IInv, MonitorPhase, Responders
  <2> QED BY <2>1, <2>2
<1> QED BY <1>6, <1>7, <1>8, <1>9, <1>10 DEF IInv

(* Every step of a monitor preserves the invariant. *)
LEMMA MonitorStepInv ==
  ASSUME IInv, NEW a \in Addr, MonWake(a) \/ MonStep(a)
  PROVE  IInv'
<1> USE DEF taskVars, handleVars
<1>0. TypeOK /\ TypeOK'
  BY MonitorStepType DEF IInv
<1>1. CASE MonWake(a)
  BY <1>0, <1>1, GotoInv DEF MonWake, MonitorPc
<1>2. CASE MonRead(a)
  <2>1. /\ role[a] \in Monitors /\ role[a] \notin Kinds
        /\ UNCHANGED <<crit, role, handleVars>> /\ pc'[a] = "check"
        /\ \A b \in Addr \ {a} : pc'[b] = pc[b] /\ chk'[b] = chk[b] /\ seen'[b] = seen[b]
        /\ seen'[a] = {k \in crit : \E i \in DOMAIN Checks[role[a]] : k = Checks[role[a]][i]}
    BY <1>0, <1>2, ConstantAssumption DEF ConstantAssumption, TypeOK, MonRead, MonitorAt
  <2>2. AtMostOneResponder' /\ NoOrphanMonitor'
    BY <2>1 DEF IInv, AtMostOneResponder, NoOrphanMonitor
  <2>3. NoOrphanResponder'
    BY <2>1 DEF IInv, NoOrphanResponder
  <2>4. SnapshotFresh'
    BY <2>1 DEF IInv, SnapshotFresh, InLoop
  <2>5. MonitorPhase'
    BY <2>1 DEF IInv, MonitorPhase, Kind, Responders
  <2> QED BY <1>0, <2>2, <2>3, <2>4, <2>5 DEF IInv
<1>3. CASE MonCheckCritical(a)
  BY <1>0, <1>3, GotoInv DEF MonCheckCritical, MonitorAt, InLoop, MonitorPc
<1>4. CASE MonCheckNormal(a)
  BY <1>0, <1>4, GotoInv DEF MonCheckNormal, MonitorAt, InLoop, MonitorPc
<1>5. CASE MonSpawn(a)
  <2>1. role[a] \in Monitors /\ pc[a] = "spawn" /\ InLoop(a) /\ Kind(a) \in Kinds
        /\ Kind(a) \in seen[a]
    BY <1>0, <1>5, KindType DEF IInv, TypeOK, MonSpawn, MonitorAt, InLoop, MonitorPc, MonitorPhase
  <2>2. CASE respHandle[Kind(a)] = NULL
    <3>1. Responders(Kind(a)) = {}
      BY <1>0, <1>5, <2>1, <2>2, RespondersSleep, ConstantAssumption
      DEF ConstantAssumption, IInv, NoOrphanResponder, Responders, MonSpawn, MonitorAt
    <3>2. Goto(a, "create") /\ UNCHANGED <<crit, handleVars>>
      BY <1>5, <2>2 DEF MonSpawn
    <3> QED BY <1>0, <2>1, <2>2, <3>1, <3>2, GotoInv DEF MonitorPc
  <2>3. CASE respHandle[Kind(a)] # NULL
    BY <1>0, <1>5, <2>1, <2>3, NextCheckInv DEF MonSpawn
  <2> QED BY <2>2, <2>3
<1>6. CASE MonCreate(a)
  BY <1>0, <1>6, MonCreateInv
<1>7. CASE MonAllocFails(a)
  BY <1>0, <1>7, GotoInv DEF MonAllocFails, MonitorAt, InLoop, MonitorPc
<1>8. CASE MonKill(a)
  <2>1. role[a] \in Monitors /\ InLoop(a)
    BY <1>8 DEF MonKill, MonitorAt, InLoop
  <2>2. CASE respHandle[Kind(a)] # NULL
    BY <1>0, <1>8, <2>1, <2>2, GotoInv DEF MonKill, MonitorPc
  <2>3. CASE respHandle[Kind(a)] = NULL
    BY <1>0, <1>8, <2>1, <2>3, NextCheckInv DEF MonKill
  <2> QED BY <2>2, <2>3
<1>9. CASE MonDelete(a)
  BY <1>0, <1>9, MonDeleteInv
<1>10. CASE MonDeleteCrashes(a)
  BY <1>0, <1>10 DEF MonDeleteCrashes, IInv, AtMostOneResponder, NoOrphanResponder,
     NoOrphanMonitor, SnapshotFresh, InLoop, MonitorPhase, Kind, Responders
<1>11. CASE MonClear(a)
  <2>1. role[a] \in Monitors /\ InLoop(a) /\ Responders(Kind(a)) = {}
    BY <1>11 DEF MonClear, MonitorAt, InLoop, IInv, MonitorPhase
  <2> QED BY <1>0, <1>11, <2>1, NextCheckInv DEF MonClear
<1> QED BY <1>1, <1>2, <1>3, <1>4, <1>5, <1>6, <1>7, <1>8, <1>9, <1>10, <1>11 DEF MonStep

(* The end of a task keeps the invariant, if the handle that is cleared with it, if any, *)
(* is the handle of a signal that no other running responder relies on.                  *)
LEMMA TaskEndInv ==
  ASSUME IInv, TypeOK', NEW h \in Addr, NEW s \in {"free", "zombie"},
         role' = [role EXCEPT ![h] = NULL],
         pc' = [pc EXCEPT ![h] = s],
         \A b \in Addr \ {h} : chk'[b] = chk[b] /\ seen'[b] = seen[b],
         UNCHANGED monHandle, crit' \subseteq crit, crit \ crit' \subseteq HeapKinds,
         \/ UNCHANGED respHandle
         \/ \E k \in Kinds : /\ respHandle' = [respHandle EXCEPT ![k] = NULL]
                             /\ respHandle[k] = h
  PROVE  IInv'
<1>1. TypeOK /\ NULL \notin Monitors \cup Kinds \cup Addr /\ Monitors \cap Kinds = {}
  BY ConstantAssumption DEF ConstantAssumption, IInv
<1>2. /\ role'[h] = NULL
      /\ \A b \in Addr \ {h} : role'[b] = role[b] /\ pc'[b] = pc[b]
  BY <1>1 DEF TypeOK
<1>3. AtMostOneResponder' /\ NoOrphanMonitor'
  BY <1>1, <1>2 DEF IInv, AtMostOneResponder, NoOrphanMonitor
<1>4. NoOrphanResponder'
  BY <1>1, <1>2 DEF IInv, TypeOK, NoOrphanResponder
<1>5. SnapshotFresh'
  BY <1>1, <1>2 DEF IInv, SnapshotFresh, InLoop
<1>6. MonitorPhase'
  <2> SUFFICES ASSUME NEW b \in Addr, role'[b] \in Monitors
               PROVE  /\ pc'[b] \in {"spawn", "create"} => Kind(b)' \in seen'[b]
                      /\ pc'[b] = "create" => respHandle[Kind(b)]' = NULL
                      /\ pc'[b] \in {"create", "clear"} => Responders(Kind(b))' = {}
    BY DEF MonitorPhase
  <2>1. b # h /\ role'[b] = role[b] /\ pc'[b] = pc[b] /\ seen'[b] = seen[b] /\ Kind(b)' = Kind(b)
    BY <1>1, <1>2 DEF Kind
  <2>2. pc[b] \in {"create", "clear"} => Kind(b) \in Kinds
    BY <2>1, <1>1, KindType DEF TypeOK, MonitorPc
  <2>3. pc[b] = "create" => respHandle'[Kind(b)] = NULL
    BY <2>1, <2>2, <1>1 DEF IInv, TypeOK, MonitorPhase
  <2> QED BY <2>1, <2>2, <2>3, <1>1, <1>2 DEF IInv, MonitorPhase, Responders
<1> QED BY <1>3, <1>4, <1>5, <1>6 DEF IInv

(* Every step of a responder preserves the invariant. *)
LEMMA ResponderStepInv ==
  ASSUME IInv, NEW a \in Addr, RespWake(a) \/ RespStep(a)
  PROVE  IInv'
<1> USE DEF taskVars, handleVars
<1>0. TypeOK /\ TypeOK'
  BY ResponderStepType DEF IInv
<1>1. NULL \notin Monitors \cup Kinds \cup Addr /\ Monitors \cap Kinds = {}
  BY ConstantAssumption DEF ConstantAssumption
<1>2. CASE RespWake(a) \/ RespPoll(a)
  <2>1. /\ role[a] \in Kinds /\ pc[a] # "exit" /\ UNCHANGED <<crit, role, chk, seen, handleVars>>
        /\ \A b \in Addr \ {a} : pc'[b] = pc[b]
    BY <1>0, <1>2 DEF TypeOK, RespWake, RespPoll, ResponderAt, Goto
  <2>2. AtMostOneResponder' /\ NoOrphanMonitor'
    BY <2>1 DEF IInv, AtMostOneResponder, NoOrphanMonitor
  <2>3. NoOrphanResponder'
    BY <2>1 DEF IInv, NoOrphanResponder
  <2>4. SnapshotFresh'
    BY <1>1, <2>1 DEF IInv, SnapshotFresh, InLoop
  <2>5. MonitorPhase'
    BY <1>1, <2>1 DEF IInv, MonitorPhase, Kind, Responders
  <2> QED BY <1>0, <2>2, <2>3, <2>4, <2>5 DEF IInv
<1>3. CASE RespUnhandle(a)
  <2>1. /\ role[a] \in Kinds /\ UNCHANGED <<crit, role, chk, seen, monHandle>>
        /\ \A b \in Addr \ {a} : pc'[b] = pc[b]
        /\ pc'[a] = "exit"
        /\ respHandle' = [respHandle EXCEPT ![role[a]] = NULL]
    BY <1>0, <1>3 DEF TypeOK, RespUnhandle, ResponderAt, Goto
  <2>2. AtMostOneResponder' /\ NoOrphanMonitor'
    BY <2>1 DEF IInv, AtMostOneResponder, NoOrphanMonitor
  <2>3. NoOrphanResponder'
    BY <1>0, <2>1 DEF IInv, TypeOK, NoOrphanResponder, AtMostOneResponder
  <2>4. SnapshotFresh'
    BY <1>1, <2>1 DEF IInv, SnapshotFresh, InLoop
  <2>5. MonitorPhase'
    <3>1. \A k \in Kinds : respHandle[k] = NULL => respHandle'[k] = NULL
      BY <1>0, <2>1 DEF TypeOK
    <3>2. \A b \in Addr : role[b] \in Monitors /\ pc[b] = "create" => Kind(b) \in Kinds
      BY <1>0, KindType DEF TypeOK, MonitorPc
    <3>3. \A b \in Addr : role[b] \in Monitors =>
             Kind(b)' = Kind(b) /\ pc'[b] = pc[b] /\ seen'[b] = seen[b]
      BY <1>1, <2>1 DEF Kind
    <3> QED BY <2>1, <3>1, <3>2, <3>3 DEF IInv, MonitorPhase, Responders
  <2> QED BY <1>0, <2>2, <2>3, <2>4, <2>5 DEF IInv
<1>4. CASE RespExit(a)
  BY <1>0, <1>4, TaskEndInv DEF RespExit
<1> QED BY <1>2, <1>3, <1>4 DEF RespStep

(* The watchdog recreates a monitor only when no task runs it: a task that runs is the   *)
(* one in the handle, and the kernel never reports such a task as deleted.               *)
LEMMA WdRecreateInv ==
  ASSUME IInv, TypeOK', WdRecreate
  PROVE  IInv'
<1> DEFINE m == WdScan[wd]
<1>1. TypeOK /\ NULL \notin Monitors \cup Kinds \cup Addr /\ Monitors \cap Kinds = {}
  BY ConstantAssumption DEF ConstantAssumption, IInv
<1>2. m \in Monitors /\ m \notin Kinds /\ monHandle[m] \in Addr
  BY <1>1 DEF WdRecreate, WdAt, TypeOK
<1>3. PICK n \in Free : /\ role' = [role EXCEPT ![n] = m]
                        /\ pc' = [pc EXCEPT ![n] = "read"]
                        /\ monHandle' = [monHandle EXCEPT ![m] = n]
  BY DEF WdRecreate
<1>4. role[monHandle[m]] = NULL
  <2>1. FALSE \in AliveReadings(monHandle[m])
    BY DEF WdRecreate
  <2>2. pc[monHandle[m]] \in {"free", "zombie"}
    BY <2>1 DEF AliveReadings
  <2> QED BY <2>2, <1>1, <1>2 DEF TypeOK
<1>5. UNCHANGED <<chk, seen, respHandle>>
  BY DEF WdRecreate
<1> HIDE DEF m
<1>6. /\ n \in Addr /\ role[n] = NULL /\ role'[n] = m /\ pc'[n] = "read" /\ monHandle'[m] = n
      /\ \A b \in Addr \ {n} : role'[b] = role[b] /\ pc'[b] = pc[b]
      /\ \A x \in Monitors \ {m} : monHandle'[x] = monHandle[x]
  BY <1>1, <1>2, <1>3 DEF Free, TypeOK
<1>7. \A b \in Addr : role[b] # m
  BY <1>1, <1>2, <1>4 DEF IInv, NoOrphanMonitor
<1>8. AtMostOneResponder'
  BY <1>1, <1>2, <1>6 DEF IInv, AtMostOneResponder
<1>9. NoOrphanResponder'
  BY <1>1, <1>2, <1>5, <1>6 DEF IInv, NoOrphanResponder
<1>10. NoOrphanMonitor'
  BY <1>1, <1>2, <1>6, <1>7 DEF IInv, NoOrphanMonitor
<1>11. SnapshotFresh'
  <2>1. \A k \in Kinds \ HeapKinds : k \in crit' <=> k \in crit
    BY DEF WdRecreate, HeapShrinks
  <2>2. \A x \in Monitors : \A i \in DOMAIN Checks[x] : Checks[x][i] \in Kinds
    BY ConstantAssumption DEF ConstantAssumption
  <2>3. \A b \in Addr : role'[b] \in Monitors /\ InLoop(b)' =>
           role'[b] = role[b] /\ InLoop(b) /\ seen'[b] = seen[b]
    BY <1>5, <1>6 DEF InLoop
  <2> QED BY <2>1, <2>2, <2>3 DEF IInv, SnapshotFresh
<1>12. MonitorPhase'
  <2> SUFFICES ASSUME NEW b \in Addr, role'[b] \in Monitors,
                      pc'[b] \in {"spawn", "create", "clear"}
               PROVE  /\ pc'[b] \in {"spawn", "create"} => Kind(b)' \in seen'[b]
                      /\ pc'[b] = "create" => respHandle[Kind(b)]' = NULL
                      /\ pc'[b] \in {"create", "clear"} => Responders(Kind(b))' = {}
    BY DEF MonitorPhase
  <2>1. b # n /\ role'[b] = role[b] /\ pc'[b] = pc[b] /\ seen'[b] = seen[b] /\ Kind(b)' = Kind(b)
    BY <1>5, <1>6 DEF Kind
  <2>2. Kind(b) \in Kinds
    BY <2>1, <1>1, KindType DEF TypeOK, MonitorPc
  <2> QED BY <2>1, <2>2, <1>2, <1>5, <1>6 DEF IInv, MonitorPhase, Responders
<1> QED BY <1>8, <1>9, <1>10, <1>11, <1>12 DEF IInv

(* Every step of the watchdog preserves the invariant. *)
LEMMA WatchdogStepInv ==
  ASSUME IInv, WdWake \/ WdStep
  PROVE  IInv'
<1> USE DEF taskVars, handleVars
<1>0. TypeOK /\ TypeOK'
  BY WatchdogStepType DEF IInv
<1>1. CASE WdRecreate
  BY <1>0, <1>1, WdRecreateInv
<1>2. CASE WdKill
  <2> DEFINE k == WdScan[wd]
             h == respHandle[k]
  <2>1. k \in Kinds /\ h \in Addr
    BY <1>0, <1>2 DEF WdKill, WdAt, TypeOK
  <2>2. /\ role' = [role EXCEPT ![h] = NULL]
        /\ pc' = [pc EXCEPT ![h] = "free"]
        /\ \A b \in Addr \ {h} : chk'[b] = chk[b] /\ seen'[b] = seen[b]
        /\ UNCHANGED monHandle
        /\ respHandle' = [respHandle EXCEPT ![k] = NULL]
    BY <1>0, <1>2 DEF WdKill, TypeOK
  <2>3. crit' \subseteq crit /\ crit \ crit' \subseteq HeapKinds
    BY <1>2 DEF WdKill, HeapGrows
  <2> QED BY <1>0, <2>1, <2>2, <2>3, TaskEndInv
<1>3. CASE ~WdRecreate /\ ~WdKill
  <2>1. UNCHANGED <<crit, taskVars, handleVars>>
    BY <1>3 DEF WdWake, WdStep, WdMonitorAlive, WdAllocFails, WdResponderPasses, WdKillCrashes
  <2> QED BY <1>0, <2>1 DEF IInv, AtMostOneResponder, NoOrphanResponder, NoOrphanMonitor,
             SnapshotFresh, InLoop, MonitorPhase, Kind, Responders
<1> QED BY <1>1, <1>2, <1>3

(* The invariant is inductive. *)
LEMMA StepInv == IInv /\ [Next]_vars => IInv'
<1> SUFFICES ASSUME IInv, [Next]_vars PROVE IInv'
  OBVIOUS
<1> USE DEF taskVars, handleVars
<1>0. TypeOK /\ TypeOK'
  BY StepType DEF IInv
<1>1. ASSUME NEW a \in Addr, MonWake(a) \/ MonStep(a) PROVE IInv'
  BY <1>1, MonitorStepInv
<1>2. ASSUME NEW a \in Addr, RespWake(a) \/ RespStep(a) PROVE IInv'
  BY <1>2, ResponderStepInv
<1>3. CASE WdWake \/ WdStep
  BY <1>3, WatchdogStepInv
<1>4. CASE RecStep \/ UNCHANGED vars
  <2>1. UNCHANGED <<crit, taskVars, handleVars>>
    BY <1>4 DEF RecStep, vars
  <2> QED BY <1>0, <2>1 DEF IInv, AtMostOneResponder, NoOrphanResponder, NoOrphanMonitor,
             SnapshotFresh, InLoop, MonitorPhase, Kind, Responders
<1>5. CASE SimStep
  <2>1. UNCHANGED <<taskVars, handleVars>>
        /\ \A b \in Addr : role[b] \in Monitors => ~InLoop(b)
    BY <1>0, <1>5, MonitorsSleep DEF SimStep, InLoop
  <2> QED BY <1>0, <2>1 DEF IInv, AtMostOneResponder, NoOrphanResponder, NoOrphanMonitor,
             SnapshotFresh, InLoop, MonitorPhase, Kind, Responders
<1>6. CASE IdleStep
  <2>1. PICK h \in Addr : pc[h] = "zombie" /\ pc' = [pc EXCEPT ![h] = "free"]
    BY <1>6 DEF IdleStep
  <2>2. role[h] = NULL
    BY <1>0, <2>1 DEF TypeOK
  <2>3. role' = [role EXCEPT ![h] = NULL] /\ UNCHANGED <<chk, seen, handleVars>>
    BY <1>0, <1>6, <2>2 DEF TypeOK, IdleStep
  <2>4. crit' \subseteq crit /\ crit \ crit' \subseteq HeapKinds
    BY <1>6 DEF IdleStep, HeapGrows
  <2> QED BY <1>0, <2>1, <2>3, <2>4, TaskEndInv
<1> QED BY <1>1, <1>2, <1>3, <1>4, <1>5, <1>6 DEF Next

(* Every state of every behaviour satisfies the inductive invariant. *)
THEOREM Invariance == Spec => []IInv
BY InitInv, StepInv, PTL DEF Spec

(* At no time, in no interleaving, does a signal have two responders. *)
THEOREM OneResponder == Spec => []AtMostOneResponder
<1>1. IInv => AtMostOneResponder
  BY DEF IInv
<1> QED BY <1>1, Invariance, PTL

(* A running responder can always be found, and killed, through its handle. *)
THEOREM NoOrphans == Spec => []NoOrphanResponder
<1>1. IInv => NoOrphanResponder
  BY DEF IInv
<1> QED BY <1>1, Invariance, PTL

(* A monitor's task block is never in use without its handle: the watchdog's check of   *)
(* the handle sees whether the monitor is there.                                        *)
THEOREM MonitorsReachable == Spec => []NoOrphanMonitor
<1>1. IInv => NoOrphanMonitor
  BY DEF IInv
<1> QED BY <1>1, Invariance, PTL

(* A monitor decides on data that no task has changed since it read them. *)
THEOREM FreshDecisions == Spec => []SnapshotFresh
<1>1. IInv => SnapshotFresh
  BY DEF IInv
<1> QED BY <1>1, Invariance, PTL

-----------------------------------------------------------------------------
(* Events: no critical bit waits in the event group. *)

(* When the monitors can run the recovery manager waits, so it takes a critical bit as   *)
(* it is set; only the watchdog can set a bit while the recovery manager is busy.        *)
THEOREM CriticalEventsAreTaken == Spec => []NoPendingCriticalEvent
<1>1. Init => NoPendingCriticalEvent
  BY DEF Init, NoPendingCriticalEvent
<1>2. NoPendingCriticalEvent /\ [Next]_vars => NoPendingCriticalEvent'
  <2> SUFFICES ASSUME NoPendingCriticalEvent, [Next]_vars PROVE NoPendingCriticalEvent'
    OBVIOUS
  <2>1. ASSUME NEW a \in Addr, MonCheckCritical(a) PROVE NoPendingCriticalEvent'
    <3>1. rec # {} => PRIORITY_CORE_MONITOR >= PRIORITY_SAFETY_RECOVERY
      BY <2>1 DEF MonCheckCritical, MonitorAt, CanRun
    <3>2. rec = {}
      BY <3>1 DEF PRIORITY_CORE_MONITOR, PRIORITY_SAFETY_RECOVERY
    <3> QED BY <2>1, <3>2 DEF MonCheckCritical, SetBits, NoPendingCriticalEvent
  <2>2. ASSUME NEW a \in Addr, MonWake(a) \/ MonStep(a), ~MonCheckCritical(a)
        PROVE  bits' \subseteq bits
    BY <2>2 DEF MonStep, MonWake, MonRead, MonCheckNormal, MonSpawn, MonCreate,
       MonAllocFails, MonKill, MonDelete, MonDeleteCrashes, MonClear
  <2>3. ASSUME NEW a \in Addr, RespWake(a) \/ RespStep(a) PROVE bits' \subseteq bits
    BY <2>3 DEF RespStep, RespWake, RespPoll, RespUnhandle, RespExit
  <2>4. CASE WdWake \/ WdStep
    BY <2>4 DEF NoPendingCriticalEvent, SetBits, WdStep, WdWake, WdMonitorAlive, WdRecreate,
       WdAllocFails, WdResponderPasses, WdKill, WdKillCrashes
  <2>5. CASE RecStep \/ SimStep \/ IdleStep \/ UNCHANGED vars
    BY <2>5 DEF NoPendingCriticalEvent, RecStep, SimStep, IdleStep, vars
  <2> QED BY <2>1, <2>2, <2>3, <2>4, <2>5 DEF Next, NoPendingCriticalEvent
<1> QED BY <1>1, <1>2, PTL DEF Spec

-----------------------------------------------------------------------------
(* Refinement: the tasks implement ResponderService. *)

(* A step that starts or ends no responder is a change of signals of the service. *)
LEMMA KeepsInstances ==
  ASSUME TypeOK', \A k \in Kinds : Responders(k)' = Responders(k)
  PROVE  Service!SignalsVary
BY DEF Service!SignalsVary, TypeOK

(* The end of a task ends a responder of the service, or none. *)
LEMMA TaskEndService ==
  ASSUME IInv, TypeOK', NEW h \in Addr, role' = [role EXCEPT ![h] = NULL], HeapGrows
  PROVE  Service!Next
<1>1. TypeOK /\ NULL \notin Kinds
  BY ConstantAssumption DEF ConstantAssumption, IInv
<1>2. role'[h] = NULL /\ \A b \in Addr \ {h} : role'[b] = role[b]
  BY <1>1 DEF TypeOK
<1>3. CASE role[h] \in Kinds
  <2>1. \A b \in Addr : role[b] = role[h] => b = h
    BY <1>3 DEF IInv, AtMostOneResponder
  <2>2. Responders(role[h]) # {} /\ {b \in Addr : role'[b] = role[h]} = {}
    BY <1>1, <1>2, <1>3, <2>1 DEF Responders
  <2>3. \A k \in Kinds \ {role[h]} : {b \in Addr : role'[b] = k} = Responders(k)
    BY <1>1, <1>2 DEF Responders
  <2>4. [k \in Kinds |-> Responders(k)]'
          = [[k \in Kinds |-> Responders(k)] EXCEPT ![role[h]] = {}]
    <3>1. [k \in Kinds |-> Responders(k)]' = [k \in Kinds |-> {b \in Addr : role'[b] = k}]
      BY DEF Responders
    <3> QED BY <3>1, <2>2, <2>3, <1>3
  <2>5. crit' \subseteq Kinds /\ crit' \ HeapKinds = crit \ HeapKinds
    BY DEF HeapGrows, TypeOK
  <2>6. Service!End(role[h])
    BY <1>3, <2>2, <2>4, <2>5 DEF Service!End, Service!HeapVaries
  <2> QED BY <1>3, <2>6 DEF Service!Next
<1>4. CASE role[h] \notin Kinds
  BY <1>1, <1>2, <1>4, KeepsInstances DEF Responders, Service!Next
<1> QED BY <1>3, <1>4

(* vSpawnResponder starts a responder of the service: there is none, and the signal is   *)
(* critical.                                                                             *)
LEMMA MonCreateService ==
  ASSUME IInv, TypeOK', NEW a \in Addr, MonCreate(a)
  PROVE  Service!Next
<1>1. TypeOK /\ role[a] \in Monitors /\ pc[a] = "create" /\ chk[a] \in DOMAIN Checks[role[a]]
  BY DEF IInv, TypeOK, MonCreate, MonitorAt, MonitorPc
<1>2. Kind(a) \in Kinds /\ Kind(a) # NULL
  BY <1>1, KindType, ConstantAssumption DEF ConstantAssumption
<1>3. PICK n \in Free : role' = [role EXCEPT ![n] = Kind(a)]
  BY DEF MonCreate
<1>4. n \in Addr /\ role[n] = NULL /\ role'[n] = Kind(a)
      /\ \A b \in Addr \ {n} : role'[b] = role[b]
  BY <1>1, <1>3 DEF Free, TypeOK
<1>5. Responders(Kind(a)) = {}
  BY <1>1 DEF IInv, MonitorPhase
<1>6. Responders(Kind(a)) = {} /\ {b \in Addr : role'[b] = Kind(a)} = {n}
  BY <1>4, <1>5 DEF Responders
<1>7. \A k \in Kinds \ {Kind(a)} : {b \in Addr : role'[b] = k} = Responders(k)
  BY <1>2, <1>4, ConstantAssumption DEF ConstantAssumption, Responders
<1>8. [k \in Kinds |-> Responders(k)]'
        = [[k \in Kinds |-> Responders(k)] EXCEPT ![Kind(a)] = {n}]
  <2>1. [k \in Kinds |-> Responders(k)]' = [k \in Kinds |-> {b \in Addr : role'[b] = k}]
    BY DEF Responders
  <2> QED BY <2>1, <1>2, <1>6, <1>7
<1>9. Kind(a) \in crit \cup HeapKinds
  <2>1. Kind(a) \in seen[a] /\ InLoop(a)
    BY <1>1 DEF IInv, MonitorPhase, InLoop
  <2>2. Kind(a) \notin HeapKinds => (Kind(a) \in seen[a] <=> Kind(a) \in crit)
    BY <1>1, <2>1 DEF IInv, SnapshotFresh, Kind
  <2> QED BY <2>1, <2>2
<1>10. crit' \subseteq Kinds /\ crit' \ HeapKinds = crit \ HeapKinds
  BY DEF MonCreate, HeapShrinks, TypeOK
<1>11. Service!Start(Kind(a))
  BY <1>2, <1>4, <1>5, <1>8, <1>9, <1>10 DEF Service!Start, Service!HeapVaries
<1> QED BY <1>2, <1>11 DEF Service!Next

(* Every step of the tasks is a step of the service or changes nothing of it. *)
LEMMA StepService == IInv /\ [Next]_vars => [Service!Next]_(Service!vars)
<1> SUFFICES ASSUME IInv, [Next]_vars PROVE [Service!Next]_(Service!vars)
  OBVIOUS
<1> USE DEF taskVars, handleVars
<1>0. TypeOK /\ TypeOK' /\ NULL \notin Kinds /\ Monitors \cap Kinds = {}
  BY StepType, ConstantAssumption DEF IInv, ConstantAssumption
<1>1. CASE role' = role
  BY <1>0, <1>1, KeepsInstances DEF Responders, Service!Next
<1>2. ASSUME NEW a \in Addr, MonCreate(a) PROVE Service!Next
  BY <1>0, <1>2, MonCreateService
<1>3. ASSUME NEW a \in Addr, MonDelete(a) PROVE Service!Next
  <2>1. (IF respHandle[Kind(a)] = NULL THEN a ELSE respHandle[Kind(a)]) \in Addr
    BY <1>0, <1>3, KindType DEF TypeOK, MonDelete, MonitorAt, MonitorPc
  <2> QED BY <1>0, <1>3, <2>1, TaskEndService DEF MonDelete
<1>4. ASSUME NEW a \in Addr, RespExit(a) PROVE Service!Next
  <2>1. role[a] \in Kinds /\ crit' = crit /\ role' = [role EXCEPT ![a] = NULL]
    BY <1>4 DEF RespExit, ResponderAt
  <2>2. HeapGrows
    BY <2>1 DEF HeapGrows
  <2> QED BY <1>0, <2>1, <2>2, TaskEndService
<1>5. CASE WdKill
  <2>1. respHandle[WdScan[wd]] \in Addr
    BY <1>0, <1>5 DEF WdKill, WdAt, TypeOK
  <2> QED BY <1>0, <1>5, <2>1, TaskEndService DEF WdKill
<1>6. CASE WdRecreate
  <2>1. PICK n \in Free : role' = [role EXCEPT ![n] = WdScan[wd]]
    BY <1>6 DEF WdRecreate
  <2>2. n \in Addr /\ role[n] = NULL /\ WdScan[wd] \in Monitors
    BY <1>0, <1>6, <2>1 DEF Free, TypeOK, WdRecreate, WdAt
  <2> QED BY <1>0, <2>1, <2>2, KeepsInstances DEF Responders, Service!Next, TypeOK
<1>7. \/ role' = role \/ WdKill \/ WdRecreate
      \/ \E a \in Addr : MonCreate(a) \/ MonDelete(a) \/ RespExit(a)
  BY DEF Next, vars, MonStep, RespStep, WdStep, MonWake, RespWake, Goto, MonRead,
     MonCheckCritical, MonCheckNormal, MonSpawn, NextCheck, MonAllocFails, MonKill,
     MonDeleteCrashes, MonClear, RespPoll, RespUnhandle, WdWake, WdMonitorAlive,
     WdAllocFails, WdResponderPasses, WdKillCrashes, RecStep, SimStep, IdleStep
<1> QED BY <1>1, <1>2, <1>3, <1>4, <1>5, <1>6, <1>7

(* The monitors, responders and watchdog, with their unguarded handles, implement the    *)
(* responder service: started only from none, only while critical, never replaced        *)
(* without having ended.                                                                 *)
THEOREM Refinement == Spec => ImplementsService
<1>1. Init => Service!Init
  <2> SUFFICES ASSUME Init PROVE Service!Init
    OBVIOUS
  <2>1. \A a \in Addr : role[a] \notin Kinds
    BY ConstantAssumption DEF ConstantAssumption, Init
  <2>2. \A k \in Kinds : Responders(k) = {}
    BY <2>1 DEF Responders
  <2> QED BY <2>2 DEF Init, Service!Init
<1> QED BY <1>1, StepService, Invariance, PTL DEF Spec, ImplementsService, Service!Spec
=============================================================================
