--------------------------- MODULE WatchdogTimersProofs ---------------------------
(* The watchdog's time keeping for every width of the clock, every period, timeout and  *)
(* time to live that leaves room for them below the wrap-around, and any responders and *)
(* tasks.                                                                               *)
EXTENDS WatchdogTimers, TLAPS

TrackedOnes == {Tracked[j] : j \in DOMAIN Tracked}

(* The part of a pass that has dealt with k. *)
Visited(k) == \E j \in 1 .. wi - 1 : Tracked[j] = k
ToStamp(k) == pass = "heartbeats" \/ (pass = "track" /\ ~Visited(k))
ToAge(k)   == pass \in {"heartbeats", "track"} \/ (pass = "ttl" /\ ~Visited(k))

(* During a pass the clock is ahead of the watchdog's reading by the ticks so far. *)
PassInv ==
  pass # "sleep" => /\ TicksInPass <= PassTicks
                    /\ Elapsed(clock, t_ms) = TicksInPass

(* How old a heartbeat stamp may be. *)
HeartbeatLimit == TIMEOUT + TicksInPass + (IF pass = "heartbeats" THEN Period ELSE 0)

(* A heartbeat stamp is never so old that it could be taken for a new one: the pass that *)
(* finds it older than TIMEOUT replaces it.                                              *)
HeartbeatInv(i) ==
  /\ kick[i] # -1 => Elapsed(clock, kick[i]) <= MaxStall
  /\ hb[i] = 0 => unwarned[i] = Unseen
  /\ hb[i] # 0 =>
       LET d == Elapsed(clock, hb[i]) IN
       /\ unwarned[i] <= d /\ d <= quiet[i]
       /\ d <= HeartbeatLimit
       /\ pass = "heartbeats" => TicksInPass <= d

(* How old a spawn stamp may be. *)
StampLimit(k) == TTL + TicksInPass + (IF ToAge(k) THEN Period ELSE 0)

(* How old a spawn stamp is, and how much older the responder. *)
StampInv(k) ==
  LET s == Elapsed(clock, spawn_ms[k]) IN
  spawn_ms[k] # 0 =>
    /\ s <= held[k]
    /\ s <= StampLimit(k)
    /\ pass # "sleep" /\ ~ToStamp(k) => k \in present
    /\ k \in present => \/ age[k] <= s + 2 * Period
                        \/ ToAge(k) /\ s < TicksInPass /\ age[k] <= 2 * Period + TicksInPass

(* A responder without a stamp was created after the last pass or met it at time 0. *)
UnstampedInv(k) ==
  spawn_ms[k] = 0 /\ k \in present =>
    IF ToStamp(k)
    THEN \/ age[k] <= Period + TicksInPass
         \/ age[k] <= 2 * Period + TicksInPass /\ clock - TicksInPass \in 1 .. Period
    ELSE \/ age[k] <= TicksInPass
         \/ age[k] <= Period + TicksInPass /\ TicksInPass - clock \in 0 .. PassTicks

IInv ==
  /\ TypeOK
  /\ PassInv
  /\ \A i \in OwnTasks : HeartbeatInv(i)
  /\ \A k \in TrackedOnes : StampInv(k) /\ UnstampedInv(k)

-----------------------------------------------------------------------------
(* Modular arithmetic: the only lemmas that look into Sum and Elapsed. *)

LEMMA Numbers ==
  /\ {TTL, TIMEOUT, Period} \subseteq Nat \ {0} /\ 2 ^ Width \in Nat
  /\ PassTicks \in 0 .. Period - 1 /\ MaxStall \in 0 .. TIMEOUT - 1
  /\ 2 ^ Width > TTL + TIMEOUT + 4 * Period
  /\ Cap = TTL + TIMEOUT + 5 * Period
  BY TimerAssumption DEF Cap

LEMMA ElapsedValue ==
  ASSUME NEW x \in Stamps, NEW y \in Stamps
  PROVE  /\ Elapsed(x, y) = IF x >= y THEN x - y ELSE x - y + 2 ^ Width
         /\ Elapsed(x, y) \in Stamps
<1> DEFINE W == 2 ^ Width
<1>1. W \in Nat \ {0} /\ x \in 0 .. W - 1 /\ y \in 0 .. W - 1
  BY Numbers DEF Stamps
<1> HIDE DEF W
<1>2. CASE x >= y
  BY <1>1, <1>2 DEF Elapsed, Stamps, W
<1>3. CASE x < y
  BY <1>1, <1>3 DEF Elapsed, Stamps, W
<1> QED BY <1>1, <1>2, <1>3

LEMMA NextElapsed ==
  ASSUME NEW x \in Stamps, NEW y \in Stamps
  PROVE  /\ Sum(x, 1) \in Stamps
         /\ Elapsed(x, y) + 1 < 2 ^ Width => Elapsed(Sum(x, 1), y) = Elapsed(x, y) + 1
<1> DEFINE W == 2 ^ Width
<1>1. W \in Nat \ {0} /\ x \in 0 .. W - 1 /\ y \in 0 .. W - 1
  BY Numbers DEF Stamps
<1>2. Sum(x, 1) = IF x + 1 = W THEN 0 ELSE x + 1
  <2> HIDE DEF W
  <2>1. CASE x + 1 = W BY <1>1, <2>1 DEF Sum, W
  <2>2. CASE x + 1 < W BY <1>1, <2>2 DEF Sum, W
  <2> QED BY <1>1, <2>1, <2>2
<1>3. Sum(x, 1) \in Stamps
  BY <1>1, <1>2 DEF Stamps
<1>4. Elapsed(x, y) = IF x >= y THEN x - y ELSE x - y + W
  BY ElapsedValue
<1>5. LET n == Sum(x, 1) IN Elapsed(n, y) = IF n >= y THEN n - y ELSE n - y + W
  BY <1>3, ElapsedValue
<1> HIDE DEF W
<1>6. Elapsed(x, y) + 1 < W => Elapsed(Sum(x, 1), y) = Elapsed(x, y) + 1
  BY <1>1, <1>2, <1>4, <1>5
<1> QED BY <1>3, <1>6 DEF W

(* The time between two readings of the clock, seen from a third. *)
LEMMA ElapsedBetween ==
  ASSUME NEW x \in Stamps, NEW t \in Stamps, NEW y \in Stamps
  PROVE  /\ Elapsed(x, t) <= Elapsed(x, y) => Elapsed(t, y) = Elapsed(x, y) - Elapsed(x, t)
         /\ Elapsed(x, t) > Elapsed(x, y) =>
              /\ Elapsed(y, t) = Elapsed(x, t) - Elapsed(x, y)
              /\ Elapsed(t, y) = 2 ^ Width - (Elapsed(x, t) - Elapsed(x, y))
<1> DEFINE W == 2 ^ Width
<1>1. W \in Nat /\ x \in 0 .. W - 1 /\ y \in 0 .. W - 1 /\ t \in 0 .. W - 1
  BY Numbers DEF Stamps
<1>2. /\ Elapsed(x, t) = IF x >= t THEN x - t ELSE x - t + W
      /\ Elapsed(x, y) = IF x >= y THEN x - y ELSE x - y + W
      /\ Elapsed(t, y) = IF t >= y THEN t - y ELSE t - y + W
      /\ Elapsed(y, t) = IF y >= t THEN y - t ELSE y - t + W
  BY ElapsedValue
<1> HIDE DEF W
<1>3. /\ Elapsed(x, t) <= Elapsed(x, y) => Elapsed(t, y) = Elapsed(x, y) - Elapsed(x, t)
      /\ Elapsed(x, t) > Elapsed(x, y) =>
           /\ Elapsed(y, t) = Elapsed(x, t) - Elapsed(x, y)
           /\ Elapsed(t, y) = W - (Elapsed(x, t) - Elapsed(x, y))
  BY <1>1, <1>2
<1> QED BY <1>3 DEF W

LEMMA CapNumber == Cap \in Nat
  BY Numbers

(* What every step about a stamp relies on. *)
LEMMA TypeFacts ==
  ASSUME TypeOK
  PROVE  /\ clock \in Stamps /\ t_ms \in Stamps /\ due \in 0 .. Period
         /\ TicksInPass \in 0 .. Period
         /\ \A i \in OwnTasks : /\ hb[i] \in Stamps /\ kick[i] \in Stamps \cup {-1}
                                /\ quiet[i] \in 0 .. Cap /\ unwarned[i] \in -1 .. Cap
         /\ \A k \in Responders : /\ spawn_ms[k] \in Stamps
                                  /\ age[k] \in 0 .. Cap /\ held[k] \in 0 .. Cap
         /\ TrackedOnes \subseteq Responders
<1>1. TrackedOnes \subseteq Responders
  BY TimerAssumption DEF TrackedOnes
<1>2. clock \in Stamps /\ t_ms \in Stamps /\ due \in 0 .. Period
  BY DEF TypeOK
<1>3. TicksInPass \in 0 .. Period
  BY <1>2, Numbers DEF TicksInPass
<1>4. \A i \in OwnTasks : /\ hb[i] \in Stamps /\ kick[i] \in Stamps \cup {-1}
                         /\ quiet[i] \in 0 .. Cap /\ unwarned[i] \in -1 .. Cap
  BY CapNumber DEF TypeOK, Unseen
<1>5. \A k \in Responders : /\ spawn_ms[k] \in Stamps
                           /\ age[k] \in 0 .. Cap /\ held[k] \in 0 .. Cap
  BY DEF TypeOK
<1> QED BY <1>1, <1>2, <1>3, <1>4, <1>5

LEMMA ClockStamps ==
  /\ 0 \in Stamps /\ Stamps \subseteq Nat
  /\ \A x \in Stamps : Elapsed(x, x) = 0 /\ Elapsed(x, 0) = x
<1>1. 0 \in Stamps /\ Stamps \subseteq Nat
  BY Numbers DEF Stamps
<1> QED BY <1>1, ElapsedValue

-----------------------------------------------------------------------------
(* Types. *)

LEMMA TrackedFacts ==
  /\ Len(Tracked) \in Nat /\ DOMAIN Tracked = 1 .. Len(Tracked)
  /\ \A j \in 1 .. Len(Tracked) : Tracked[j] \in Responders
  /\ Tracked = <<>> <=> Len(Tracked) = 0
  BY TimerAssumption

(* The position in a pass. *)
PassType ==
  /\ pass \in {"sleep", "heartbeats", "track", "ttl"}
  /\ wi \in 0 .. Len(Tracked)
  /\ pass \in {"track", "ttl"} <=> wi # 0

(* The histories. *)
HistoryType ==
  /\ age \in [Responders -> 0 .. Cap] /\ held \in [Responders -> 0 .. Cap]
  /\ quiet \in [OwnTasks -> 0 .. Cap] /\ unwarned \in [OwnTasks -> {Unseen} \cup 0 .. Cap]

(* The clock and the stamps. *)
StampType ==
  /\ clock \in Stamps /\ t_ms \in Stamps /\ due \in 0 .. Period
  /\ present \subseteq Responders
  /\ spawn_ms \in [Responders -> Stamps]
  /\ hb \in [OwnTasks -> Stamps]
  /\ kick \in [OwnTasks -> Stamps \cup {-1}]

LEMMA TypeParts == TypeOK <=> PassType /\ HistoryType /\ StampType
  BY DEF TypeOK, PassType, HistoryType, StampType

LEMMA TypePartsNext == TypeOK' <=> PassType' /\ HistoryType' /\ StampType'
  BY DEF TypeOK, PassType, HistoryType, StampType

LEMMA CapFacts ==
  /\ Cap \in Nat \ {0} /\ 0 \in 0 .. Cap /\ MaxStall \in 0 .. Cap
  /\ Period \in Nat \ {0} /\ MaxStall \in Nat /\ PassTicks \in Nat
  BY Numbers

LEMMA TypeOKInit ==
  ASSUME Init
  PROVE  TypeOK
<1>1. PassType
  BY TrackedFacts DEF Init, PassType
<1>2. HistoryType
  BY CapFacts DEF Init, HistoryType
<1>3. StampType
  BY CapFacts, ClockStamps DEF Init, StampType
<1> QED BY <1>1, <1>2, <1>3, TypeParts

LEMMA PassTypeStep ==
  ASSUME PassType, [Next]_vars
  PROVE  PassType'
<1> USE TrackedFacts DEF PassType, watchdogVars, responderVars, heartbeatVars
<1>1. CASE UNCHANGED <<pass, wi>>
  BY <1>1
<1>2. CASE WdWake
  BY <1>2 DEF WdWake
<1>3. CASE CheckHeartbeats
  BY <1>3 DEF CheckHeartbeats
<1>4. CASE TrackSpawn
  BY <1>4 DEF TrackSpawn
<1>5. ASSUME pass = "ttl", NextResponder
      PROVE  PassType'
  <2>1. CASE wi = Len(Tracked)
    BY <1>5, <2>1 DEF NextResponder
  <2>2. CASE wi # Len(Tracked)
    <3>1. \A n \in Nat : \A m \in 0 .. n : m # n => m + 1 \in 0 .. n /\ m + 1 # 0
      OBVIOUS
    <3>2. pass' = "ttl" /\ wi' = wi + 1
      BY <1>5, <2>2 DEF NextResponder
    <3> QED BY <2>2, <3>1, <3>2
  <2> QED BY <2>1, <2>2
<1>6. CASE RespectTTL \/ EnforceTTL
  BY <1>5, <1>6 DEF RespectTTL, EnforceTTL
<1> QED
  BY <1>1, <1>2, <1>3, <1>4, <1>6
  DEF Next, vars, Tick, KickRead, KickStore, Spawn, End

LEMMA HistoryTypeStep ==
  ASSUME TypeOK, \A i \in OwnTasks : HeartbeatInv(i), [Next]_vars
  PROVE  HistoryType'
<1> USE CapFacts, TypeParts DEF HistoryType, watchdogVars, responderVars, heartbeatVars
<1>1. CASE Tick
  <2>1. \A n \in 0 .. Cap : AtMost(n + 1, Cap) \in 0 .. Cap
    BY DEF AtMost
  <2>2. \A n \in {Unseen} \cup 0 .. Cap :
          (IF n = Unseen THEN Unseen ELSE AtMost(n + 1, Cap)) \in {Unseen} \cup 0 .. Cap
    BY <2>1
  <2> QED BY <1>1, <2>1, <2>2 DEF Tick
<1>2. ASSUME NEW i \in OwnTasks, KickRead(i)
      PROVE  HistoryType'
  BY <1>2 DEF KickRead
<1>3. ASSUME NEW i \in OwnTasks, KickStore(i)
      PROVE  HistoryType'
  <2>1. kick[i] \in Stamps /\ Elapsed(clock, kick[i]) <= MaxStall
    BY <1>3 DEF KickStore, HeartbeatInv, StampType
  <2>2. Elapsed(clock, kick[i]) \in Nat
    BY <2>1, ElapsedValue, ClockStamps DEF StampType
  <2>3. Elapsed(clock, kick[i]) \in 0 .. Cap
    BY <2>1, <2>2
  <2> QED BY <1>3, <2>3 DEF KickStore, Noted
<1>4. ASSUME NEW k \in Responders, Spawn(k) \/ End(k)
      PROVE  HistoryType'
  BY <1>4 DEF Spawn, End
<1>5. CASE WdWake
  BY <1>5 DEF WdWake
<1>6. CASE CheckHeartbeats
  BY <1>6 DEF CheckHeartbeats, Noted
<1>7. CASE TrackSpawn
  BY <1>7 DEF TrackSpawn
<1>8. CASE RespectTTL
  BY <1>8 DEF RespectTTL
<1>9. CASE EnforceTTL
  BY <1>9 DEF EnforceTTL
<1>10. CASE UNCHANGED vars
  BY <1>10 DEF vars
<1> QED BY <1>1, <1>2, <1>3, <1>4, <1>5, <1>6, <1>7, <1>8, <1>9, <1>10 DEF Next

LEMMA StampTypeStep ==
  ASSUME TypeOK, [Next]_vars
  PROVE  StampType'
<1> USE CapFacts, TypeParts DEF StampType, watchdogVars, responderVars, heartbeatVars
<1>1. CASE Tick
  <2>1. clock' \in Stamps
    BY <1>1, NextElapsed DEF Tick
  <2>2. due' \in 0 .. Period
    <3>1. due - 1 \in 0 .. Period
      <4>1. CASE pass = "sleep"
        BY <1>1, <4>1 DEF Tick
      <4>2. CASE pass # "sleep"
        BY <1>1, <4>2, Numbers DEF Tick, TicksInPass
      <4> QED BY <4>1, <4>2
    <3> QED BY <1>1, <3>1 DEF Tick
  <2> QED BY <1>1, <2>1, <2>2 DEF Tick
<1>2. ASSUME NEW i \in OwnTasks, KickRead(i)
      PROVE  StampType'
  BY <1>2 DEF KickRead
<1>3. ASSUME NEW i \in OwnTasks, KickStore(i)
      PROVE  StampType'
  BY <1>3 DEF KickStore
<1>4. ASSUME NEW k \in Responders, Spawn(k) \/ End(k)
      PROVE  StampType'
  BY <1>4 DEF Spawn, End
<1>5. CASE WdWake
  BY <1>5 DEF WdWake
<1>6. CASE CheckHeartbeats
  BY <1>6 DEF CheckHeartbeats
<1>7. CASE TrackSpawn
  BY <1>7, ClockStamps DEF TrackSpawn, Stamp
<1>8. CASE RespectTTL
  BY <1>8 DEF RespectTTL
<1>9. CASE EnforceTTL
  BY <1>9, ClockStamps DEF EnforceTTL, KillResponder
<1>10. CASE UNCHANGED vars
  BY <1>10 DEF vars
<1> QED BY <1>1, <1>2, <1>3, <1>4, <1>5, <1>6, <1>7, <1>8, <1>9, <1>10 DEF Next

LEMMA TypeOKStep ==
  ASSUME TypeOK, \A i \in OwnTasks : HeartbeatInv(i), [Next]_vars
  PROVE  TypeOK'
  BY PassTypeStep, HistoryTypeStep, StampTypeStep, TypeParts, TypePartsNext

-----------------------------------------------------------------------------
(* The clock and the heartbeats. *)

LEMMA ElapsedIsNat ==
  ASSUME NEW x \in Stamps, NEW y \in Stamps
  PROVE  Elapsed(x, y) \in Nat
  BY ElapsedValue, ClockStamps

LEMMA TickCounts ==
  ASSUME TypeOK, Tick
  PROVE  /\ TicksInPass' = TicksInPass + 1
         /\ clock' = Sum(clock, 1)
         /\ pass' = pass /\ wi' = wi /\ t_ms' = t_ms /\ present' = present
         /\ spawn_ms' = spawn_ms /\ hb' = hb /\ kick' = kick
  BY TypeFacts, Numbers DEF Tick, TicksInPass

(* Every step but Tick and WdWake leaves the clocks alone. *)
LEMMA ClocksRest ==
  ASSUME TypeOK, [Next]_vars, ~Tick, ~WdWake
  PROVE  /\ clock' = clock /\ due' = due /\ t_ms' = t_ms /\ TicksInPass' = TicksInPass
         /\ pass = "sleep" => pass' = "sleep"
         /\ pass' = "heartbeats" => pass = "heartbeats"
<1> USE DEF watchdogVars, responderVars, heartbeatVars
<1>1. CASE UNCHANGED <<clock, due, t_ms, pass>>
  BY <1>1 DEF TicksInPass
<1>2. CASE CheckHeartbeats
  BY <1>2 DEF CheckHeartbeats, TicksInPass
<1>3. CASE TrackSpawn
  BY <1>3 DEF TrackSpawn, TicksInPass
<1>4. CASE RespectTTL \/ EnforceTTL
  BY <1>4 DEF RespectTTL, EnforceTTL, NextResponder, TicksInPass
<1> QED
  BY <1>1, <1>2, <1>3, <1>4 DEF Next, vars, KickRead, KickStore, Spawn, End

LEMMA PassStep ==
  ASSUME TypeOK, PassInv, [Next]_vars
  PROVE  PassInv'
<1> USE TypeFacts, Numbers
<1>1. CASE Tick
  <2>1. SUFFICES ASSUME pass # "sleep"
                 PROVE  /\ TicksInPass' <= PassTicks
                        /\ Elapsed(clock, t_ms)' = TicksInPass'
    BY <1>1, TickCounts DEF PassInv
  <2>2. TicksInPass + 1 <= PassTicks /\ Elapsed(clock, t_ms) = TicksInPass
    BY <1>1, <2>1 DEF Tick, PassInv
  <2>3. Elapsed(clock, t_ms) + 1 < 2 ^ Width
    BY <2>2
  <2>4. Elapsed(Sum(clock, 1), t_ms) = TicksInPass + 1
    BY <2>2, <2>3, NextElapsed
  <2> QED BY <1>1, <2>2, <2>4, TickCounts
<1>2. CASE WdWake
  <2>1. TicksInPass' = 0 /\ clock' = clock /\ t_ms' = clock
    BY <1>2 DEF WdWake, TicksInPass
  <2>2. Elapsed(clock, t_ms)' = 0
    BY <2>1, ClockStamps
  <2> QED BY <2>1, <2>2 DEF PassInv
<1>3. CASE ~Tick /\ ~WdWake
  BY <1>3, ClocksRest DEF PassInv
<1> QED BY <1>1, <1>2, <1>3

LEMMA HeartbeatTick ==
  ASSUME TypeOK, NEW i \in OwnTasks, HeartbeatInv(i), Tick
  PROVE  HeartbeatInv(i)'
<1> USE TypeFacts, Numbers, TickCounts
<1>1. ASSUME kick[i] # -1
      PROVE  Elapsed(clock, kick[i])' <= MaxStall
  <2>1. kick[i] \in Stamps /\ Elapsed(clock, kick[i]) < MaxStall
    BY <1>1 DEF Tick
  <2>2. Elapsed(clock, kick[i]) \in Nat
    BY <2>1, ElapsedIsNat
  <2>3. Elapsed(clock, kick[i]) + 1 < 2 ^ Width
    BY <2>1, <2>2
  <2>4. Elapsed(Sum(clock, 1), kick[i]) = Elapsed(clock, kick[i]) + 1
    BY <2>1, <2>3, NextElapsed
  <2> QED BY <2>1, <2>2, <2>4
<1>2. ASSUME hb[i] # 0
      PROVE  LET d == Elapsed(clock, hb[i])' IN
             /\ unwarned'[i] <= d /\ d <= quiet'[i]
             /\ d <= HeartbeatLimit'
             /\ pass = "heartbeats" => TicksInPass' <= d
  <2> DEFINE d == Elapsed(clock, hb[i])
  <2>1. /\ unwarned[i] <= d /\ d <= quiet[i] /\ d <= HeartbeatLimit
        /\ pass = "heartbeats" => TicksInPass <= d
    BY <1>2 DEF HeartbeatInv, HeartbeatLimit
  <2>2. d \in Nat
    BY ElapsedIsNat
  <2>3. HeartbeatLimit \in Nat /\ HeartbeatLimit <= TIMEOUT + 2 * Period
    BY DEF HeartbeatLimit
  <2>4. HeartbeatLimit' = HeartbeatLimit + 1
    BY DEF HeartbeatLimit
  <2>5. d + 1 < 2 ^ Width
    <3> HIDE DEF d
    <3> QED BY <2>1, <2>2, <2>3
  <2>6. Elapsed(Sum(clock, 1), hb[i]) = d + 1
    BY <2>5, NextElapsed
  <2>7. /\ unwarned'[i] = IF unwarned[i] = Unseen THEN Unseen ELSE AtMost(unwarned[i] + 1, Cap)
        /\ quiet'[i] = AtMost(quiet[i] + 1, Cap)
    BY DEF Tick
  <2>8. Elapsed(clock, hb[i])' = d + 1
    BY <2>6
  <2> HIDE DEF d
  <2>9. AtMost(unwarned[i] + 1, Cap) <= d + 1 /\ d + 1 <= AtMost(quiet[i] + 1, Cap)
    BY <2>1, <2>2, <2>3 DEF AtMost
  <2>10. unwarned'[i] <= d + 1
    BY <2>2, <2>7, <2>9 DEF Unseen
  <2> QED BY <2>1, <2>2, <2>3, <2>4, <2>7, <2>8, <2>9, <2>10
<1>3. hb[i] = 0 => unwarned'[i] = Unseen
  BY DEF HeartbeatInv, Tick
<1> QED BY <1>1, <1>2, <1>3 DEF HeartbeatInv, HeartbeatLimit

LEMMA HeartbeatStep ==
  ASSUME TypeOK, PassInv, NEW i \in OwnTasks, HeartbeatInv(i), [Next]_vars
  PROVE  HeartbeatInv(i)'
<1> USE TypeFacts, Numbers DEF watchdogVars, responderVars, heartbeatVars
<1>1. CASE Tick
  BY <1>1, HeartbeatTick
<1>2. CASE WdWake
  <2>1. TicksInPass' = 0 /\ TicksInPass = Period /\ pass = "sleep" /\ pass' = "heartbeats"
    BY <1>2 DEF WdWake, TicksInPass
  <2>2. clock' = clock /\ hb' = hb /\ kick' = kick /\ quiet' = quiet /\ unwarned' = unwarned
    BY <1>2 DEF WdWake
  <2>3. Elapsed(clock, hb[i]) \in Nat
    BY ElapsedIsNat
  <2> QED BY <2>1, <2>2, <2>3 DEF HeartbeatInv, HeartbeatLimit
<1>3. ASSUME NEW j \in OwnTasks, KickRead(j)
      PROVE  HeartbeatInv(i)'
  <2>1. /\ clock' = clock /\ hb' = hb /\ quiet' = quiet /\ unwarned' = unwarned
        /\ due' = due /\ pass' = pass
    BY <1>3 DEF KickRead
  <2>2. kick'[i] = IF j = i THEN clock ELSE kick[i]
    BY <1>3 DEF KickRead, TypeOK
  <2>3. kick'[i] # -1 => Elapsed(clock, kick'[i]) <= MaxStall
    <3>1. Elapsed(clock, clock) = 0
      BY ClockStamps
    <3>2. kick[i] # -1 => Elapsed(clock, kick[i]) <= MaxStall
      BY DEF HeartbeatInv
    <3>3. 0 <= MaxStall
      OBVIOUS
    <3> QED BY <2>2, <3>1, <3>2, <3>3
  <2> QED BY <2>1, <2>3 DEF HeartbeatInv, HeartbeatLimit, TicksInPass
<1>4. ASSUME NEW j \in OwnTasks, KickStore(j)
      PROVE  HeartbeatInv(i)'
  <2>1. clock' = clock /\ due' = due /\ pass' = pass /\ pass = "sleep"
    BY <1>4 DEF KickStore, OthersRun
  <2>2. CASE j = i
    <3>1. /\ hb'[i] = kick[i] /\ kick'[i] = -1 /\ unwarned'[i] = Noted(kick[i])
          /\ quiet'[i] = Elapsed(clock, kick[i])
      BY <1>4, <2>2 DEF KickStore, TypeOK
    <3>2. kick[i] \in Stamps /\ Elapsed(clock, kick[i]) <= MaxStall
      BY <1>4, <2>2 DEF KickStore, HeartbeatInv
    <3>3. Elapsed(clock, kick[i]) \in Nat
      BY <3>2, ElapsedIsNat
    <3>4. TicksInPass' = TicksInPass
      BY <2>1 DEF TicksInPass
    <3>5. unwarned'[i] \in {-1, 0} /\ (hb'[i] = 0 => unwarned'[i] = Unseen)
      BY <3>1 DEF Noted, Unseen
    <3> QED BY <2>1, <3>1, <3>2, <3>3, <3>4, <3>5 DEF HeartbeatInv, HeartbeatLimit
  <2>3. CASE j # i
    <3>1. /\ hb'[i] = hb[i] /\ kick'[i] = kick[i] /\ unwarned'[i] = unwarned[i]
          /\ quiet'[i] = quiet[i]
      BY <1>4, <2>3 DEF KickStore, TypeOK
    <3> QED BY <2>1, <3>1 DEF HeartbeatInv, HeartbeatLimit, TicksInPass
  <2> QED BY <2>2, <2>3
<1>5. CASE CheckHeartbeats
  <2> DEFINE d == Elapsed(clock, hb[i])
  <2>1. /\ pass = "heartbeats" /\ pass' # "heartbeats" /\ clock' = clock
        /\ TicksInPass' = TicksInPass /\ kick' = kick /\ quiet' = quiet
    BY <1>5 DEF CheckHeartbeats, TicksInPass
  <2>2. /\ hb'[i] = IF TimedOut(i) THEN t_ms ELSE hb[i]
        /\ unwarned'[i] = IF TimedOut(i) THEN Noted(t_ms) ELSE unwarned[i]
    BY <1>5 DEF CheckHeartbeats
  <2>3. Elapsed(clock, t_ms) = TicksInPass
    BY <2>1 DEF PassInv
  <2>4. hb[i] # 0 => /\ unwarned[i] <= d /\ d <= quiet[i] /\ TicksInPass <= d
                     /\ Elapsed(t_ms, hb[i]) = d - TicksInPass
    BY <2>1, <2>3, ElapsedBetween DEF HeartbeatInv
  <2>5. d \in Nat
    BY ElapsedIsNat
  <2>6. hb[i] \in Nat
    BY ClockStamps
  <2>7. CASE TimedOut(i)
    <3>1. hb[i] # 0 /\ Elapsed(clock, hb'[i]) = TicksInPass
      BY <2>2, <2>3, <2>6, <2>7 DEF TimedOut
    <3>2. unwarned'[i] \in {-1, 0} /\ (hb'[i] = 0 => unwarned'[i] = Unseen)
      BY <2>2, <2>7 DEF Noted, Unseen
    <3> HIDE DEF d
    <3> QED BY <2>1, <2>2, <2>4, <2>5, <2>7, <3>1, <3>2 DEF HeartbeatInv, HeartbeatLimit
  <2>8. CASE ~TimedOut(i)
    <3>1. hb[i] # 0 => d - TicksInPass <= TIMEOUT
      BY <2>4, <2>5, <2>6, <2>8 DEF TimedOut
    <3>2. hb'[i] = hb[i] /\ unwarned'[i] = unwarned[i]
      BY <2>2, <2>8
    <3>3. Elapsed(clock, hb[i])' = d
      BY <2>1, <3>2
    <3>4. hb'[i] = 0 => unwarned'[i] = Unseen
      BY <3>2 DEF HeartbeatInv
    <3> HIDE DEF d
    <3> QED BY <2>1, <2>4, <2>5, <3>1, <3>2, <3>3, <3>4 DEF HeartbeatInv, HeartbeatLimit
  <2> QED BY <2>7, <2>8
<1>6. CASE UNCHANGED <<clock, pass, due, hb, kick, quiet, unwarned>>
  BY <1>6 DEF HeartbeatInv, HeartbeatLimit, TicksInPass
<1>7. CASE TrackSpawn
  BY <1>7 DEF TrackSpawn, HeartbeatInv, HeartbeatLimit, TicksInPass
<1>8. CASE RespectTTL \/ EnforceTTL
  BY <1>8 DEF RespectTTL, EnforceTTL, NextResponder, HeartbeatInv, HeartbeatLimit, TicksInPass
<1> QED
  BY <1>1, <1>2, <1>3, <1>4, <1>5, <1>6, <1>7, <1>8 DEF Next, vars, Spawn, End

-----------------------------------------------------------------------------
(* The spawn stamps. *)

(* track_spawn has seen a responder when its loop has passed every place of it. *)
LEMMA TrackMoves ==
  ASSUME PassType, NEW k \in TrackedOnes, TrackSpawn
  PROVE  /\ ToAge(k) /\ ToAge(k)'
         /\ Tracked[wi] = k => ~ToStamp(k)'
         /\ Tracked[wi] # k => (ToStamp(k)' <=> ToStamp(k))
<1>1. pass = "track" /\ wi \in 1 .. Len(Tracked)
  BY TrackedFacts DEF TrackSpawn, PassType
<1>2. PICK j \in 1 .. Len(Tracked) : Tracked[j] = k
  BY TrackedFacts DEF TrackedOnes
<1>3. CASE wi = Len(Tracked)
  <2>1. pass' = "ttl" /\ wi' = 1
    BY <1>3 DEF TrackSpawn
  <2>2. ~Visited(k)' /\ ~ToStamp(k)'
    BY <2>1 DEF Visited, ToStamp
  <2>3. Tracked[wi] # k => Visited(k)
    <3>1. Tracked[wi] # k => j # wi
      BY <1>2
    <3>2. Tracked[wi] # k => j \in 1 .. wi - 1
      BY <1>3, <3>1, TrackedFacts
    <3> QED BY <1>2, <3>2 DEF Visited
  <2> QED BY <1>1, <2>1, <2>2, <2>3 DEF ToStamp, ToAge
<1>4. CASE wi # Len(Tracked)
  <2>1. pass' = "track" /\ wi' = wi + 1
    BY <1>1, <1>4 DEF TrackSpawn
  <2>2. 1 .. wi' - 1 = (1 .. wi - 1) \cup {wi}
    BY <1>1, <2>1, TrackedFacts
  <2>3. Visited(k)' <=> Visited(k) \/ Tracked[wi] = k
    BY <2>2 DEF Visited
  <2> QED BY <1>1, <2>1, <2>3 DEF ToStamp, ToAge
<1> QED BY <1>3, <1>4

LEMMA TtlMoves ==
  ASSUME PassType, NEW k \in TrackedOnes, pass = "ttl", NextResponder
  PROVE  /\ ~ToStamp(k) /\ ~ToStamp(k)'
         /\ Tracked[wi] = k => ~ToAge(k)'
         /\ Tracked[wi] # k => (ToAge(k)' <=> ToAge(k))
<1>1. wi \in 1 .. Len(Tracked)
  BY TrackedFacts DEF PassType
<1>2. PICK j \in 1 .. Len(Tracked) : Tracked[j] = k
  BY TrackedFacts DEF TrackedOnes
<1>3. CASE wi = Len(Tracked)
  <2>1. pass' = "sleep"
    BY <1>3 DEF NextResponder
  <2>2. Tracked[wi] # k => Visited(k)
    <3>1. Tracked[wi] # k => j # wi
      BY <1>2
    <3>2. Tracked[wi] # k => j \in 1 .. wi - 1
      BY <1>3, <3>1, TrackedFacts
    <3> QED BY <1>2, <3>2 DEF Visited
  <2> QED BY <2>1, <2>2 DEF ToStamp, ToAge
<1>4. CASE wi # Len(Tracked)
  <2>1. pass' = "ttl" /\ wi' = wi + 1
    BY <1>4 DEF NextResponder
  <2>2. 1 .. wi' - 1 = (1 .. wi - 1) \cup {wi}
    BY <1>1, <2>1, TrackedFacts
  <2>3. Visited(k)' <=> Visited(k) \/ Tracked[wi] = k
    BY <2>2 DEF Visited
  <2> QED BY <2>1, <2>3 DEF ToStamp, ToAge
<1> QED BY <1>3, <1>4

LEMMA StampTick ==
  ASSUME TypeOK, PassInv, NEW k \in TrackedOnes, StampInv(k), UnstampedInv(k), Tick
  PROVE  StampInv(k)' /\ UnstampedInv(k)'
<1> USE TypeFacts, Numbers, TickCounts
<1>1. (ToAge(k)' <=> ToAge(k)) /\ (ToStamp(k)' <=> ToStamp(k))
  BY DEF ToAge, ToStamp, Visited
<1>2. age'[k] <= age[k] + 1
  BY DEF Tick, AtMost
<1>3. ASSUME spawn_ms[k] # 0
      PROVE  StampInv(k)'
  <2> DEFINE s == Elapsed(clock, spawn_ms[k])
  <2>1. /\ s <= held[k] /\ s <= StampLimit(k)
        /\ pass # "sleep" /\ ~ToStamp(k) => k \in present
        /\ k \in present => \/ age[k] <= s + 2 * Period
                            \/ ToAge(k) /\ s < TicksInPass /\ age[k] <= 2 * Period + TicksInPass
    BY <1>3 DEF StampInv
  <2>2. s \in Nat
    BY ElapsedIsNat
  <2>3. StampLimit(k) \in Nat /\ StampLimit(k) <= TTL + 2 * Period
    BY DEF StampLimit
  <2>4. StampLimit(k)' = StampLimit(k) + 1
    BY <1>1 DEF StampLimit
  <2>5. s + 1 < 2 ^ Width
    <3> HIDE DEF s
    <3> QED BY <2>1, <2>2, <2>3
  <2>6. s' = s + 1
    BY <2>5, NextElapsed
  <2>7. held'[k] = AtMost(held[k] + 1, Cap)
    BY DEF Tick
  <2> HIDE DEF s
  <2>8. s' <= held'[k] /\ s' <= StampLimit(k)'
    BY <2>1, <2>2, <2>3, <2>4, <2>6, <2>7 DEF AtMost
  <2>9. k \in present => \/ age'[k] <= s' + 2 * Period
                         \/ /\ ToAge(k) /\ s' < TicksInPass'
                            /\ age'[k] <= 2 * Period + TicksInPass'
    BY <1>2, <2>1, <2>2, <2>6, TypePartsNext DEF Tick, AtMost
  <2> QED BY <1>1, <2>1, <2>8, <2>9 DEF StampInv, s
<1>4. ASSUME spawn_ms[k] = 0, k \in present
      PROVE  UnstampedInv(k)'
  <2>1. clock <= 2 * Period + PassTicks => clock' = clock + 1
    <3>1. clock \in Nat /\ Elapsed(clock, 0) = clock
      BY ClockStamps
    <3>2. clock <= 2 * Period + PassTicks => Elapsed(clock, 0) + 1 < 2 ^ Width
      BY <3>1
    <3>3. Sum(clock, 1) \in Stamps
      BY NextElapsed
    <3>4. Elapsed(Sum(clock, 1), 0) = Sum(clock, 1)
      BY <3>3, ClockStamps
    <3> QED BY <3>1, <3>2, <3>4, NextElapsed, ClockStamps
  <2>2. clock \in Nat
    BY ClockStamps
  <2>3. age'[k] \in Nat
    BY DEF Tick, AtMost
  <2>4. CASE ToStamp(k)
    <3>1. pass # "sleep" /\ TicksInPass <= PassTicks
      BY <2>4 DEF ToStamp, PassInv
    <3>2. CASE age[k] <= Period + TicksInPass
      BY <1>1, <1>2, <2>3, <2>4, <3>2 DEF UnstampedInv
    <3>3. CASE age[k] <= 2 * Period + TicksInPass /\ clock - TicksInPass \in 1 .. Period
      <4>1. clock' = clock + 1
        BY <2>1, <2>2, <3>1, <3>3
      <4>2. clock' - TicksInPass' \in 1 .. Period /\ age'[k] <= 2 * Period + TicksInPass'
        BY <1>2, <2>2, <2>3, <3>3, <4>1
      <4> QED BY <1>1, <2>4, <4>2 DEF UnstampedInv
    <3> QED BY <1>4, <2>4, <3>2, <3>3 DEF UnstampedInv
  <2>5. CASE ~ToStamp(k)
    <3>1. CASE age[k] <= TicksInPass
      BY <1>1, <1>2, <2>3, <2>5, <3>1 DEF UnstampedInv
    <3>2. CASE age[k] <= Period + TicksInPass /\ TicksInPass - clock \in 0 .. PassTicks
      <4>1. clock' = clock + 1
        BY <2>1, <2>2, <3>2
      <4>2. TicksInPass' - clock' \in 0 .. PassTicks /\ age'[k] <= Period + TicksInPass'
        BY <1>2, <2>2, <2>3, <3>2, <4>1
      <4> QED BY <1>1, <2>5, <4>2 DEF UnstampedInv
    <3> QED BY <1>4, <2>5, <3>1, <3>2 DEF UnstampedInv
  <2> QED BY <2>4, <2>5
<1> QED BY <1>3, <1>4 DEF StampInv, UnstampedInv

(* track_spawn at a place of k: the first pass that meets it stamps it, unless the clock *)
(* reads 0, and then the next one does.                                                  *)
LEMMA StampTracked ==
  ASSUME TypeOK, PassInv, NEW k \in TrackedOnes, StampInv(k), UnstampedInv(k),
         TrackSpawn, Tracked[wi] = k
  PROVE  StampInv(k)' /\ UnstampedInv(k)'
<1> USE TypeFacts, Numbers
<1>1. /\ clock' = clock /\ TicksInPass' = TicksInPass /\ TicksInPass <= PassTicks
      /\ present' = present /\ age' = age /\ pass = "track"
  BY DEF TrackSpawn, TicksInPass, PassInv
<1>2. ToAge(k) /\ ToAge(k)' /\ ~ToStamp(k)' /\ StampLimit(k)' = StampLimit(k)
  BY <1>1, TrackMoves, TypeParts DEF StampLimit
<1>3. held'[k] = IF k \in present THEN held[k] ELSE 0
  BY DEF TrackSpawn, TypeOK
<1>4. spawn_ms'[k] = IF k \notin present THEN 0
                     ELSE IF spawn_ms[k] = 0 THEN clock ELSE spawn_ms[k]
  BY DEF TrackSpawn, Stamp, TypeOK
<1>5. clock \in Nat
  BY ClockStamps
<1>6. CASE k \notin present
  BY <1>1, <1>4, <1>6 DEF StampInv, UnstampedInv
<1>7. CASE k \in present /\ spawn_ms[k] # 0
  BY <1>1, <1>2, <1>3, <1>4, <1>7 DEF StampInv, UnstampedInv
<1>8. CASE k \in present /\ spawn_ms[k] = 0
  <2>1. \/ age[k] <= 2 * Period
        \/ age[k] <= 2 * Period + TicksInPass /\ clock - TicksInPass \in 1 .. Period
    BY <1>1, <1>8 DEF UnstampedInv
  <2>2. CASE clock # 0
    <3>1. spawn_ms'[k] = clock /\ Elapsed(clock, clock) = 0
      BY <1>4, <1>8, ClockStamps
    <3>2. 0 <= held'[k] /\ 0 <= StampLimit(k)'
      BY <1>2, <1>3, <1>8 DEF StampLimit
    <3>3. \/ age[k] <= 0 + 2 * Period
          \/ 0 < TicksInPass /\ age[k] <= 2 * Period + TicksInPass
      BY <2>1
    <3> QED BY <1>1, <1>2, <1>8, <2>2, <3>1, <3>2, <3>3 DEF StampInv, UnstampedInv
  <2>3. CASE clock = 0
    <3>1. spawn_ms'[k] = 0
      BY <1>4, <1>8, <2>3
    <3>2. \/ age[k] <= TicksInPass
          \/ age[k] <= Period + TicksInPass /\ TicksInPass - clock \in 0 .. PassTicks
      BY <1>1, <1>8, <2>3 DEF UnstampedInv
    <3> QED BY <1>1, <1>2, <3>1, <3>2 DEF StampInv, UnstampedInv
  <2> QED BY <2>2, <2>3
<1> QED BY <1>6, <1>7, <1>8

(* The check of the time to live at a place of k that is not killed. *)
LEMMA StampRespected ==
  ASSUME TypeOK, PassInv, NEW k \in TrackedOnes, StampInv(k), UnstampedInv(k),
         RespectTTL, Tracked[wi] = k
  PROVE  StampInv(k)' /\ UnstampedInv(k)'
<1> USE TypeFacts, Numbers DEF responderVars
<1>1. /\ clock' = clock /\ TicksInPass' = TicksInPass /\ TicksInPass <= PassTicks
      /\ present' = present /\ age' = age /\ held' = held /\ spawn_ms' = spawn_ms
      /\ pass = "ttl" /\ Elapsed(clock, t_ms) = TicksInPass
  BY DEF RespectTTL, TicksInPass, PassInv
<1>2. ~ToStamp(k) /\ ~ToStamp(k)' /\ ~ToAge(k)'
  BY TtlMoves, TypeParts DEF RespectTTL
<1>3. UnstampedInv(k)'
  BY <1>1, <1>2 DEF UnstampedInv
<1>4. ASSUME spawn_ms[k] # 0
      PROVE  StampInv(k)'
  <2> DEFINE s == Elapsed(clock, spawn_ms[k])
  <2>1. s \in Nat
    BY ElapsedIsNat
  <2>2. k \in present /\ s <= held[k]
    BY <1>1, <1>2, <1>4 DEF StampInv
  <2>3. Elapsed(t_ms, spawn_ms[k]) <= TTL
    <3>1. Elapsed(t_ms, spawn_ms[k]) \in Nat
      BY ElapsedIsNat
    <3> QED BY <1>4, <2>2, <3>1 DEF RespectTTL, Expired
  <2>4. /\ TicksInPass <= s => Elapsed(t_ms, spawn_ms[k]) = s - TicksInPass
        /\ TicksInPass > s => Elapsed(t_ms, spawn_ms[k]) = 2 ^ Width - (TicksInPass - s)
    BY <1>1, ElapsedBetween
  <2>5. age[k] <= s + 2 * Period \/ s < TicksInPass
    BY <1>4, <2>2 DEF StampInv
  <2> HIDE DEF s
  <2>6. TicksInPass <= s /\ s <= TTL + TicksInPass
    BY <2>1, <2>3, <2>4
  <2>7. s' = s
    BY <1>1 DEF s
  <2>8. StampLimit(k)' = TTL + TicksInPass
    BY <1>1, <1>2 DEF StampLimit
  <2>9. age[k] <= s + 2 * Period
    BY <2>1, <2>5, <2>6
  <2>10. s' <= StampLimit(k)'
    BY <2>6, <2>7, <2>8
  <2> QED BY <1>1, <1>2, <2>2, <2>7, <2>9, <2>10 DEF StampInv, s
<1> QED BY <1>1, <1>3, <1>4 DEF StampInv

LEMMA StampStep ==
  ASSUME TypeOK, PassInv, NEW k \in TrackedOnes, StampInv(k), UnstampedInv(k), [Next]_vars
  PROVE  StampInv(k)' /\ UnstampedInv(k)'
<1> USE TypeFacts, Numbers DEF watchdogVars, responderVars, heartbeatVars
<1>1. CASE Tick
  BY <1>1, StampTick
<1>2. CASE WdWake
  <2>1. /\ pass = "sleep" /\ pass' = "heartbeats" /\ TicksInPass = Period /\ TicksInPass' = 0
        /\ clock' = clock /\ present' = present /\ age' = age /\ held' = held
        /\ spawn_ms' = spawn_ms
    BY <1>2 DEF WdWake, TicksInPass
  <2>2. ~ToStamp(k) /\ ~ToAge(k) /\ ToStamp(k)' /\ ToAge(k)'
    BY <2>1 DEF ToStamp, ToAge
  <2>3. StampLimit(k)' = StampLimit(k)
    BY <2>1, <2>2 DEF StampLimit
  <2>4. StampInv(k)'
    BY <2>1, <2>2, <2>3 DEF StampInv
  <2>5. UnstampedInv(k)'
    <3>1. clock \in Nat
      BY ClockStamps
    <3> QED BY <2>1, <2>2, <3>1 DEF UnstampedInv
  <2> QED BY <2>4, <2>5
<1>3. ASSUME NEW j \in Responders, Spawn(j) \/ End(j)
      PROVE  StampInv(k)' /\ UnstampedInv(k)'
  <2>1. /\ pass = "sleep" /\ pass' = pass /\ clock' = clock /\ held' = held
        /\ due' = due /\ spawn_ms' = spawn_ms
    BY <1>3 DEF Spawn, End, OthersRun
  <2>2. ~ToStamp(k) /\ ~ToAge(k) /\ ~ToStamp(k)' /\ ~ToAge(k)' /\ TicksInPass' = TicksInPass
    BY <2>1 DEF ToStamp, ToAge, TicksInPass
  <2>3. StampLimit(k)' = StampLimit(k)
    BY <2>2 DEF StampLimit
  <2>4. k \in present' => (k \in present /\ age'[k] = age[k]) \/ age'[k] = 0
    BY <1>3 DEF Spawn, End, TypeOK
  <2>5. Elapsed(clock, spawn_ms[k]) \in Nat
    BY ElapsedIsNat
  <2> QED BY <2>1, <2>2, <2>3, <2>4, <2>5 DEF StampInv, UnstampedInv
<1>4. CASE CheckHeartbeats
  <2>1. pass = "heartbeats" /\ pass' = "track" /\ wi' = 1
    BY <1>4 DEF CheckHeartbeats, TrackedOnes
  <2>2. ToStamp(k) /\ ToAge(k) /\ ToStamp(k)' /\ ToAge(k)'
    BY <2>1 DEF ToStamp, ToAge, Visited
  <2>3. UNCHANGED <<clock, due, present, spawn_ms, age, held>>
    BY <1>4 DEF CheckHeartbeats
  <2> QED BY <2>1, <2>2, <2>3 DEF StampInv, UnstampedInv, StampLimit, TicksInPass
<1>5. CASE TrackSpawn
  <2>1. CASE Tracked[wi] = k
    BY <1>5, <2>1, StampTracked
  <2>2. CASE Tracked[wi] # k
    <3>1. ToAge(k) /\ ToAge(k)' /\ (ToStamp(k)' <=> ToStamp(k)) /\ pass = "track"
      BY <1>5, <2>2, TrackMoves, TypeParts DEF TrackSpawn
    <3>2. UNCHANGED <<clock, due, present, age>> /\ spawn_ms'[k] = spawn_ms[k] /\ held'[k] = held[k]
      BY <1>5, <2>2 DEF TrackSpawn, Stamp, TypeOK
    <3>3. UNCHANGED TicksInPass
      BY <3>2 DEF TicksInPass
    <3> QED BY <3>1, <3>2, <3>3 DEF StampInv, UnstampedInv, StampLimit
  <2> QED BY <2>1, <2>2
<1>6. CASE RespectTTL \/ EnforceTTL
  <2>1. pass = "ttl" /\ NextResponder /\ UNCHANGED <<clock, due>>
    BY <1>6 DEF RespectTTL, EnforceTTL
  <2>2. CASE Tracked[wi] = k /\ RespectTTL
    BY <2>2, StampRespected
  <2>3. CASE Tracked[wi] = k /\ EnforceTTL
    <3>1. spawn_ms'[k] = 0 /\ k \notin present'
      BY <2>3 DEF EnforceTTL, KillResponder, TypeOK
    <3> QED BY <3>1 DEF StampInv, UnstampedInv
  <2>4. CASE Tracked[wi] # k
    <3>1. ~ToStamp(k) /\ ~ToStamp(k)' /\ (ToAge(k)' <=> ToAge(k))
      BY <2>1, <2>4, TtlMoves, TypeParts
    <3>2. /\ age' = age /\ (k \in present' <=> k \in present)
          /\ spawn_ms'[k] = spawn_ms[k] /\ held'[k] = held[k]
      BY <1>6, <2>4 DEF RespectTTL, EnforceTTL, KillResponder, TypeOK
    <3>3. UNCHANGED TicksInPass
      BY <2>1 DEF TicksInPass
    <3> QED BY <2>1, <3>1, <3>2, <3>3 DEF StampInv, UnstampedInv, StampLimit
  <2> QED BY <1>6, <2>2, <2>3, <2>4
<1>7. CASE UNCHANGED <<clock, due, pass, wi, present, spawn_ms, age, held>>
  BY <1>7 DEF StampInv, UnstampedInv, StampLimit, ToAge, ToStamp, Visited, TicksInPass
<1> QED
  BY <1>1, <1>2, <1>3, <1>4, <1>5, <1>6, <1>7 DEF Next, vars, KickRead, KickStore

-----------------------------------------------------------------------------
(* The results. *)

LEMMA InitHolds ==
  ASSUME Init
  PROVE  IInv
<1>1. TypeOK
  BY TypeOKInit
<1>2. \A k \in TrackedOnes : spawn_ms[k] = 0 /\ k \notin present
  BY <1>1, TypeFacts DEF Init
<1>3. \A i \in OwnTasks : kick[i] = -1 /\ hb[i] = 0 /\ unwarned[i] = Unseen
  BY DEF Init
<1>4. PassInv
  BY DEF Init, PassInv
<1> QED BY <1>1, <1>2, <1>3, <1>4 DEF IInv, HeartbeatInv, StampInv, UnstampedInv

LEMMA StepHolds ==
  ASSUME IInv, [Next]_vars
  PROVE  IInv'
<1>1. TypeOK' /\ PassInv'
  BY TypeOKStep, PassStep DEF IInv
<1>2. ASSUME NEW i \in OwnTasks PROVE HeartbeatInv(i)'
  BY HeartbeatStep DEF IInv
<1>3. ASSUME NEW k \in TrackedOnes PROVE StampInv(k)' /\ UnstampedInv(k)'
  BY StampStep DEF IInv
<1>4. (\A i \in OwnTasks : HeartbeatInv(i))'
  BY <1>2
<1>5. (\A k \in TrackedOnes : StampInv(k) /\ UnstampedInv(k))'
  <2>1. TrackedOnes' = TrackedOnes
    BY DEF TrackedOnes
  <2> QED BY <1>3, <2>1
<1> QED BY <1>1, <1>4, <1>5 DEF IInv

(* The times the watchdog keeps are consistent in every reachable state. *)
THEOREM Invariance == Spec => []IInv
<1>1. Init => IInv
  BY InitHolds
<1>2. IInv /\ [Next]_vars => IInv'
  BY StepHolds
<1> QED BY <1>1, <1>2, PTL DEF Spec

(* Every variable keeps its type: no history overruns its cap. *)
THEOREM TypeCorrect == Spec => []TypeOK
<1>1. IInv => TypeOK
  BY DEF IInv
<1> QED BY <1>1, Invariance, PTL

(* README: "Responder alive > 10 s without recovery -> killed", with the periods it takes. *)
THEOREM KillsInTime == Spec => []KilledInTime
<1>1. ASSUME IInv, NEW k \in TrackedOnes, k \in present
      PROVE  age[k] <= TTL + 3 * Period + PassTicks
  <2> USE TypeFacts, Numbers DEF IInv
  <2>1. pass # "sleep" => TicksInPass <= PassTicks
    BY <1>1 DEF PassInv
  <2>2. ToAge(k) \/ ToStamp(k) => pass # "sleep"
    BY DEF ToAge, ToStamp
  <2>3. CASE spawn_ms[k] # 0
    <3> DEFINE s == Elapsed(clock, spawn_ms[k])
    <3>1. s \in Nat
      BY <1>1, ElapsedIsNat
    <3>2. /\ s <= StampLimit(k)
          /\ \/ age[k] <= s + 2 * Period
             \/ age[k] <= 2 * Period + TicksInPass
      BY <1>1, <2>3 DEF StampInv
    <3>3. StampLimit(k) <= TTL + Period + PassTicks /\ StampLimit(k) \in Nat
      BY <1>1, <2>1, <2>2 DEF StampLimit
    <3> HIDE DEF s
    <3> QED BY <1>1, <3>1, <3>2, <3>3
  <2>4. CASE spawn_ms[k] = 0
    <3>1. age[k] <= 2 * Period + TicksInPass
      BY <1>1, <2>4 DEF UnstampedInv
    <3> QED BY <1>1, <3>1
  <2> QED BY <2>3, <2>4
<1>2. IInv => KilledInTime
  BY <1>1 DEF KilledInTime, TrackedOnes
<1> QED BY <1>2, Invariance, PTL

(* A task that stops kicking is noticed, and noticed again, unless its last kick or the  *)
(* last alert for it was read at clock 0.  That exemption speaks of what was read, not  *)
(* of the stamp the watchdog looks at: that no other history leaves a stamp of 0, or one *)
(* that passes for new, is what the invariant says.                                      *)
THEOREM NoticesSilence == Spec => []SilenceIsNoticed
<1>1. ASSUME IInv, NEW i \in OwnTasks, unwarned[i] # Unseen
      PROVE  unwarned[i] <= TIMEOUT + Period + PassTicks
  <2> USE TypeFacts, Numbers DEF IInv
  <2>1. pass # "sleep" => TicksInPass <= PassTicks
    BY <1>1 DEF PassInv
  <2>2. hb[i] # 0
    BY <1>1 DEF HeartbeatInv
  <2>3. /\ unwarned[i] <= Elapsed(clock, hb[i])
        /\ Elapsed(clock, hb[i]) <= HeartbeatLimit
    BY <1>1, <2>2 DEF HeartbeatInv
  <2>4. HeartbeatLimit <= TIMEOUT + Period + PassTicks /\ HeartbeatLimit \in Nat
    BY <1>1, <2>1 DEF HeartbeatLimit
  <2>5. Elapsed(clock, hb[i]) \in Nat
    BY <1>1, ElapsedIsNat
  <2> QED BY <1>1, <2>3, <2>4, <2>5
<1>2. IInv => SilenceIsNoticed
  BY <1>1 DEF SilenceIsNoticed
<1> QED BY <1>2, Invariance, PTL

(* No healthy task is reported frozen, whenever the 32-bit clock wraps. *)
THEOREM AlertsAreTrue == Spec => NoFalseAlarm
<1>1. ASSUME IInv, [Next]_vars, NEW i \in OwnTasks, pass = "heartbeats", hb'[i] # hb[i]
      PROVE  quiet[i] - TicksInPass > TIMEOUT
  <2> USE TypeFacts, Numbers DEF IInv, watchdogVars, heartbeatVars
  <2>1. CheckHeartbeats
    BY <1>1 DEF Next, vars, Tick, KickRead, KickStore, OthersRun, Spawn, End, WdWake,
                TrackSpawn, RespectTTL, EnforceTTL
  <2>2. hb[i] > 0 /\ Elapsed(t_ms, hb[i]) > TIMEOUT
    BY <1>1, <2>1 DEF CheckHeartbeats, TimedOut
  <2>3. /\ TicksInPass <= Elapsed(clock, hb[i]) /\ Elapsed(clock, hb[i]) <= quiet[i]
        /\ Elapsed(clock, t_ms) = TicksInPass
    BY <1>1, <2>2, ClockStamps DEF HeartbeatInv, PassInv
  <2>4. Elapsed(t_ms, hb[i]) = Elapsed(clock, hb[i]) - TicksInPass
    BY <1>1, <2>3, ElapsedBetween
  <2>5. Elapsed(clock, hb[i]) \in Nat
    BY <1>1, ElapsedIsNat
  <2> QED BY <1>1, <2>2, <2>3, <2>4, <2>5
<1>2. IInv /\ [Next]_vars =>
        [\A i \in OwnTasks :
           pass = "heartbeats" /\ hb'[i] # hb[i] => quiet[i] - TicksInPass > TIMEOUT]_vars
  BY <1>1
<1> QED BY <1>2, Invariance, PTL DEF Spec, NoFalseAlarm

(* The watchdog kills no responder whose place has not been taken for a time to live. *)
THEOREM KillsAreDue == Spec => KillIsDue
<1>1. ASSUME IInv, [Next]_vars, NEW k \in TrackedOnes,
             pass = "ttl", k \in present \ present', ~StampAhead(k)
      PROVE  held[k] > TTL
  <2> USE TypeFacts, Numbers DEF IInv, watchdogVars, responderVars
  <2>1. EnforceTTL
    BY <1>1 DEF Next, vars, Tick, KickRead, KickStore, OthersRun, Spawn, End, WdWake,
                CheckHeartbeats, TrackSpawn, RespectTTL
  <2>2. Expired(k)
    BY <1>1, <2>1 DEF EnforceTTL, KillResponder
  <2>3. spawn_ms[k] # 0 /\ Elapsed(t_ms, spawn_ms[k]) > TTL
    BY <2>2 DEF Expired
  <2>4. /\ Elapsed(clock, spawn_ms[k]) <= held[k]
        /\ Elapsed(clock, t_ms) = TicksInPass /\ TicksInPass <= PassTicks
    BY <1>1, <2>3 DEF StampInv, PassInv
  <2>5. Elapsed(clock, spawn_ms[k]) \in Nat /\ Elapsed(spawn_ms[k], t_ms) \in Nat
    BY <1>1, ElapsedIsNat
  <2>6. TicksInPass <= Elapsed(clock, spawn_ms[k])
    <3>1. TicksInPass > Elapsed(clock, spawn_ms[k]) =>
            Elapsed(spawn_ms[k], t_ms) = TicksInPass - Elapsed(clock, spawn_ms[k])
      BY <1>1, <2>4, ElapsedBetween
    <3> QED BY <1>1, <2>4, <2>5, <3>1 DEF StampAhead
  <2>7. Elapsed(t_ms, spawn_ms[k]) = Elapsed(clock, spawn_ms[k]) - TicksInPass
    BY <1>1, <2>4, <2>6, ElapsedBetween
  <2> QED BY <1>1, <2>3, <2>4, <2>5, <2>7
<1>2. IInv /\ [Next]_vars =>
        [\A i \in DOMAIN Tracked :
           LET k == Tracked[i] IN
           pass = "ttl" /\ k \in present \ present' /\ ~StampAhead(k) => held[k] > TTL]_vars
  BY <1>1 DEF TrackedOnes
<1> QED BY <1>2, Invariance, PTL DEF Spec, KillIsDue
=============================================================================
