----------------------------- MODULE TimerProofs -----------------------------
(***************************************************************************)
(* Proofs about Timer for any timers, durations and width of rt_tick_t:    *)
(* the list stays in the order of the deadlines across the wraparound, no  *)
(* timer is overdue between two ticks, and the timers implement the        *)
(* countdown of TimerService.                                              *)
(***************************************************************************)
EXTENDS Timer, ListLemmas

Tick == 0 .. RT_TICK_MAX

TimerType ==
  /\ inited \subseteq Timer
  /\ activated \in [Timer -> BOOLEAN] /\ periodic \in [Timer -> BOOLEAN]
  /\ init_tick \in [Timer -> Times] /\ timeout_tick \in [Timer -> Tick]
  /\ _timer_list \in Seq(Timer)
  /\ rt_tick \in Tick
  /\ isr \in {"none", "check", "callback"}
  /\ running \in Timer
  /\ stopping \subseteq inited

\* A timer in the list is initialised and active, and its node is there once.
ListedActive ==
  /\ IsInjective(_timer_list)
  /\ \A t \in ToSet(_timer_list) : t \in inited /\ activated[t]

\* The local list of rt_timer_check holds the timer whose callback runs, or nothing.
LocalList ==
  list # <<>> => /\ list = <<running>> /\ isr = "callback"
                 /\ running \in inited \ ToSet(_timer_list)

Dist == [t \in Timer |-> Distance(t)]

\* The list is in the order of the deadlines.
InOrder == OrderedBy(_timer_list, Dist)

\* A listed timer is at most one tick late, and only while the interrupt runs.
InTime ==
  \A t \in ToSet(_timer_list) :
    Distance(t) < Half /\ Distance(t) >= (IF isr = "none" THEN 0 ELSE -1)

TimerInv == TimerType /\ ListedActive /\ LocalList /\ InOrder /\ InTime

\* What holds in addition if no callback turns its own timer into a one-shot timer.
ActiveAccounted ==
  /\ \A t \in Timer : activated[t] => Listed(t) \/ list = <<t>>
  /\ list # <<>> /\ activated[running] => periodic[running]

-----------------------------------------------------------------------------
(***************************************************************************)
(* Arithmetic modulo TickMod.                                              *)
(***************************************************************************)

\* % for numbers that one addition or subtraction of the modulus brings in range.
LEMMA ModFacts ==
  ASSUME NEW m \in Nat, m > 0, NEW x \in Int
  PROVE  /\ 0 <= x /\ x < m => x % m = x
         /\ x < 0 /\ -m <= x => x % m = x + m
         /\ m <= x /\ x < m + m => x % m = x - m
  OBVIOUS

\* RT_TICK_MAX / 2 leaves room for two distances below the modulus.
LEMMA HalfFacts ==
  /\ TickMod \in Nat /\ TickMod >= 8
  /\ Half \in Nat /\ Half >= 3 /\ 2 * Half < TickMod
  /\ Tick = 0 .. TickMod - 1
  BY TickAssumption DEF Half, RT_TICK_MAX, Tick

\* The ticks from y to x, the shorter way around.
Gap(x, y) == LET d == Minus(x, y) IN IF d < Half THEN d ELSE d - TickMod

\* A difference of ticks without the modulus.
LEMMA MinusFacts ==
  ASSUME NEW x \in Tick, NEW y \in Tick
  PROVE  /\ Minus(x, y) = IF y <= x THEN x - y ELSE x - y + TickMod
         /\ Minus(x, y) \in Tick
<1>1. /\ x - y \in Int /\ -TickMod <= x - y /\ x - y < TickMod /\ TickMod > 0
      /\ TickMod \in Nat
  BY HalfFacts
<1>2. (x - y) % TickMod = IF 0 <= x - y THEN x - y ELSE x - y + TickMod
  BY <1>1, ModFacts
<1> QED
  BY <1>2, HalfFacts DEF Minus

\* The tick of a timer that starts now, and of the next interrupt.
LEMMA PlusFacts ==
  ASSUME NEW y \in Tick, NEW n \in 0 .. TickMod - 1
  PROVE  /\ (y + n) % TickMod = IF y + n < TickMod THEN y + n ELSE y + n - TickMod
         /\ (y + n) % TickMod \in Tick
<1>1. /\ y + n \in Int /\ 0 <= y + n /\ y + n < TickMod + TickMod /\ TickMod > 0
      /\ TickMod \in Nat
  BY HalfFacts
<1>2. y + n < TickMod => (y + n) % TickMod = y + n
  BY <1>1, ModFacts
<1>3. TickMod <= y + n => (y + n) % TickMod = (y + n) - TickMod
  BY <1>1, ModFacts
<1> QED
  BY <1>1, <1>2, <1>3, HalfFacts

\* A timer started with time n expires in n ticks.
LEMMA GapOfStart ==
  ASSUME NEW y \in Tick, NEW n \in Times
  PROVE  /\ n \in Int /\ 0 <= n /\ n < Half
         /\ (y + n) % TickMod \in Tick
         /\ Gap((y + n) % TickMod, y) = n
<1>1. n \in Int /\ 0 <= n /\ n < Half /\ n \in 0 .. TickMod - 1
  BY TimesAssumption, HalfFacts
<1> DEFINE k == (y + n) % TickMod
<1>2. k \in Tick /\ k = IF y + n < TickMod THEN y + n ELSE y + n - TickMod
  BY <1>1, PlusFacts
<1> HIDE DEF k
<1>3. Minus(k, y) = IF y <= k THEN k - y ELSE k - y + TickMod
  BY <1>2, MinusFacts
<1>4. Gap(k, y) = n
  BY <1>1, <1>2, <1>3, HalfFacts DEF Gap
<1> QED
  BY <1>1, <1>2, <1>4 DEF k

\* "t->timeout_tick - timer->timeout_tick" below RT_TICK_MAX / 2 and not 0: the
\* timer in the list expires later.
LEMMA GapLater ==
  ASSUME NEW x \in Tick, NEW y \in Tick, NEW n \in Times, Gap(x, y) < Half,
         Gap(x, y) >= -1
  PROVE  LET d == Minus(x, (y + n) % TickMod)
         IN  (d # 0 /\ d < Half) <=> n < Gap(x, y)
<1>1. n \in Int /\ 0 <= n /\ n < Half /\ n \in 0 .. TickMod - 1
  BY TimesAssumption, HalfFacts
<1> DEFINE k == (y + n) % TickMod
<1>2. k \in Tick /\ k = IF y + n < TickMod THEN y + n ELSE y + n - TickMod
  BY <1>1, PlusFacts
<1> HIDE DEF k
<1>3. Minus(x, k) = IF k <= x THEN x - k ELSE x - k + TickMod
  BY <1>2, MinusFacts
<1>4. Minus(x, y) = IF y <= x THEN x - y ELSE x - y + TickMod
  BY MinusFacts
<1>5. (Minus(x, k) # 0 /\ Minus(x, k) < Half) <=> n < Gap(x, y)
  BY <1>1, <1>2, <1>3, <1>4, HalfFacts DEF Gap
<1> QED
  BY <1>5 DEF k

\* "current_tick - t->timeout_tick" below RT_TICK_MAX / 2: the timer is due.
LEMMA GapExpired ==
  ASSUME NEW x \in Tick, NEW y \in Tick, Gap(x, y) < Half, Gap(x, y) >= -1
  PROVE  Minus(y, x) < Half <=> Gap(x, y) <= 0
<1>1. Minus(x, y) = IF y <= x THEN x - y ELSE x - y + TickMod
  BY MinusFacts
<1>2. Minus(y, x) = IF x <= y THEN y - x ELSE y - x + TickMod
  BY MinusFacts
<1> QED
  BY <1>1, <1>2, HalfFacts DEF Gap

\* A tick brings each deadline nearer by one.
LEMMA GapTick ==
  ASSUME NEW x \in Tick, NEW y \in Tick, Gap(x, y) < Half, Gap(x, y) >= 0
  PROVE  (y + 1) % TickMod \in Tick /\ Gap(x, (y + 1) % TickMod) = Gap(x, y) - 1
<1> DEFINE k == (y + 1) % TickMod
<1>2. k \in Tick /\ k = IF y + 1 < TickMod THEN y + 1 ELSE y + 1 - TickMod
  BY PlusFacts, HalfFacts
<1> HIDE DEF k
<1>3. Minus(x, k) = IF k <= x THEN x - k ELSE x - k + TickMod
  BY <1>2, MinusFacts
<1>4. Minus(x, y) = IF y <= x THEN x - y ELSE x - y + TickMod
  BY MinusFacts
<1>5. Gap(x, k) = Gap(x, y) - 1
  BY <1>2, <1>3, <1>4, HalfFacts DEF Gap
<1> QED
  BY <1>2, <1>5 DEF k

-----------------------------------------------------------------------------
(***************************************************************************)
(* What the operations do to the list.                                     *)
(***************************************************************************)

\* Distances are integers.
LEMMA DistFacts ==
  ASSUME TimerType
  PROVE  /\ \A t \in Timer : /\ Distance(t) = Gap(timeout_tick[t], rt_tick)
                             /\ Distance(t) \in Int
                             /\ Dist[t] = Distance(t)
         /\ Dist \in [Timer -> Int]
<1>1. \A t \in Timer : Distance(t) = Gap(timeout_tick[t], rt_tick)
  BY DEF Distance, Gap
<1>2. ASSUME NEW t \in Timer
      PROVE  Distance(t) \in Int
  <2>1. timeout_tick[t] \in Tick /\ rt_tick \in Tick
    BY DEF TimerType
  <2>2. Minus(timeout_tick[t], rt_tick) \in Tick
    BY <2>1, MinusFacts
  <2>3. Minus(timeout_tick[t], rt_tick) \in Int
    BY <2>2, HalfFacts
  <2> QED
    BY <2>3, HalfFacts DEF Distance
<1> QED
  BY <1>1, <1>2 DEF Dist

\* "d # 0 && d < RT_TICK_MAX / 2" in the search of rt_timer_start.
Later(u, tick) == LET d == Minus(timeout_tick[u], tick) IN d # 0 /\ d < Half

\* Inserted goes by a number of the timers if Later does.
LEMMA InsertedByRank ==
  ASSUME NEW s \in Seq(Timer), NEW t \in Timer, NEW tick, NEW rank \in [Timer -> Int],
         \A i \in 1 .. Len(s) : Later(s[i], tick) <=> rank[t] < rank[s[i]]
  PROVE  LET r == Inserted(s, t, tick)
         IN  /\ r \in Seq(Timer) /\ ToSet(r) = ToSet(s) \cup {t}
             /\ IsInjective(s) /\ t \notin ToSet(s) => IsInjective(r)
             /\ OrderedBy(s, rank) => OrderedBy(r, rank)
<1> DEFINE I == {i \in 1 .. Len(s) : Later(s[i], tick)}
           r == IF I = {} THEN Append(s, t) ELSE InsertAt(s, Min(I), t)
<1>1. I # {} => Min(I) # 0
  <2>1. I \subseteq Nat /\ 0 \notin I
    OBVIOUS
  <2> QED
    BY <2>1, MinFacts
<1>2. SelectInSeq(s, LAMBDA u : Later(u, tick)) = IF I # {} THEN Min(I) ELSE 0
  BY DEF SelectInSeq
<1>3. Inserted(s, t, tick) = r
  BY <1>1, <1>2 DEF Inserted, Later
<1>4. \A i : i \in I <=> i \in 1 .. Len(s) /\ rank[t] < rank[s[i]]
  OBVIOUS
<1> HIDE DEF I
<1>5. /\ r \in Seq(Timer) /\ r # <<>>
      /\ ToSet(r) = ToSet(s) \cup {t}
      /\ IsInjective(s) /\ t \notin ToSet(s) => IsInjective(r)
      /\ OrderedBy(s, rank) => OrderedBy(r, rank)
  BY <1>4, InsertByRank
<1> QED
  BY <1>3, <1>5

\* Inserted puts a timer that expires n ticks from now at its place.
LEMMA InsertedFacts ==
  ASSUME NEW s \in Seq(Timer), IsInjective(s), NEW t \in Timer, t \notin ToSet(s),
         NEW n \in Times, rt_tick \in Tick, timeout_tick \in [Timer -> Tick],
         NEW rank \in [Timer -> Int], rank[t] = n, OrderedBy(s, rank),
         \A u \in ToSet(s) : /\ rank[u] = Gap(timeout_tick[u], rt_tick)
                             /\ rank[u] < Half /\ rank[u] >= -1
  PROVE  LET r == Inserted(s, t, (rt_tick + n) % TickMod)
         IN  /\ r \in Seq(Timer) /\ IsInjective(r)
             /\ ToSet(r) = ToSet(s) \cup {t}
             /\ OrderedBy(r, rank)
<1> DEFINE tick == (rt_tick + n) % TickMod
<1>1. ASSUME NEW i \in 1 .. Len(s)
      PROVE  Later(s[i], tick) <=> rank[t] < rank[s[i]]
  <2>1. s[i] \in ToSet(s) /\ s[i] \in Timer
    BY DEF ToSet
  <2>2. timeout_tick[s[i]] \in Tick
    BY <2>1
  <2>3. /\ rank[s[i]] = Gap(timeout_tick[s[i]], rt_tick) /\ rank[s[i]] < Half
        /\ rank[s[i]] >= -1
    BY <2>1
  <2> QED
    BY <2>2, <2>3, GapLater DEF Later
<1> HIDE DEF tick
<1>2. LET r == Inserted(s, t, tick)
      IN  /\ r \in Seq(Timer) /\ ToSet(r) = ToSet(s) \cup {t}
          /\ IsInjective(s) /\ t \notin ToSet(s) => IsInjective(r)
          /\ OrderedBy(s, rank) => OrderedBy(r, rank)
  BY <1>1, InsertedByRank
<1> QED
  BY <1>2 DEF tick

\* _timer_remove from the local list of rt_timer_check.
LEMMA LocalRemoved ==
  ASSUME TimerType, LocalList, NEW t \in Timer
  PROVE  RemoveFirst(list, t) = IF list = <<t>> THEN <<>> ELSE list
<1>1. CASE list = <<>>
  BY <1>1 DEF RemoveFirst
<1>2. CASE list = <<running>>
  <2>1. list \in Seq(Timer) /\ IsInjective(list) /\ ToSet(list) = {running}
    BY <1>2 DEF TimerType, IsInjective, ToSet
  <2>2. /\ RemoveFirst(list, t) \in Seq(Timer)
        /\ ToSet(RemoveFirst(list, t)) = ToSet(list) \ {t}
    BY <2>1, RemoveFirstFacts
  <2>3. CASE t = running
    BY <1>2, <2>1, <2>2, <2>3, EmptyFacts
  <2>4. CASE t # running
    BY <1>2, <2>4 DEF RemoveFirst
  <2> QED
    BY <2>3, <2>4
<1> QED
  BY <1>1, <1>2 DEF LocalList

\* Restarted moves one timer and sets its deadline.
LEMMA RestartedFacts ==
  ASSUME TimerInv, NEW t \in Timer, Restarted(t), rt_tick' = rt_tick
  PROVE  /\ _timer_list' \in Seq(Timer) /\ IsInjective(_timer_list')
         /\ ToSet(_timer_list') = ToSet(_timer_list) \cup {t}
         /\ timeout_tick' \in [Timer -> Tick]
         /\ Distance(t)' = init_tick[t] /\ init_tick[t] \in Int
         /\ 0 <= init_tick[t] /\ init_tick[t] < Half
         /\ \A u \in Timer \ {t} : Distance(u)' = Distance(u)
         /\ InOrder'
         /\ list' = IF list = <<t>> THEN <<>> ELSE list
<1> DEFINE n == init_tick[t]
           s == RemoveFirst(_timer_list, t)
<1>1. n \in Times /\ rt_tick \in Tick /\ timeout_tick \in [Timer -> Tick]
  BY DEF TimerInv, TimerType
<1>2. /\ n \in Int /\ 0 <= n /\ n < Half
      /\ (rt_tick + n) % TickMod \in Tick
      /\ Gap((rt_tick + n) % TickMod, rt_tick) = n
  BY <1>1, GapOfStart
<1>3. /\ timeout_tick' = [timeout_tick EXCEPT ![t] = (rt_tick + n) % TickMod]
      /\ _timer_list' = Inserted(s, t, (rt_tick + n) % TickMod)
      /\ list' = RemoveFirst(list, t)
  BY DEF Restarted
<1>4. timeout_tick' \in [Timer -> Tick]
  BY <1>1, <1>2, <1>3
<1>5. /\ Distance(t)' = n
      /\ \A u \in Timer \ {t} : Distance(u)' = Distance(u)
  BY <1>1, <1>2, <1>3 DEF Distance, Gap
<1>6. s \in Seq(Timer) /\ IsInjective(s) /\ ToSet(s) = ToSet(_timer_list) \ {t}
  BY RemoveFirstFacts DEF TimerInv, TimerType, ListedActive
<1>7. OrderedBy(s, Dist)
  BY RemoveFirstOrdered DEF TimerInv, TimerType, ListedActive, InOrder
<1>8. Dist \in [Timer -> Int] /\ \A u \in Timer : Dist[u] = Gap(timeout_tick[u], rt_tick)
  BY DistFacts DEF TimerInv
<1>9. \A u \in ToSet(s) : u \in Timer /\ u # t /\ Dist[u] < Half /\ Dist[u] >= -1
  <2>1. \A u \in ToSet(s) : u \in ToSet(_timer_list) /\ u # t
    BY <1>6
  <2>2. \A u \in ToSet(s) : u \in Timer
    BY <1>6 DEF ToSet
  <2>3. \A u \in ToSet(_timer_list) : Distance(u) < Half /\ (Distance(u) >= 0 \/ Distance(u) >= -1)
    BY DEF TimerInv, InTime
  <2> QED
    BY <2>1, <2>2, <2>3, DistFacts DEF TimerInv
<1> DEFINE rank == [Dist EXCEPT ![t] = n]
<1>10. /\ rank \in [Timer -> Int] /\ rank[t] = n
       /\ \A u \in Timer \ {t} : rank[u] = Dist[u]
  BY <1>2, <1>8
<1>11. rank = Dist'
  BY <1>5, <1>8, <1>10 DEF Dist
<1> HIDE DEF rank
<1>12. OrderedBy(s, rank)
  BY <1>6, <1>7, <1>9, <1>10, OrderedSame
<1>13. \A u \in ToSet(s) : /\ rank[u] = Gap(timeout_tick[u], rt_tick)
                           /\ rank[u] < Half /\ rank[u] >= -1
  BY <1>8, <1>9, <1>10
<1> HIDE DEF s, n
<1>14. /\ _timer_list' \in Seq(Timer) /\ IsInjective(_timer_list')
       /\ ToSet(_timer_list') = ToSet(s) \cup {t}
       /\ OrderedBy(_timer_list', rank)
  BY <1>1, <1>3, <1>6, <1>10, <1>12, <1>13, InsertedFacts
<1>15. list' = IF list = <<t>> THEN <<>> ELSE list
  BY <1>3, LocalRemoved DEF TimerInv
<1> QED
  BY <1>2, <1>4, <1>5, <1>6, <1>11, <1>14, <1>15 DEF InOrder, n

\* _timer_remove takes one timer out.
LEMMA RemovedFacts ==
  ASSUME TimerInv, NEW t \in Timer, _timer_remove(t), UNCHANGED <<timeout_tick, rt_tick>>
  PROVE  /\ _timer_list' \in Seq(Timer) /\ IsInjective(_timer_list')
         /\ ToSet(_timer_list') = ToSet(_timer_list) \ {t}
         /\ \A u \in Timer : Distance(u)' = Distance(u)
         /\ InOrder'
         /\ list' = IF list = <<t>> THEN <<>> ELSE list
<1>1. \A u \in Timer : Distance(u)' = Distance(u)
  BY DEF Distance
<1>2. Dist' = Dist
  BY <1>1 DEF Dist
<1>3. /\ _timer_list' \in Seq(Timer) /\ IsInjective(_timer_list')
      /\ ToSet(_timer_list') = ToSet(_timer_list) \ {t}
  BY RemoveFirstFacts DEF TimerInv, TimerType, ListedActive, _timer_remove
<1>4. OrderedBy(_timer_list', Dist)
  BY RemoveFirstOrdered DEF TimerInv, TimerType, ListedActive, InOrder, _timer_remove
<1>5. list' = IF list = <<t>> THEN <<>> ELSE list
  BY LocalRemoved DEF TimerInv, _timer_remove
<1> QED
  BY <1>1, <1>2, <1>3, <1>4, <1>5 DEF InOrder

\* Nothing moves as long as the list, the ticks of its timers and rt_tick stay.
LEMMA SameList ==
  ASSUME TimerInv, UNCHANGED <<_timer_list, rt_tick>>,
         \A t \in ToSet(_timer_list) : timeout_tick'[t] = timeout_tick[t],
         isr' = "none" => isr = "none"
  PROVE  /\ InOrder' /\ InTime'
         /\ \A t \in ToSet(_timer_list) : Distance(t)' = Distance(t)
<1>1. \A t \in ToSet(_timer_list) : t \in Timer /\ Distance(t)' = Distance(t)
  BY DEF Distance, TimerInv, TimerType, ToSet
<1>2. \A t \in ToSet(_timer_list) : Dist'[t] = Dist[t]
  BY <1>1 DEF Dist
<1>3. OrderedBy(_timer_list, Dist')
  BY <1>2, OrderedSame DEF TimerInv, TimerType, InOrder
<1>4. InTime'
  <2>1. ASSUME NEW t \in ToSet(_timer_list)
        PROVE  Distance(t) < Half /\ Distance(t) >= (IF isr' = "none" THEN 0 ELSE -1)
    <3>1. Distance(t) < Half /\ Distance(t) >= (IF isr = "none" THEN 0 ELSE -1)
      BY <2>1 DEF TimerInv, InTime
    <3>2. Distance(t) \in Int
      BY <1>1, DistFacts DEF TimerInv
    <3> QED
      BY <3>1, <3>2
  <2> QED
    BY <1>1, <2>1 DEF InTime
<1> QED
  BY <1>1, <1>3, <1>4 DEF InOrder

-----------------------------------------------------------------------------
(***************************************************************************)
(* Each step keeps the invariant.                                          *)
(***************************************************************************)

\* rt_timer_init sets up a timer that is in no list.
LEMMA InitKeeps ==
  ASSUME TimerInv, NEW t \in Timer, NEW n \in Times, NEW b \in BOOLEAN,
         rt_timer_init(t, n, b)
  PROVE  TimerInv'
<1>1. t \notin ToSet(_timer_list)
  BY DEF TimerInv, ListedActive, rt_timer_init
<1>2. TimerType'
  BY HalfFacts DEF TimerInv, TimerType, rt_timer_init
<1>3. ListedActive' /\ LocalList'
  BY <1>1 DEF TimerInv, TimerType, ListedActive, LocalList, rt_timer_init
<1>4. InOrder' /\ InTime'
  BY <1>1, SameList DEF TimerInv, TimerType, rt_timer_init
<1> QED
  BY <1>2, <1>3, <1>4 DEF TimerInv

\* Restarted, in a call or at the end of a callback.
LEMMA RestartedKeeps ==
  ASSUME TimerInv, NEW t \in Timer, t \in inited, Restarted(t),
         isr' \in {"none", "check", "callback"},
         isr' = "none" => isr = "none",
         isr' = isr \/ (isr = "callback" /\ t = running),
         UNCHANGED <<inited, periodic, init_tick, rt_tick, running, stopping>>
  PROVE  TimerInv'
<1>1. /\ _timer_list' \in Seq(Timer) /\ IsInjective(_timer_list')
      /\ ToSet(_timer_list') = ToSet(_timer_list) \cup {t}
      /\ timeout_tick' \in [Timer -> Tick]
      /\ Distance(t)' = init_tick[t] /\ init_tick[t] \in Int
      /\ 0 <= init_tick[t] /\ init_tick[t] < Half
      /\ \A u \in Timer \ {t} : Distance(u)' = Distance(u)
      /\ InOrder'
      /\ list' = IF list = <<t>> THEN <<>> ELSE list
  BY RestartedFacts
<1>2. activated' = [activated EXCEPT ![t] = TRUE]
  BY DEF Restarted
<1>3. TimerType'
  BY <1>1, <1>2 DEF TimerInv, TimerType
<1>4. ListedActive'
  BY <1>1, <1>2 DEF TimerInv, TimerType, ListedActive
<1>5. LocalList'
  BY <1>1 DEF TimerInv, LocalList
<1>6. InTime'
  <2>1. ASSUME NEW u \in ToSet(_timer_list), u # t
        PROVE  Distance(u)' < Half /\ Distance(u)' >= (IF isr' = "none" THEN 0 ELSE -1)
    <3>1. Distance(u) < Half /\ Distance(u) >= (IF isr = "none" THEN 0 ELSE -1)
      BY <2>1 DEF TimerInv, InTime
    <3>2. u \in Timer
      BY <2>1 DEF TimerInv, TimerType, ToSet
    <3>3. Distance(u)' = Distance(u) /\ Distance(u) \in Int
      BY <1>1, <2>1, <3>2, DistFacts DEF TimerInv
    <3> QED
      BY <3>1, <3>3
  <2> QED
    BY <1>1, <2>1 DEF InTime
<1> QED
  BY <1>1, <1>3, <1>4, <1>5, <1>6 DEF TimerInv

\* _timer_remove with the flag cleared: rt_timer_stop and rt_timer_detach.
LEMMA RemovedKeeps ==
  ASSUME TimerInv, NEW t \in Timer, _timer_remove(t),
         activated' = [activated EXCEPT ![t] = FALSE],
         inited' \in {inited, inited \ {t}}, stopping' \in SUBSET inited',
         UNCHANGED <<periodic, init_tick, timeout_tick, rt_tick, isr, running>>
  PROVE  TimerInv'
<1>1. /\ _timer_list' \in Seq(Timer) /\ IsInjective(_timer_list')
      /\ ToSet(_timer_list') = ToSet(_timer_list) \ {t}
      /\ \A u \in Timer : Distance(u)' = Distance(u)
      /\ InOrder'
      /\ list' = IF list = <<t>> THEN <<>> ELSE list
  BY RemovedFacts
<1>2. TimerType'
  BY <1>1 DEF TimerInv, TimerType
<1>3. ListedActive'
  <2>1. \A u \in ToSet(_timer_list) : u \in Timer /\ u \in inited /\ activated[u]
    BY DEF TimerInv, TimerType, ListedActive, ToSet
  <2> QED
    BY <1>1, <2>1 DEF TimerInv, TimerType, ListedActive
<1>4. LocalList'
  BY <1>1 DEF TimerInv, LocalList
<1>5. InTime'
  <2>1. \A u \in ToSet(_timer_list) : u \in Timer
    BY DEF TimerInv, TimerType, ToSet
  <2> QED
    BY <1>1, <2>1 DEF TimerInv, InTime
<1> QED
  BY <1>1, <1>2, <1>3, <1>4, <1>5 DEF TimerInv

\* StopCheck, SET_TIME and the modes leave the lists alone.
LEMMA ControlKeeps ==
  ASSUME TimerInv, NEW t \in Timer,
         \/ StopCheck(t)
         \/ \E n \in Times : SetTime(t, n)
         \/ \E b \in BOOLEAN : SetMode(t, b)
  PROVE  TimerInv'
<1>1. /\ UNCHANGED <<inited, activated, timeout_tick, _timer_list, rt_tick, isr, list, running>>
      /\ periodic' \in [Timer -> BOOLEAN] /\ init_tick' \in [Timer -> Times]
      /\ stopping' \subseteq inited
  BY DEF TimerInv, TimerType, StopCheck, SetTime, SetMode
<1>2. TimerType' /\ ListedActive' /\ LocalList'
  BY <1>1 DEF TimerInv, TimerType, ListedActive, LocalList
<1>3. InOrder' /\ InTime'
  BY <1>1, SameList
<1> QED
  BY <1>2, <1>3 DEF TimerInv

\* rt_tick_increase: between two ticks no listed timer is overdue, so that none
\* is more than one tick late now.
LEMMA TickKeeps ==
  ASSUME TimerInv, rt_tick_increase
  PROVE  /\ TimerInv'
         /\ \A t \in ToSet(_timer_list) : Distance(t)' = Distance(t) - 1
<1>1. /\ rt_tick' = (rt_tick + 1) % TickMod /\ isr = "none" /\ isr' = "check"
      /\ UNCHANGED <<inited, activated, periodic, init_tick, timeout_tick, _timer_list,
                     list, running, stopping>>
  BY DEF rt_tick_increase
<1>2. \A t \in ToSet(_timer_list) : t \in Timer
  BY DEF TimerInv, TimerType, ToSet
<1>3. 1 \in 0 .. TickMod - 1 /\ rt_tick \in Tick
  BY HalfFacts DEF TimerInv, TimerType
<1>4. rt_tick' \in Tick
  BY <1>1, <1>3, PlusFacts
<1>5. TimerType'
  BY <1>1, <1>4 DEF TimerInv, TimerType
<1>6. ASSUME NEW t \in ToSet(_timer_list)
      PROVE  /\ Distance(t)' = Distance(t) - 1 /\ Distance(t) \in Int
             /\ Distance(t)' < Half /\ Distance(t)' >= -1
  <2>1. /\ Distance(t) = Gap(timeout_tick[t], rt_tick) /\ Distance(t) \in Int
        /\ Distance(t) < Half /\ Distance(t) >= 0
    BY <1>1, <1>2, DistFacts DEF TimerInv, InTime
  <2>2. timeout_tick[t] \in Tick /\ rt_tick \in Tick
    BY <1>2 DEF TimerInv, TimerType
  <2>3. Gap(timeout_tick[t], (rt_tick + 1) % TickMod) = Gap(timeout_tick[t], rt_tick) - 1
    BY <2>1, <2>2, GapTick
  <2>4. Distance(t)' = Gap(timeout_tick[t], (rt_tick + 1) % TickMod)
    BY <1>1 DEF Distance, Gap
  <2> QED
    BY <2>1, <2>3, <2>4, HalfFacts
<1>7. InOrder'
  <2>1. ASSUME NEW i \in 1 .. Len(_timer_list), NEW j \in 1 .. Len(_timer_list), i <= j
        PROVE  Dist'[_timer_list[i]] <= Dist'[_timer_list[j]]
    <3>1. _timer_list[i] \in ToSet(_timer_list) /\ _timer_list[j] \in ToSet(_timer_list)
      BY DEF ToSet
    <3>2. /\ Dist'[_timer_list[i]] = Dist[_timer_list[i]] - 1
          /\ Dist[_timer_list[i]] \in Int
          /\ Dist'[_timer_list[j]] = Dist[_timer_list[j]] - 1
          /\ Dist[_timer_list[j]] \in Int
      BY <1>2, <1>6, <3>1 DEF Dist
    <3>3. Dist[_timer_list[i]] <= Dist[_timer_list[j]]
      BY <2>1 DEF TimerInv, InOrder, OrderedBy
    <3> QED
      BY <3>2, <3>3
  <2> QED
    BY <1>1, <2>1 DEF InOrder, OrderedBy
<1>8. InTime'
  BY <1>1, <1>6 DEF InTime
<1>9. ListedActive' /\ LocalList'
  BY <1>1 DEF TimerInv, ListedActive, LocalList
<1> QED
  BY <1>5, <1>6, <1>7, <1>8, <1>9 DEF TimerInv

\* The first timer of the list expires first, and the test of rt_timer_check
\* finds out whether it is due.
LEMMA HeadFirst ==
  ASSUME TimerInv, _timer_list # <<>>
  PROVE  LET h == Head(_timer_list)
         IN  /\ h \in Timer /\ h \in ToSet(_timer_list) /\ Distance(h) \in Int
             /\ \A t \in ToSet(_timer_list) : Distance(t) \in Int /\ Distance(h) <= Distance(t)
             /\ Expired(h) <=> Distance(h) <= 0
<1> DEFINE h == Head(_timer_list)
<1>1. h \in Timer /\ h \in ToSet(_timer_list)
  BY HeadFacts DEF TimerInv, TimerType
<1>2. \A t \in ToSet(_timer_list) : t \in Timer
  BY DEF TimerInv, TimerType, ToSet
<1>3. ASSUME NEW t \in ToSet(_timer_list)
      PROVE  Distance(t) \in Int /\ Distance(h) <= Distance(t)
  <2>1. Dist[h] <= Dist[t]
    BY <1>3, HeadLeast DEF TimerInv, TimerType, InOrder
  <2> QED
    BY <1>1, <1>2, <2>1, DistFacts DEF TimerInv
<1> HIDE DEF h
<1>4. Distance(h) = Gap(timeout_tick[h], rt_tick) /\ Distance(h) \in Int
  BY <1>1, DistFacts DEF TimerInv
<1>5. timeout_tick[h] \in Tick /\ rt_tick \in Tick
  BY <1>1 DEF TimerInv, TimerType
<1>6. Distance(h) < Half /\ Distance(h) >= -1
  <2>1. Distance(h) < Half /\ Distance(h) >= (IF isr = "none" THEN 0 ELSE -1)
    BY <1>1 DEF TimerInv, InTime
  <2> QED
    BY <1>4, <2>1
<1>7. Minus(rt_tick, timeout_tick[h]) < Half <=> Distance(h) <= 0
  BY <1>4, <1>5, <1>6, GapExpired
<1> QED
  BY <1>1, <1>3, <1>4, <1>7 DEF Expired, h

\* A timer that is due leaves the list, and its callback starts.
LEMMA CheckExpireKeeps ==
  ASSUME TimerInv, CheckExpire
  PROVE  /\ TimerInv'
         /\ ToSet(_timer_list') = ToSet(_timer_list) \ {Head(_timer_list)}
         /\ \A t \in Timer : Distance(t)' = Distance(t)
<1> DEFINE h == Head(_timer_list)
<1>1. /\ isr = "check" /\ isr' = "callback" /\ _timer_list # <<>>
      /\ _timer_list' = Tail(_timer_list) /\ list' = <<h>> /\ running' = h
      /\ activated' = [activated EXCEPT ![h] = @ /\ periodic[h]]
      /\ UNCHANGED <<inited, periodic, init_tick, timeout_tick, rt_tick, stopping>>
  BY DEF CheckExpire
<1>2. h \in Timer /\ h \in ToSet(_timer_list) /\ h \in inited
  BY <1>1, HeadFacts DEF TimerInv, TimerType, ListedActive
<1>3. /\ _timer_list' \in Seq(Timer) /\ IsInjective(_timer_list')
      /\ ToSet(_timer_list') = ToSet(_timer_list) \ {h}
  BY <1>1, TailFacts DEF TimerInv, TimerType, ListedActive
<1>4. OrderedBy(_timer_list', Dist)
  BY <1>1, TailOrdered DEF TimerInv, TimerType, InOrder
<1>5. \A t \in Timer : Distance(t)' = Distance(t)
  BY <1>1 DEF Distance
<1>6. \A t \in ToSet(_timer_list) : t \in Timer
  BY DEF TimerInv, TimerType, ToSet
<1> HIDE DEF h
<1>7. Dist' = Dist
  BY <1>5 DEF Dist
<1>8. TimerType'
  BY <1>1, <1>2, <1>3 DEF TimerInv, TimerType
<1>9. ListedActive'
  BY <1>1, <1>3, <1>6 DEF TimerInv, TimerType, ListedActive
<1>10. LocalList'
  BY <1>1, <1>2, <1>3 DEF TimerInv, LocalList
<1>11. InOrder'
  BY <1>4, <1>7 DEF InOrder
<1>12. InTime'
  BY <1>1, <1>3, <1>5, <1>6 DEF TimerInv, InTime
<1> QED
  BY <1>3, <1>5, <1>8, <1>9, <1>10, <1>11, <1>12 DEF TimerInv, h

\* The callback returns: a periodic timer is started again, or nothing moves.
LEMMA CallbackReturnKeeps ==
  ASSUME TimerInv, CallbackReturn
  PROVE  TimerInv'
<1>1. /\ isr = "callback" /\ isr' = "check" /\ running \in Timer
      /\ UNCHANGED <<inited, periodic, init_tick, rt_tick, running, stopping>>
  BY DEF CallbackReturn, TimerInv, TimerType
<1>2. CASE list # <<>> /\ periodic[running] /\ activated[running]
  <2>1. Restarted(running) /\ running \in inited
    BY <1>2 DEF CallbackReturn, TimerInv, LocalList
  <2> QED
    BY <1>1, <2>1, RestartedKeeps
<1>3. CASE ~(list # <<>> /\ periodic[running] /\ activated[running])
  <2>1. list' = <<>> /\ UNCHANGED <<timeout_tick, _timer_list, activated>>
    BY <1>3 DEF CallbackReturn
  <2>2. TimerType' /\ ListedActive' /\ LocalList'
    BY <1>1, <2>1 DEF TimerInv, TimerType, ListedActive, LocalList
  <2>3. InOrder' /\ InTime'
    BY <1>1, <2>1, SameList
  <2> QED
    BY <2>2, <2>3 DEF TimerInv
<1> QED
  BY <1>2, <1>3

\* The interrupt ends when the first timer is not due, and then no timer is.
LEMMA CheckEndKeeps ==
  ASSUME TimerInv, CheckEnd
  PROVE  TimerInv' /\ \A t \in ToSet(_timer_list) : Distance(t) > 0
<1>1. /\ isr = "check" /\ isr' = "none"
      /\ UNCHANGED <<inited, activated, periodic, init_tick, timeout_tick, _timer_list,
                     rt_tick, list, running, stopping>>
      /\ _timer_list # <<>> => ~Expired(Head(_timer_list))
  BY DEF CheckEnd
<1>2. \A t \in ToSet(_timer_list) : Distance(t) \in Int /\ Distance(t) > 0
  <2>1. CASE _timer_list = <<>>
    BY <2>1, EmptyList
  <2>2. CASE _timer_list # <<>>
    <3>1. ~(Distance(Head(_timer_list)) <= 0) /\ Distance(Head(_timer_list)) \in Int
      BY <1>1, <2>2, HeadFirst
    <3>2. \A t \in ToSet(_timer_list) :
            Distance(t) \in Int /\ Distance(Head(_timer_list)) <= Distance(t)
      BY <2>2, HeadFirst
    <3> QED
      BY <3>1, <3>2
  <2> QED
    BY <2>1, <2>2
<1>3. \A t \in ToSet(_timer_list) : Distance(t)' = Distance(t) /\ Distance(t) < Half
  BY <1>1 DEF TimerInv, InTime, Distance
<1>4. InTime'
  BY <1>1, <1>2, <1>3 DEF InTime
<1>5. InOrder'
  BY <1>1 DEF TimerInv, InOrder, Dist, Distance
<1>6. TimerType' /\ ListedActive' /\ LocalList'
  BY <1>1 DEF TimerInv, TimerType, ListedActive, LocalList
<1> QED
  BY <1>2, <1>4, <1>5, <1>6 DEF TimerInv

\* Every step keeps the invariant.
LEMMA NextKeeps == TimerInv /\ [Next]_vars => TimerInv'
<1> SUFFICES ASSUME TimerInv, [Next]_vars PROVE TimerInv'
  OBVIOUS
<1>1. ASSUME NEW t \in Timer, Call(t)
      PROVE  TimerInv'
  <2>1. CASE \E n \in Times, b \in BOOLEAN : rt_timer_init(t, n, b)
    BY <2>1, InitKeeps
  <2>2. CASE (\E n \in Times : SetTime(t, n)) \/ (\E b \in BOOLEAN : SetMode(t, b)) \/ StopCheck(t)
    BY <2>2, ControlKeeps
  <2>3. CASE rt_timer_start(t)
    <3>1. isr \in {"none", "check", "callback"}
      BY DEF TimerInv, TimerType
    <3> QED
      BY <2>3, <3>1, RestartedKeeps DEF rt_timer_start
  <2>4. CASE rt_timer_detach(t)
    <3>1. inited' = inited \ {t} /\ stopping' \in SUBSET inited'
      BY <2>4 DEF rt_timer_detach, TimerInv, TimerType
    <3> QED
      BY <2>4, <3>1, RemovedKeeps DEF rt_timer_detach
  <2>5. CASE StopAct(t) \/ StopInCallback(t)
    <3>1. inited' = inited /\ stopping' \in SUBSET inited'
      BY <2>5 DEF StopAct, StopInCallback, TimerInv, TimerType
    <3> QED
      BY <2>5, <3>1, RemovedKeeps DEF StopAct, StopInCallback, Stopped
  <2> QED
    BY <1>1, <2>1, <2>2, <2>3, <2>4, <2>5 DEF Call
<1>2. CASE rt_tick_increase \/ Check
  BY <1>2, TickKeeps, CheckExpireKeeps, CallbackReturnKeeps, CheckEndKeeps DEF Check
<1>3. CASE UNCHANGED vars
  BY <1>3 DEF vars, TimerInv, TimerType, ListedActive, LocalList, InOrder, Dist, InTime,
     Distance
<1> QED
  BY <1>1, <1>2, <1>3 DEF Next

\* Nothing is listed at first.
LEMMA InitHolds == Init => TimerInv
<1> SUFFICES ASSUME Init PROVE TimerInv
  OBVIOUS
<1>1. TimerType
  BY HalfFacts DEF Init, TimerType
<1>2. ListedActive /\ LocalList /\ InTime
  BY EmptyList DEF Init, ListedActive, LocalList, InTime
<1>3. InOrder
  BY DEF Init, InOrder, OrderedBy
<1> QED
  BY <1>1, <1>2, <1>3 DEF TimerInv

\* The list of the timers is always in order and in time.
THEOREM Invariant == Spec => []TimerInv
  BY InitHolds, NextKeeps, PTL DEF Spec

\* rt_timer_next_timeout_tick names the timer that expires first, and between two
\* ticks none is overdue, across the wraparound of rt_tick, for any width of
\* rt_tick_t and whatever the callbacks do.
THEOREM NextTimeoutEarliestAlways == Spec => []NextTimeoutEarliest
<1>1. TimerInv => NextTimeoutEarliest
  <2> SUFFICES ASSUME TimerInv, NEW t \in ToSet(_timer_list)
               PROVE  /\ Distance(Head(_timer_list)) <= Distance(t)
                      /\ timeout_tick[Head(_timer_list)] = rt_timer_next_timeout_tick
                      /\ Distance(t) >= (IF isr = "none" THEN 0 ELSE -1)
    BY DEF NextTimeoutEarliest
  <2>1. _timer_list # <<>>
    BY EmptyList
  <2> QED
    BY <2>1, HeadFirst DEF rt_timer_next_timeout_tick, TimerInv, InTime
<1> QED
  BY <1>1, Invariant, PTL

-----------------------------------------------------------------------------
(***************************************************************************)
(* RT_TIMER_FLAG_ACTIVATED and the lists agree, if no callback turns its   *)
(* own timer into a one-shot timer.                                        *)
(***************************************************************************)

\* Restarted puts an active timer in the list.
LEMMA RestartedActive ==
  ASSUME TimerInv, ActiveAccounted, NEW t \in Timer, Restarted(t),
         UNCHANGED <<rt_tick, periodic, running>>
  PROVE  ActiveAccounted'
<1>1. /\ ToSet(_timer_list') = ToSet(_timer_list) \cup {t}
      /\ list' = IF list = <<t>> THEN <<>> ELSE list
  BY RestartedFacts
<1>2. activated' = [activated EXCEPT ![t] = TRUE] /\ activated \in [Timer -> BOOLEAN]
  BY DEF Restarted, TimerInv, TimerType
<1>3. list # <<>> => list = <<running>> /\ running \in Timer
  BY DEF TimerInv, LocalList, TimerType
<1> QED
  BY <1>1, <1>2, <1>3 DEF ActiveAccounted, Listed

\* A timer that is taken out of the lists is not active any more.
LEMMA RemovedActive ==
  ASSUME TimerInv, ActiveAccounted, NEW t \in Timer, _timer_remove(t),
         activated' = [activated EXCEPT ![t] = FALSE],
         UNCHANGED <<timeout_tick, rt_tick, periodic, running>>
  PROVE  ActiveAccounted'
<1>1. /\ ToSet(_timer_list') = ToSet(_timer_list) \ {t}
      /\ list' = IF list = <<t>> THEN <<>> ELSE list
  BY RemovedFacts
<1>2. activated \in [Timer -> BOOLEAN]
  BY DEF TimerInv, TimerType
<1>3. list # <<>> => list = <<running>> /\ running \in Timer
  BY DEF TimerInv, LocalList, TimerType
<1> QED
  BY <1>1, <1>2, <1>3 DEF ActiveAccounted, Listed

\* Every step keeps flags and lists in agreement.
LEMMA NextActive ==
  ASSUME "own_oneshot" \notin Features, TimerInv, ActiveAccounted, [Next]_vars
  PROVE  ActiveAccounted'
<1>0. /\ activated \in [Timer -> BOOLEAN] /\ periodic \in [Timer -> BOOLEAN]
      /\ running \in Timer
      /\ list # <<>> => list = <<running>> /\ running \in inited
  BY DEF TimerInv, TimerType, LocalList
<1>1. ASSUME NEW t \in Timer, Call(t)
      PROVE  ActiveAccounted'
  <2>1. CASE \E n \in Times, b \in BOOLEAN : rt_timer_init(t, n, b)
    BY <1>0, <2>1 DEF rt_timer_init, ActiveAccounted, Listed
  <2>2. CASE (\E n \in Times : SetTime(t, n)) \/ StopCheck(t)
    BY <2>2 DEF SetTime, StopCheck, ActiveAccounted, Listed
  <2>3. CASE \E b \in BOOLEAN : SetMode(t, b)
    BY <1>0, <2>3 DEF SetMode, ActiveAccounted, Listed
  <2>4. CASE rt_timer_start(t)
    BY <2>4, RestartedActive DEF rt_timer_start
  <2>5. CASE rt_timer_detach(t) \/ StopAct(t) \/ StopInCallback(t)
    BY <2>5, RemovedActive DEF rt_timer_detach, StopAct, StopInCallback, Stopped
  <2> QED
    BY <1>1, <2>1, <2>2, <2>3, <2>4, <2>5 DEF Call
<1>2. CASE CheckExpire
  <2>1. /\ ToSet(_timer_list') = ToSet(_timer_list) \ {Head(_timer_list)}
        /\ list' = <<Head(_timer_list)>> /\ running' = Head(_timer_list)
        /\ activated' = [activated EXCEPT ![running'] = @ /\ periodic[running']]
        /\ periodic' = periodic /\ list = <<>>
    BY <1>2, CheckExpireKeeps DEF CheckExpire, TimerInv, LocalList
  <2>2. running' \in Timer
    BY <1>2, CheckExpireKeeps DEF TimerInv, TimerType
  <2> QED
    BY <1>0, <2>1, <2>2 DEF ActiveAccounted, Listed
<1>3. CASE CallbackReturn
  <2>1. CASE list # <<>> /\ periodic[running] /\ activated[running]
    BY <1>0, <1>3, <2>1, RestartedActive DEF CallbackReturn
  <2>2. CASE ~(list # <<>> /\ periodic[running] /\ activated[running])
    <3>1. list' = <<>> /\ UNCHANGED <<_timer_list, activated>>
      BY <1>3, <2>2 DEF CallbackReturn
    <3>2. list # <<>> => ~activated[running]
      BY <2>2 DEF ActiveAccounted
    <3>3. ASSUME NEW t \in Timer, activated[t]
          PROVE  Listed(t)
      <4>1. list = <<t>> => list # <<>> /\ list[1] = t
        OBVIOUS
      <4>2. list # <<>> => list[1] = running
        BY <1>0
      <4>3. list # <<t>>
        BY <3>2, <3>3, <4>1, <4>2
      <4> QED
        BY <3>3, <4>3 DEF ActiveAccounted
    <3> QED
      BY <3>1, <3>3 DEF ActiveAccounted, Listed
  <2> QED
    BY <2>1, <2>2
<1>4. CASE rt_tick_increase \/ CheckEnd \/ UNCHANGED vars
  BY <1>4 DEF rt_tick_increase, CheckEnd, vars, ActiveAccounted, Listed
<1> QED
  BY <1>1, <1>2, <1>3, <1>4 DEF Next, Check

\* A timer has RT_TIMER_FLAG_ACTIVATED exactly if it is in the list, or is the one
\* whose callback runs: rt_timer_stop never misses a timer that is started.
THEOREM ActiveListedAlways ==
  "own_oneshot" \notin Features => (Spec => []ActiveListed)
<1> SUFFICES ASSUME "own_oneshot" \notin Features PROVE Spec => []ActiveListed
  OBVIOUS
<1>1. Init => ActiveAccounted
  BY DEF Init, ActiveAccounted
<1>2. TimerInv /\ ActiveAccounted /\ [Next]_vars => ActiveAccounted'
  BY NextActive
<1>3. TimerInv /\ ActiveAccounted => ActiveListed
  BY DEF TimerInv, ListedActive, LocalList, ActiveAccounted, ActiveListed, Listed
<1> QED
  BY <1>1, <1>2, <1>3, Invariant, PTL DEF Spec

-----------------------------------------------------------------------------
(***************************************************************************)
(* The timers implement TimerService.                                      *)
(***************************************************************************)

\* The state of TimerService.
Left  == [t \in Timer |-> IF Listed(t) THEN Distance(t) ELSE 0]
Phase == CASE isr = "none" -> "idle" [] isr = "check" -> "expire" [] OTHER -> isr
Again == {t \in ToSet(list) : activated[t]}

\* The initial states map to initial states.
LEMMA InitService == Init => Service!Init
<1> SUFFICES ASSUME Init PROVE Service!Init
  OBVIOUS
<1>1. /\ ToSet(_timer_list) = {} /\ Again = {} /\ Left = [t \in Timer |-> 0]
      /\ Phase = "idle"
  BY EmptyList DEF Init, Again, Left, Listed, Phase
<1> QED
  BY <1>1 DEF Init, Service!Init, Again, Left, Phase

\* rt_timer_init
LEMMA InitMakes ==
  ASSUME TimerInv, NEW t \in Timer, NEW n \in Times, NEW b \in BOOLEAN,
         rt_timer_init(t, n, b)
  PROVE  Service!Make(t)
<1>1. /\ isr \in {"none", "callback"} /\ t \notin inited
      /\ inited' = inited \cup {t}
      /\ activated' = [activated EXCEPT ![t] = FALSE]
      /\ periodic' = [periodic EXCEPT ![t] = b]
      /\ init_tick' = [init_tick EXCEPT ![t] = n]
      /\ timeout_tick' = [timeout_tick EXCEPT ![t] = 0]
      /\ UNCHANGED <<_timer_list, rt_tick, isr, list>>
  BY DEF rt_timer_init, Calling
<1>2. t \notin ToSet(_timer_list) /\ t \notin ToSet(list)
  BY <1>1 DEF TimerInv, ListedActive, LocalList, ToSet
<1>3. Left' = Left
  <2>1. \A u \in ToSet(_timer_list) : Distance(u)' = Distance(u)
    BY <1>1, <1>2, SameList DEF TimerInv, TimerType
  <2> QED
    BY <1>1, <2>1 DEF Left, Listed
<1>4. Again' = Again
  BY <1>1, <1>2 DEF Again, TimerInv, LocalList, TimerType, ToSet
<1>5. Phase' = Phase /\ Phase \in {"idle", "callback"}
  BY <1>1 DEF Phase
<1> QED
  BY <1>1, <1>3, <1>4, <1>5 DEF Service!Make, Service!Calling, Left, Again, Phase

\* What Restarted does to the countdown: the timer counts from its duration.
LEMMA RestartedArms ==
  ASSUME TimerInv, NEW t \in Timer, Restarted(t), rt_tick' = rt_tick
  PROVE  /\ ToSet(_timer_list') = ToSet(_timer_list) \cup {t}
         /\ Left' = [Left EXCEPT ![t] = init_tick[t]]
         /\ Again' = Again \ {t}
<1>1. /\ ToSet(_timer_list') = ToSet(_timer_list) \cup {t}
      /\ Distance(t)' = init_tick[t]
      /\ \A u \in Timer \ {t} : Distance(u)' = Distance(u)
      /\ list' = IF list = <<t>> THEN <<>> ELSE list
  BY RestartedFacts
<1>2. Left' = [Left EXCEPT ![t] = init_tick[t]]
  BY <1>1 DEF Left, Listed
<1>3. Again' = Again \ {t}
  <2>1. activated' = [activated EXCEPT ![t] = TRUE] /\ activated \in [Timer -> BOOLEAN]
    BY DEF Restarted, TimerInv, TimerType
  <2>2. list = <<>> \/ (list = <<running>> /\ running \in Timer)
    BY DEF TimerInv, LocalList, TimerType
  <2>3. CASE list = <<t>>
    BY <1>1, <2>1, <2>3 DEF Again, ToSet
  <2>4. CASE list # <<t>>
    BY <1>1, <2>1, <2>2, <2>4 DEF Again, ToSet
  <2> QED
    BY <2>3, <2>4
<1> QED
  BY <1>1, <1>2, <1>3

\* What the removal of a timer does to the countdown: it ends.
LEMMA RemovedDisarms ==
  ASSUME TimerInv, NEW t \in Timer, _timer_remove(t),
         activated' = [activated EXCEPT ![t] = FALSE], UNCHANGED <<timeout_tick, rt_tick>>
  PROVE  /\ ToSet(_timer_list') = ToSet(_timer_list) \ {t}
         /\ Left' = [Left EXCEPT ![t] = 0]
         /\ Again' = Again \ {t}
<1>1. /\ ToSet(_timer_list') = ToSet(_timer_list) \ {t}
      /\ \A u \in Timer : Distance(u)' = Distance(u)
      /\ list' = IF list = <<t>> THEN <<>> ELSE list
  BY RemovedFacts
<1>2. Left' = [Left EXCEPT ![t] = 0]
  BY <1>1 DEF Left, Listed
<1>3. Again' = Again \ {t}
  <2>1. activated \in [Timer -> BOOLEAN]
    BY DEF TimerInv, TimerType
  <2>2. list = <<>> \/ (list = <<running>> /\ running \in Timer)
    BY DEF TimerInv, LocalList, TimerType
  <2>3. CASE list = <<t>>
    BY <1>1, <2>1, <2>3 DEF Again, ToSet
  <2>4. CASE list # <<t>>
    BY <1>1, <2>1, <2>2, <2>4 DEF Again, ToSet
  <2> QED
    BY <2>3, <2>4
<1> QED
  BY <1>1, <1>2, <1>3

\* The countdown does not see what leaves lists, flags and ticks alone.
LEMMA SameService ==
  ASSUME TimerInv, UNCHANGED <<_timer_list, list, activated, timeout_tick, rt_tick, isr>>
  PROVE  ToSet(_timer_list') = ToSet(_timer_list) /\ UNCHANGED <<Left, Again, Phase>>
  BY DEF Left, Listed, Distance, Again, Phase

\* The calls of threads and callbacks.
LEMMA CallServes ==
  ASSUME TimerInv, NEW t \in Timer, Call(t)
  PROVE  Service!Next \/ UNCHANGED Service!svars
<1>0. isr \in {"none", "callback"} => Phase \in {"idle", "callback"}
  BY DEF Phase
<1>1. CASE \E n \in Times, b \in BOOLEAN : rt_timer_init(t, n, b)
  BY <1>1, InitMakes DEF Service!Next
<1>2. CASE StopCheck(t)
  <2>1. /\ UNCHANGED <<inited, activated, periodic, init_tick, timeout_tick, _timer_list>>
        /\ UNCHANGED <<rt_tick, isr, list>>
    BY <1>2 DEF StopCheck
  <2>2. ToSet(_timer_list') = ToSet(_timer_list) /\ UNCHANGED <<Left, Again, Phase>>
    BY <2>1, SameService
  <2> QED
    BY <2>1, <2>2 DEF Service!svars, Left, Again, Phase
<1>3. CASE (\E n \in Times : SetTime(t, n)) \/ (\E b \in BOOLEAN : SetMode(t, b))
  <2>1. /\ UNCHANGED <<inited, activated, timeout_tick, _timer_list, rt_tick, isr, list>>
        /\ isr \in {"none", "callback"} /\ t \in inited
    BY <1>3 DEF SetTime, SetMode, Calling
  <2>2. ToSet(_timer_list') = ToSet(_timer_list) /\ UNCHANGED <<Left, Again, Phase>>
    BY <2>1, SameService
  <2>3. \E b \in BOOLEAN, n \in Times :
          periodic' = [periodic EXCEPT ![t] = b] /\ init_tick' = [init_tick EXCEPT ![t] = n]
    <3>1. periodic \in [Timer -> BOOLEAN] /\ init_tick \in [Timer -> Times]
      BY DEF TimerInv, TimerType
    <3>2. /\ periodic = [periodic EXCEPT ![t] = periodic[t]] /\ periodic[t] \in BOOLEAN
          /\ init_tick = [init_tick EXCEPT ![t] = init_tick[t]] /\ init_tick[t] \in Times
      BY <3>1
    <3> QED
      BY <1>3, <3>2 DEF SetTime, SetMode
  <2>4. Service!Configure(t)
    BY <1>0, <2>1, <2>2, <2>3 DEF Service!Configure, Service!Calling, Left, Again, Phase
  <2> QED
    BY <2>4 DEF Service!Next
<1>4. CASE rt_timer_start(t)
  <2>1. /\ Restarted(t) /\ UNCHANGED <<inited, periodic, init_tick, rt_tick, isr>>
        /\ isr \in {"none", "callback"} /\ t \in inited
    BY <1>4 DEF rt_timer_start, Calling
  <2>2. /\ ToSet(_timer_list') = ToSet(_timer_list) \cup {t}
        /\ Left' = [Left EXCEPT ![t] = init_tick[t]] /\ Again' = Again \ {t}
    BY <2>1, RestartedArms
  <2>3. Phase' = Phase
    BY <2>1 DEF Phase
  <2>4. Service!Start(t)
    BY <1>0, <2>1, <2>2, <2>3 DEF Service!Start, Service!Calling, Left, Again, Phase
  <2> QED
    BY <2>4 DEF Service!Next
<1>5. CASE rt_timer_detach(t) \/ StopAct(t) \/ StopInCallback(t)
  <2>1. /\ _timer_remove(t) /\ activated' = [activated EXCEPT ![t] = FALSE]
        /\ UNCHANGED <<timeout_tick, periodic, init_tick, rt_tick, isr>>
        /\ isr \in {"none", "callback"} /\ t \in inited
        /\ inited' = inited \/ inited' = inited \ {t}
    BY <1>5 DEF rt_timer_detach, StopAct, StopInCallback, Stopped, Calling, TimerInv,
       TimerType
  <2>2. /\ ToSet(_timer_list') = ToSet(_timer_list) \ {t}
        /\ Left' = [Left EXCEPT ![t] = 0] /\ Again' = Again \ {t}
    BY <2>1, RemovedDisarms
  <2>3. Phase' = Phase
    BY <2>1 DEF Phase
  <2>4. Service!Stop(t) \/ Service!Destroy(t)
    BY <1>0, <2>1, <2>2, <2>3
       DEF Service!Stop, Service!Destroy, Service!Calling, Left, Again, Phase
  <2> QED
    BY <2>4 DEF Service!Next
<1> QED
  BY <1>1, <1>2, <1>3, <1>4, <1>5 DEF Call

\* rt_tick_increase counts every listed timer down.
LEMMA TickServes ==
  ASSUME TimerInv, rt_tick_increase
  PROVE  Service!Tick
<1>1. /\ isr = "none" /\ isr' = "check"
      /\ UNCHANGED <<inited, activated, periodic, init_tick, _timer_list, list>>
  BY DEF rt_tick_increase
<1>2. \A t \in ToSet(_timer_list) : Distance(t)' = Distance(t) - 1
  BY TickKeeps
<1>3. Left' = [t \in Timer |-> IF t \in ToSet(_timer_list) THEN Left[t] - 1 ELSE Left[t]]
  BY <1>1, <1>2 DEF Left, Listed
<1>4. Phase = "idle" /\ Phase' = "expire" /\ Again' = Again
  BY <1>1 DEF Phase, Again
<1> QED
  BY <1>1, <1>3, <1>4 DEF Service!Tick, Left, Again, Phase

\* CheckExpire takes a timer that is due, and no other is due earlier.
LEMMA ExpireServes ==
  ASSUME TimerInv, CheckExpire, NEW h \in Timer, h = Head(_timer_list)
  PROVE  Service!Expire(h)
<1>1. /\ isr = "check" /\ isr' = "callback" /\ _timer_list # <<>> /\ Expired(h)
      /\ list' = <<h>> /\ activated' = [activated EXCEPT ![h] = @ /\ periodic[h]]
      /\ UNCHANGED <<inited, periodic, init_tick>>
  BY DEF CheckExpire
<1>2. /\ h \in Timer /\ h \in ToSet(_timer_list) /\ Distance(h) \in Int
      /\ \A t \in ToSet(_timer_list) : Distance(t) \in Int /\ Distance(h) <= Distance(t)
      /\ Distance(h) <= 0
  BY <1>1, HeadFirst
<1>3. /\ ToSet(_timer_list') = ToSet(_timer_list) \ {h}
      /\ \A t \in Timer : Distance(t)' = Distance(t)
  BY CheckExpireKeeps
<1>4. activated \in [Timer -> BOOLEAN] /\ activated[h]
  BY <1>2 DEF TimerInv, TimerType, ListedActive
<1>5. \A t \in ToSet(_timer_list) : t \in Timer
  BY DEF TimerInv, TimerType, ToSet
<1>6. \A t \in ToSet(_timer_list) : Left[t] = Distance(t)
  BY <1>5 DEF Left, Listed
<1>7. Left' = [Left EXCEPT ![h] = 0]
  BY <1>3 DEF Left, Listed
<1>8. Again' = IF periodic[h] THEN {h} ELSE {}
  <2>1. ToSet(list') = {h}
    BY <1>1, <1>2 DEF ToSet
  <2>2. activated'[h] <=> periodic[h]
    BY <1>1, <1>2, <1>4
  <2> QED
    BY <2>1, <2>2 DEF Again
<1>9. Phase = "expire" /\ Phase' = "callback"
  BY <1>1 DEF Phase
<1>10. Service!Due = {t \in ToSet(_timer_list) : Left[t] <= 0}
  BY DEF Service!Due, Left
<1>11. h \in Service!Due /\ \A u \in Service!Due : Left[h] <= Left[u]
  BY <1>2, <1>6, <1>10
<1> QED
  BY <1>1, <1>3, <1>7, <1>8, <1>9, <1>11 DEF Service!Expire, Left, Again, Phase

\* CallbackReturn arms a periodic timer again.
LEMMA ReturnServes ==
  ASSUME TimerInv, CallbackReturn
  PROVE  Service!Return
<1> DEFINE rearm == {t \in Again : periodic[t]}
<1>1. /\ isr = "callback" /\ isr' = "check" /\ running \in Timer
      /\ UNCHANGED <<inited, periodic, init_tick, rt_tick>>
      /\ list = <<>> \/ list = <<running>>
  BY DEF CallbackReturn, TimerInv, TimerType, LocalList
<1>2. Phase = "callback" /\ Phase' = "expire"
  BY <1>1 DEF Phase
<1>3. /\ ToSet(_timer_list') = ToSet(_timer_list) \cup rearm
      /\ Left' = [t \in Timer |-> IF t \in rearm THEN init_tick[t] ELSE Left[t]]
      /\ Again' = {}
  <2>1. CASE list # <<>> /\ periodic[running] /\ activated[running]
    <3>1. Restarted(running) /\ Again = {running} /\ rearm = {running}
      BY <1>1, <2>1 DEF CallbackReturn, Again, ToSet
    <3>2. /\ ToSet(_timer_list') = ToSet(_timer_list) \cup {running}
          /\ Left' = [Left EXCEPT ![running] = init_tick[running]]
          /\ Again' = Again \ {running}
      BY <1>1, <3>1, RestartedArms
    <3> HIDE DEF rearm
    <3>3. Left' = [t \in Timer |-> IF t \in rearm THEN init_tick[t] ELSE Left[t]]
      BY <3>1, <3>2 DEF Left
    <3> QED
      BY <3>1, <3>2, <3>3
  <2>2. CASE ~(list # <<>> /\ periodic[running] /\ activated[running])
    <3>1. list' = <<>> /\ UNCHANGED <<timeout_tick, _timer_list, activated>>
      BY <2>2 DEF CallbackReturn
    <3>2. rearm = {}
      BY <1>1, <2>2 DEF Again, ToSet
    <3> HIDE DEF rearm
    <3>3. Left' = Left /\ Again' = {}
      BY <1>1, <3>1, EmptyList DEF Left, Listed, Distance, Again
    <3>4. Left = [t \in Timer |-> IF t \in rearm THEN init_tick[t] ELSE Left[t]]
      BY <3>2 DEF Left
    <3> QED
      BY <3>1, <3>2, <3>3, <3>4
  <2> QED
    BY <2>1, <2>2
<1> QED
  BY <1>1, <1>2, <1>3 DEF Service!Return, Left, Again, Phase

\* CheckEnd ends the handler when no countdown has run out.
LEMMA EndServes ==
  ASSUME TimerInv, CheckEnd
  PROVE  Service!Finish
<1>1. /\ isr = "check" /\ isr' = "none"
      /\ UNCHANGED <<inited, activated, periodic, init_tick, timeout_tick, _timer_list>>
      /\ UNCHANGED <<rt_tick, list>>
  BY DEF CheckEnd
<1>2. \A t \in ToSet(_timer_list) : Distance(t) > 0 /\ t \in Timer /\ Distance(t) \in Int
  BY CheckEndKeeps, DistFacts DEF TimerInv, TimerType, ToSet
<1>3. Left' = Left /\ Again' = Again /\ Phase = "expire" /\ Phase' = "idle"
  BY <1>1 DEF Left, Listed, Distance, Again, Phase
<1>4. \A t \in ToSet(_timer_list) : ~(Left[t] <= 0)
  BY <1>2 DEF Left, Listed
<1>5. Service!Due = {}
  BY <1>4 DEF Service!Due, Left
<1> QED
  BY <1>1, <1>3, <1>5 DEF Service!Finish, Left, Again, Phase

\* The timers implement the countdown of TimerService, for any timers, durations
\* and width of rt_tick_t: every callback comes at its tick and in the order of the
\* deadlines, whatever threads and callbacks start, stop and reconfigure.
THEOREM Refinement == Spec => ServiceSpec
<1>1. Init => Service!Init
  BY InitService
<1>2. TimerInv /\ [Next]_vars => [Service!Next]_(Service!svars)
  <2> SUFFICES ASSUME TimerInv, [Next]_vars PROVE [Service!Next]_(Service!svars)
    OBVIOUS
  <2>1. CASE \E t \in Timer : Call(t)
    BY <2>1, CallServes
  <2>2. CASE rt_tick_increase
    BY <2>2, TickServes DEF Service!Next
  <2>3. CASE CheckExpire
    <3>1. Head(_timer_list) \in Timer
      BY <2>3, HeadFirst DEF CheckExpire
    <3>2. PICK h \in Timer : h = Head(_timer_list)
      BY <3>1
    <3>3. Service!Expire(h)
      BY <2>3, <3>2, ExpireServes
    <3> QED
      BY <3>3 DEF Service!Next
  <2>4. CASE CallbackReturn
    BY <2>4, ReturnServes DEF Service!Next
  <2>5. CASE CheckEnd
    BY <2>5, EndServes DEF Service!Next
  <2>6. CASE UNCHANGED vars
    <3>1. ToSet(_timer_list') = ToSet(_timer_list) /\ UNCHANGED <<Left, Again, Phase>>
      BY <2>6, SameService DEF vars
    <3> QED
      BY <2>6, <3>1 DEF vars, Service!svars, Left, Again, Phase
  <2> QED
    BY <2>1, <2>2, <2>3, <2>4, <2>5, <2>6 DEF Next, Check
<1> QED
  BY <1>1, <1>2, Invariant, PTL DEF Spec, ServiceSpec, Service!Spec

=============================================================================
