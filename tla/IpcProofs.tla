------------------------------ MODULE IpcProofs ------------------------------
(***************************************************************************)
(* Proofs about Ipc for any threads, objects, timeouts and signals.        *)
(***************************************************************************)
EXTENDS Ipc, ListLemmas

-----------------------------------------------------------------------------
(***************************************************************************)
(* The invariant of the threads.                                           *)
(***************************************************************************)

\* The calls that suspend their thread.
Blocking == {"sem_take", "event_recv", "mb_send", "mb_recv", "mq_send", "mq_recv",
             "mp_alloc", "completion_wait", "wqueue_wait", "dq_push", "dq_pop"}

\* The calls a thread can be in at p.
OpsAt(p) ==
  CASE p \in {"run", "return", "done"} -> {"none"}
    [] p \in {"wait", "woken"} -> Blocking
    [] p \in {"copy", "link"} -> {"mq_send", "mq_urgent"}
    [] p \in {"fetch", "free"} -> {"mq_recv"}
    [] p \in {"test", "resume"} -> {"detach", "dq_reset"}
    [] p = "relock" -> {"mp_alloc"}
    [] p = "remove" -> {"wqueue_wait"}
    [] p = "lock" -> {"dq_reset"}

CallFits == \A t \in Thread : op[t] \in OpsAt(pc[t])

\* The threads in _ipc_list_resume_all have a list to look at.
LoopFits == \A t \in Thread : pc[t] = "resume" => lists[t] # <<>>

ThreadInv == ThreadTypeOK /\ CallFits /\ LoopFits /\ SuspendedListed

-----------------------------------------------------------------------------
(***************************************************************************)
(* The wait lists.                                                         *)
(***************************************************************************)

\* The function that Kept takes its value from, up to the index n.
KeptUpTo(s, S, n, f) ==
  f = [i \in 0 .. n |->
         IF i = 0 THEN <<>>
         ELSE IF s[i] \in S THEN f[i - 1] ELSE Append(f[i - 1], s[i])]

\* There is such a function: one turn of the loop after the other.
LEMMA KeptDefined ==
  ASSUME NEW T, NEW s \in Seq(T), NEW S
  PROVE  \A n \in 0 .. Len(s) : \E f : KeptUpTo(s, S, n, f)
<1> DEFINE Bad == {n \in 0 .. Len(s) : ~ \E f : KeptUpTo(s, S, n, f)}
<1> SUFFICES ASSUME Bad # {} PROVE FALSE
  OBVIOUS
<1>1. PICK n \in Bad : \A k \in Bad : n <= k
  <2>1. Bad \subseteq Nat
    OBVIOUS
  <2> QED
    BY <2>1, MinFacts
<1>2. CASE n = 0
  <2>1. KeptUpTo(s, S, 0, [i \in 0 .. 0 |-> <<>>])
    BY DEF KeptUpTo
  <2> QED
    BY <1>1, <1>2, <2>1
<1>3. CASE n # 0
  <2>1. n \in 1 .. Len(s) /\ n - 1 \in 0 .. Len(s) /\ n - 1 \notin Bad
    BY <1>1, <1>3
  <2>2. PICK f : KeptUpTo(s, S, n - 1, f)
    BY <2>1
  <2> DEFINE v == IF s[n] \in S THEN f[n - 1] ELSE Append(f[n - 1], s[n])
             g == [i \in 0 .. n |-> IF i = n THEN v ELSE f[i]]
  <2>3. ASSUME NEW i \in 0 .. n
        PROVE  g[i] = IF i = 0 THEN <<>>
                      ELSE IF s[i] \in S THEN g[i - 1] ELSE Append(g[i - 1], s[i])
    <3>1. CASE i = n
      <4>1. g[n] = v /\ g[n - 1] = f[n - 1]
        BY <2>1
      <4> QED
        BY <2>1, <3>1, <4>1
    <3>2. CASE i # n
      <4>1. i \in 0 .. n - 1 /\ g[i] = f[i] /\ (i # 0 => g[i - 1] = f[i - 1])
        BY <2>1, <3>2
      <4>2. f[i] = IF i = 0 THEN <<>>
                   ELSE IF s[i] \in S THEN f[i - 1] ELSE Append(f[i - 1], s[i])
        BY <2>2, <4>1 DEF KeptUpTo
      <4> QED
        BY <4>1, <4>2
    <3> QED
      BY <3>1, <3>2
  <2>4. KeptUpTo(s, S, n, g)
    BY <2>3 DEF KeptUpTo
  <2> QED
    BY <1>1, <2>4
<1> QED
  BY <1>2, <1>3

\* Kept leaves the threads that are not in S, each as often as before.
LEMMA KeptFacts ==
  ASSUME NEW T, NEW s \in Seq(T), IsInjective(s), NEW S
  PROVE  /\ Kept(s, S) \in Seq(T) /\ IsInjective(Kept(s, S))
         /\ ToSet(Kept(s, S)) = ToSet(s) \ S
         /\ ToSet(s) \cap S = {} => Kept(s, S) = s
<1> DEFINE f == CHOOSE f : KeptUpTo(s, S, Len(s), f)
<1>1. KeptUpTo(s, S, Len(s), f)
  <2>1. \E g : KeptUpTo(s, S, Len(s), g)
    BY KeptDefined
  <2> QED
    BY <2>1, Zenon
<1>2. Kept(s, S) = f[Len(s)]
  BY Zenon DEF Kept, KeptUpTo
<1> HIDE DEF f
<1> DEFINE Ok(n) == /\ f[n] \in Seq(T) /\ IsInjective(f[n])
                    /\ ToSet(f[n]) = {s[i] : i \in 1 .. n} \ S
                    /\ ToSet(s) \cap S = {} => f[n] = SubSeq(s, 1, n)
           Bad == {n \in 0 .. Len(s) : ~ Ok(n)}
<1>3. f[0] = <<>>
  BY <1>1 DEF KeptUpTo
<1>4. ASSUME NEW n \in 1 .. Len(s)
      PROVE  f[n] = IF s[n] \in S THEN f[n - 1] ELSE Append(f[n - 1], s[n])
  <2>1. n \in 0 .. Len(s) /\ n # 0
    OBVIOUS
  <2> QED
    BY <1>1, <2>1 DEF KeptUpTo
<1>5. Ok(0)
  BY <1>3, EmptyList
<1>6. ASSUME NEW n \in 1 .. Len(s), Ok(n - 1)
      PROVE  Ok(n)
  <2>1. s[n] \in T /\ n - 1 \in 0 .. Len(s)
    OBVIOUS
  <2>2. {s[i] : i \in 1 .. n} = {s[i] : i \in 1 .. n - 1} \cup {s[n]}
    BY <2>1
  <2>3. SubSeq(s, 1, n) = Append(SubSeq(s, 1, n - 1), s[n])
    BY <2>1
  <2>4. s[n] \in ToSet(s)
    BY DEF ToSet
  <2>5. CASE s[n] \in S
    <3>1. f[n] = f[n - 1]
      BY <1>4, <2>5
    <3> QED
      BY <1>6, <2>2, <2>4, <2>5, <3>1
  <2>6. CASE s[n] \notin S
    <3>1. f[n] = Append(f[n - 1], s[n])
      BY <1>4, <2>6
    <3>2. s[n] \notin {s[i] : i \in 1 .. n - 1}
      BY DEF IsInjective
    <3>3. s[n] \notin ToSet(f[n - 1])
      BY <1>6, <3>2
    <3>4. /\ f[n] \in Seq(T) /\ IsInjective(f[n])
          /\ ToSet(f[n]) = ToSet(f[n - 1]) \cup {s[n]}
      BY <1>6, <2>1, <3>1, <3>3, AppendFacts
    <3> QED
      BY <1>6, <2>2, <2>3, <2>6, <3>1, <3>4
  <2> QED
    BY <2>5, <2>6
<1> HIDE DEF Ok
<1>7. Bad = {}
  <2> SUFFICES ASSUME Bad # {} PROVE FALSE
    OBVIOUS
  <2>1. PICK n \in Bad : \A k \in Bad : n <= k
    <3>1. Bad \subseteq Nat
      OBVIOUS
    <3> QED
      BY <3>1, MinFacts
  <2>2. n # 0
    BY <1>5, <2>1
  <2>3. n \in 1 .. Len(s) /\ n - 1 \in 0 .. Len(s) /\ n - 1 \notin Bad
    BY <2>1, <2>2
  <2> QED
    BY <1>6, <2>1, <2>3
<1>8. Ok(Len(s))
  BY <1>7
<1>9. {s[i] : i \in 1 .. Len(s)} = ToSet(s) /\ SubSeq(s, 1, Len(s)) = s
  BY DEF ToSet
<1> QED
  BY <1>2, <1>8, <1>9 DEF Ok

-----------------------------------------------------------------------------
(***************************************************************************)
(* What the parts that the calls are made of do to a thread.               *)
(***************************************************************************)

\* What the assumptions say of the constants.
LEMMA Constants ==
  /\ TickMod \in Nat /\ TickMod >= 2
  /\ RT_WAITING_FOREVER = -1 /\ NoTimer = -1 /\ NoArg = "none"
  /\ Timeouts \subseteq -1 .. TickMod - 1
  BY TickAssumption, TimeoutsAssumption DEF RT_WAITING_FOREVER, NoTimer, NoArg

\* rt_tick_t wraps.
LEMMA ModRange == \A a \in Int : a % TickMod \in 0 .. TickMod - 1
<1>1. \A a \in Int, m \in Nat : m >= 2 => a % m \in 0 .. m - 1
  OBVIOUS
<1> QED
  BY <1>1, Constants

\* The calls a thread can be in, one place of the code at a time.
LEMMA OpsAtFacts ==
  /\ \A p \in {"run", "return", "done"} : OpsAt(p) = {"none"}
  /\ \A p \in {"wait", "woken"} : OpsAt(p) = Blocking
  /\ \A p \in {"copy", "link"} : OpsAt(p) = {"mq_send", "mq_urgent"}
  /\ \A p \in {"fetch", "free"} : OpsAt(p) = {"mq_recv"}
  /\ \A p \in {"test", "resume"} : OpsAt(p) = {"detach", "dq_reset"}
  /\ OpsAt("relock") = {"mp_alloc"} /\ OpsAt("remove") = {"wqueue_wait"}
  /\ OpsAt("lock") = {"dq_reset"}
  BY DEF OpsAt

\* The list each call waits in; a wait queue keeps nodes of its own instead.
LEMMA ListOfFacts ==
  /\ ListOf("sem_take") = "sem" /\ ListOf("event_recv") = "event"
  /\ ListOf("mb_recv") = "mb" /\ ListOf("mb_send") = "mb_sender"
  /\ ListOf("mq_recv") = "mq" /\ ListOf("mq_send") = "mq_sender"
  /\ ListOf("mp_alloc") = "mp" /\ ListOf("completion_wait") = "completion"
  /\ ListOf("dq_pop") = "dq_pop" /\ ListOf("dq_push") = "dq_push"
  /\ ListOf("wqueue_wait") = "none" /\ "none" \notin List
  BY DEF ListOf, List

\* _ipc_list_suspend adds the thread to the list.
LEMMA ListSuspend ==
  ASSUME NEW s \in Seq(Thread), NEW t \in Thread, IsInjective(s), t \notin ToSet(s)
  PROVE  /\ _ipc_list_suspend(s, t) \in Seq(Thread)
         /\ IsInjective(_ipc_list_suspend(s, t))
         /\ ToSet(_ipc_list_suspend(s, t)) = ToSet(s) \cup {t}
<1> DEFINE I == {i \in 1 .. Len(s) : current_priority[t] < current_priority[s[i]]}
           r == IF I = {} THEN Append(s, t) ELSE InsertAt(s, Min(I), t)
<1>1. /\ r \in Seq(Thread) /\ r # <<>>
      /\ ToSet(r) = ToSet(s) \cup {t}
      /\ IsInjective(s) /\ t \notin ToSet(s) => IsInjective(r)
      /\ OrderedBy(s, current_priority) => OrderedBy(r, current_priority)
  <2>1. current_priority \in [Thread -> Int]
    BY PriorityAssumption
  <2>2. \A i : i \in I <=> i \in 1 .. Len(s) /\ current_priority[t] < current_priority[s[i]]
    OBVIOUS
  <2> HIDE DEF I
  <2> QED
    BY <2>1, <2>2, InsertByRank
<1>2. _ipc_list_suspend(s, t) \in {r, Append(s, t)}
  <2>1. CASE I = {}
    BY <2>1 DEF _ipc_list_suspend, SelectInSeq
  <2>2. CASE I # {}
    BY <2>2 DEF _ipc_list_suspend, SelectInSeq
  <2> QED
    BY <2>1, <2>2
<1>3. /\ Append(s, t) \in Seq(Thread) /\ ToSet(Append(s, t)) = ToSet(s) \cup {t}
      /\ IsInjective(Append(s, t))
  BY AppendFacts
<1> HIDE DEF r
<1> QED
  BY <1>1, <1>2, <1>3

\* The threads other than t are where they were.
Alone(t) ==
  \A u \in Thread \ {t} :
    /\ pc'[u] = pc[u] /\ op'[u] = op[u] /\ error'[u] = error[u]
    /\ thread_timer'[u] = thread_timer[u]

\* Thread t suspends itself in list l.
Queued(t, l) ==
  \A k \in List :
    IF k = l THEN /\ IsInjective(suspend_thread'[k])
                  /\ ToSet(suspend_thread'[k]) = ToSet(suspend_thread[k]) \cup {t}
    ELSE suspend_thread'[k] = suspend_thread[k]

\* The threads in S leave the lists.
Removed(S) ==
  \A k \in List :
    /\ IsInjective(suspend_thread'[k])
    /\ ToSet(suspend_thread'[k]) = ToSet(suspend_thread[k]) \ S
    /\ ToSet(suspend_thread[k]) \cap S = {} => suspend_thread'[k] = suspend_thread[k]

\* Suspend: rt_thread_suspend with the thread put in list l and its timer started.
LEMMA SuspendFacts ==
  ASSUME ThreadInv, NEW t \in Thread, NEW l \in List, NEW n \in -1 .. TickMod - 1,
         pc[t] # "wait", Suspend(t, l, n)
  PROVE  /\ pc' = [pc EXCEPT ![t] = "wait"] /\ pc' \in [Thread -> PC]
         /\ error' = [error EXCEPT ![t] = "EOK"] /\ error' \in [Thread -> Error]
         /\ thread_timer' \in [Thread -> NoTimer .. TickMod - 1]
         /\ \A u \in Thread \ {t} : thread_timer'[u] = thread_timer[u]
         /\ suspend_thread' \in [List -> Seq(Thread)] /\ Queued(t, l)
<1> USE DEF ThreadInv, ThreadTypeOK
<1>1. pc' = [pc EXCEPT ![t] = "wait"] /\ pc' \in [Thread -> PC]
  BY DEF Suspend, PC
<1>2. error' = [error EXCEPT ![t] = "EOK"] /\ error' \in [Thread -> Error]
  BY DEF Suspend, Error
<1>3. /\ thread_timer' \in [Thread -> NoTimer .. TickMod - 1]
      /\ \A u \in Thread \ {t} : thread_timer'[u] = thread_timer[u]
  <2>1. (rt_tick + n) % TickMod \in NoTimer .. TickMod - 1
    <3>1. rt_tick + n \in Int
      BY Constants
    <3>2. (rt_tick + n) % TickMod \in 0 .. TickMod - 1
      BY <3>1, ModRange
    <3> QED
      BY <3>2, Constants
  <2>2. NoTimer \in NoTimer .. TickMod - 1
    BY Constants
  <2> QED
    BY <2>1, <2>2 DEF Suspend
<1> DEFINE s == suspend_thread[l]
           r == CASE l = "mp" -> <<t>> \o s
                  [] l \in {"dq_pop", "dq_push"} -> Append(s, t)
                  [] OTHER -> _ipc_list_suspend(s, t)
<1>4. suspend_thread' = [suspend_thread EXCEPT ![l] = r]
  BY DEF Suspend
<1>5. s \in Seq(Thread) /\ IsInjective(s) /\ t \notin ToSet(s)
  BY DEF SuspendedListed, Waiters
<1> HIDE DEF s
<1>6. /\ <<t>> \o s \in Seq(Thread) /\ ToSet(<<t>> \o s) = ToSet(s) \cup {t}
      /\ IsInjective(<<t>> \o s)
  BY <1>5, ConsFacts
<1>7. /\ Append(s, t) \in Seq(Thread) /\ ToSet(Append(s, t)) = ToSet(s) \cup {t}
      /\ IsInjective(Append(s, t))
  BY <1>5, AppendFacts
<1>8. /\ _ipc_list_suspend(s, t) \in Seq(Thread)
      /\ ToSet(_ipc_list_suspend(s, t)) = ToSet(s) \cup {t}
      /\ IsInjective(_ipc_list_suspend(s, t))
  BY <1>5, ListSuspend
<1>9. r \in {<<t>> \o s, Append(s, t), _ipc_list_suspend(s, t)}
  OBVIOUS
<1> HIDE DEF r
<1>10. r \in Seq(Thread) /\ ToSet(r) = ToSet(s) \cup {t} /\ IsInjective(r)
  BY <1>6, <1>7, <1>8, <1>9
<1>11. suspend_thread' \in [List -> Seq(Thread)]
  BY <1>4, <1>10
<1>12. Queued(t, l)
  BY <1>4, <1>10 DEF Queued, s
<1> QED
  BY <1>1, <1>2, <1>3, <1>11, <1>12

\* Resume: rt_thread_resume takes the threads of S off their lists and stops
\* their timers.
LEMMA ResumeFacts ==
  ASSUME ThreadInv, NEW S, S \subseteq Thread, NEW p \in [Thread -> PC], Resume(S, p)
  PROVE  /\ pc' \in [Thread -> PC]
         /\ \A u \in Thread : pc'[u] = IF u \in S THEN "woken" ELSE p[u]
         /\ thread_timer' \in [Thread -> NoTimer .. TickMod - 1]
         /\ \A u \in S : thread_timer'[u] = NoTimer
         /\ \A u \in Thread \ S : thread_timer'[u] = thread_timer[u]
         /\ suspend_thread' \in [List -> Seq(Thread)] /\ Removed(S)
<1> USE DEF ThreadInv, ThreadTypeOK
<1>1. /\ pc' \in [Thread -> PC]
      /\ \A u \in Thread : pc'[u] = IF u \in S THEN "woken" ELSE p[u]
  BY DEF Resume, PC
<1>2. /\ thread_timer' \in [Thread -> NoTimer .. TickMod - 1]
      /\ \A u \in S : thread_timer'[u] = NoTimer
      /\ \A u \in Thread \ S : thread_timer'[u] = thread_timer[u]
  <2>1. NoTimer \in NoTimer .. TickMod - 1
    BY Constants
  <2> QED
    BY <2>1 DEF Resume
<1>3. ASSUME NEW k \in List
      PROVE  /\ suspend_thread'[k] \in Seq(Thread) /\ IsInjective(suspend_thread'[k])
             /\ ToSet(suspend_thread'[k]) = ToSet(suspend_thread[k]) \ S
             /\ ToSet(suspend_thread[k]) \cap S = {} =>
                  suspend_thread'[k] = suspend_thread[k]
  <2>1. suspend_thread'[k] = Kept(suspend_thread[k], S)
    BY DEF Resume
  <2>2. suspend_thread[k] \in Seq(Thread) /\ IsInjective(suspend_thread[k])
    BY DEF SuspendedListed
  <2> QED
    BY <2>1, <2>2, KeptFacts
<1>4. suspend_thread' \in [List -> Seq(Thread)]
  <2>1. suspend_thread' = [k \in List |-> Kept(suspend_thread[k], S)]
    BY DEF Resume
  <2> QED
    BY <1>3, <2>1
<1> QED
  BY <1>1, <1>2, <1>3, <1>4 DEF Removed

\* A call that returns forgets its arguments.
LEMMA ReturnedFacts ==
  ASSUME ThreadInv, NEW t \in Thread, Returned(t)
  PROVE  /\ op' = [op EXCEPT ![t] = "none"] /\ op' \in [Thread -> Op]
         /\ timeout' \in [Thread -> RT_WAITING_FOREVER .. TickMod - 1]
         /\ tick_delta' \in [Thread -> 0 .. TickMod - 1]
         /\ budget' \in [Thread -> RT_WAITING_FOREVER .. TickMod - 1]
<1> USE DEF ThreadInv, ThreadTypeOK
<1>1. 0 \in RT_WAITING_FOREVER .. TickMod - 1 /\ 0 \in 0 .. TickMod - 1
  BY Constants
<1> QED
  BY <1>1 DEF Returned, Op

\* The first waiter of a list.
LEMMA FirstFacts ==
  ASSUME ThreadInv, NEW l \in List
  PROVE  /\ First(l) \subseteq Waiters(l)
         /\ First(l) = {} <=> suspend_thread[l] = <<>>
         /\ \A u \in Waiters(l) : u \in Thread /\ pc[u] = "wait" /\ ListOf(op[u]) = l
<1>1. suspend_thread[l] \in Seq(Thread)
  BY DEF ThreadInv, ThreadTypeOK
<1>2. suspend_thread[l] # <<>> => Head(suspend_thread[l]) \in ToSet(suspend_thread[l])
  BY <1>1, HeadFacts
<1> QED
  BY <1>2 DEF First, Waiters, ThreadInv, SuspendedListed

\* What is left of a timeout.
LEMMA TimeLeftRange ==
  ASSUME ThreadInv, NEW t \in Thread
  PROVE  TimeLeft(t) \in -1 .. TickMod - 1
<1>1. timeout[t] \in -1 .. TickMod - 1 /\ rt_tick \in Int /\ tick_delta[t] \in Int
  BY Constants DEF ThreadInv, ThreadTypeOK
<1>2. Minus(rt_tick, tick_delta[t]) \in 0 .. TickMod - 1
  BY <1>1, ModRange DEF Minus
<1> QED
  BY <1>1, <1>2, Constants DEF TimeLeft, Maximum

-----------------------------------------------------------------------------
(***************************************************************************)
(* The two kinds of steps: a thread suspends itself, or the threads of a   *)
(* set are woken.  P are the calls that the step is about.                 *)
(***************************************************************************)

Sleeps(t, P) ==
  /\ op[t] \in P /\ op'[t] \in P
  /\ pc[t] # "wait" /\ pc'[t] = "wait" /\ op'[t] \in Blocking /\ error'[t] = "EOK"
  /\ Alone(t) /\ lists' = lists
  /\ Queued(t, ListOf(op'[t]))

\* The threads in A (one or none) act, those in S are woken.
Wakes(A, S, P) ==
  /\ A \subseteq Thread /\ S \subseteq Thread
  /\ \A u \in A : /\ op[u] \in P /\ op'[u] \in P
                  /\ pc[u] # "wait" /\ pc'[u] \notin {"wait", "woken"}
                  /\ op'[u] \in OpsAt(pc'[u])
                  /\ pc'[u] = "done" => "completion_wait" \in P
                  /\ pc'[u] = "resume" => lists'[u] # <<>>
  /\ \A u \in S : /\ op[u] \in P /\ op'[u] = op[u] /\ lists'[u] = lists[u]
                  /\ pc[u] = "wait" /\ pc'[u] = "woken" /\ thread_timer'[u] = NoTimer
  /\ \A u \in Thread \ (A \cup S) :
       pc'[u] = pc[u] /\ op'[u] = op[u] /\ error'[u] = error[u] /\ lists'[u] = lists[u]
  /\ \A u \in Thread \ S : thread_timer'[u] = thread_timer[u]
  /\ Removed(S)

\* A thread acts and wakes nobody.
Runs(t, P) ==
  /\ op[t] \in P /\ op'[t] \in P
  /\ pc[t] # "wait" /\ pc'[t] \notin {"wait", "woken"}
  /\ op'[t] \in OpsAt(pc'[t])
  /\ pc'[t] = "done" => "completion_wait" \in P
  /\ pc'[t] = "resume" => lists'[t] # <<>>
  /\ \A u \in Thread \ {t} :
       pc'[u] = pc[u] /\ op'[u] = op[u] /\ error'[u] = error[u] /\ lists'[u] = lists[u]
  /\ UNCHANGED <<thread_timer, suspend_thread>>

\* A step that suspends and resumes nobody is one that wakes no thread.
LEMMA RunsWakes ==
  ASSUME ThreadInv, NEW t \in Thread, NEW P, Runs(t, P)
  PROVE  Wakes({t}, {}, P)
  BY DEF Runs, Wakes, Removed, ThreadInv, SuspendedListed

\* Either kind keeps every suspended thread in its list and in no other.
LEMMA SleepsKeeps ==
  ASSUME ThreadInv, ThreadTypeOK', NEW t \in Thread, NEW P, Sleeps(t, P)
  PROVE  ThreadInv'
<1>1. CallFits'
  BY OpsAtFacts DEF Sleeps, Alone, ThreadInv, CallFits
<1>2. LoopFits'
  BY DEF Sleeps, Alone, ThreadInv, LoopFits
<1>3. ASSUME NEW l \in List
      PROVE  /\ IsInjective(suspend_thread'[l])
             /\ ToSet(suspend_thread'[l]) = {u \in Thread : pc'[u] = "wait" /\ ListOf(op'[u]) = l}
  <2>1. /\ IsInjective(suspend_thread[l])
        /\ ToSet(suspend_thread[l]) = {u \in Thread : pc[u] = "wait" /\ ListOf(op[u]) = l}
    BY DEF ThreadInv, SuspendedListed, Waiters
  <2>2. \A u \in Thread \ {t} : pc'[u] = pc[u] /\ op'[u] = op[u]
    BY DEF Sleeps, Alone
  <2>3. pc[t] # "wait" /\ pc'[t] = "wait"
    BY DEF Sleeps
  <2>4. CASE l = ListOf(op'[t])
    <3>1. /\ IsInjective(suspend_thread'[l])
          /\ ToSet(suspend_thread'[l]) = ToSet(suspend_thread[l]) \cup {t}
      BY <2>4 DEF Sleeps, Queued
    <3> QED
      BY <2>1, <2>2, <2>3, <2>4, <3>1
  <2>5. CASE l # ListOf(op'[t])
    <3>1. suspend_thread'[l] = suspend_thread[l]
      BY <2>5 DEF Sleeps, Queued
    <3> QED
      BY <2>1, <2>2, <2>3, <2>5, <3>1
  <2> QED
    BY <2>4, <2>5
<1>4. \A u \in Thread : thread_timer'[u] # NoTimer => pc'[u] = "wait"
  BY DEF Sleeps, Alone, ThreadInv, SuspendedListed
<1> QED
  BY <1>1, <1>2, <1>3, <1>4 DEF ThreadInv, SuspendedListed, Waiters

\* Resuming threads keeps the invariant of the threads.
LEMMA WakesKeeps ==
  ASSUME ThreadInv, ThreadTypeOK', NEW A, NEW S, NEW P, Wakes(A, S, P)
  PROVE  ThreadInv'
<1>1. CallFits'
  BY OpsAtFacts DEF Wakes, ThreadInv, CallFits
<1>2. LoopFits'
  BY DEF Wakes, ThreadInv, LoopFits
<1>3. ASSUME NEW l \in List
      PROVE  /\ IsInjective(suspend_thread'[l])
             /\ ToSet(suspend_thread'[l]) = {u \in Thread : pc'[u] = "wait" /\ ListOf(op'[u]) = l}
  <2>1. ToSet(suspend_thread[l]) = {u \in Thread : pc[u] = "wait" /\ ListOf(op[u]) = l}
    BY DEF ThreadInv, SuspendedListed, Waiters
  <2>2. /\ \A u \in A : pc[u] # "wait" /\ pc'[u] # "wait"
        /\ \A u \in S : pc'[u] = "woken"
        /\ \A u \in Thread \ (A \cup S) : pc'[u] = pc[u] /\ op'[u] = op[u]
    BY DEF Wakes
  <2>3. /\ IsInjective(suspend_thread'[l])
        /\ ToSet(suspend_thread'[l]) = ToSet(suspend_thread[l]) \ S
    BY DEF Wakes, Removed
  <2> QED
    BY <2>1, <2>2, <2>3
<1>4. \A u \in Thread : thread_timer'[u] # NoTimer => pc'[u] = "wait"
  <2> SUFFICES ASSUME NEW u \in Thread, thread_timer'[u] # NoTimer PROVE pc'[u] = "wait"
    OBVIOUS
  <2>1. u \notin S /\ thread_timer[u] # NoTimer
    BY DEF Wakes
  <2>2. pc[u] = "wait"
    BY <2>1 DEF ThreadInv, SuspendedListed
  <2> QED
    BY <2>1, <2>2 DEF Wakes
<1> QED
  BY <1>1, <1>2, <1>3, <1>4 DEF ThreadInv, SuspendedListed, Waiters

\* What a step of either kind leaves alone: the threads in other calls, and the
\* lists of other calls.
Frame(P) ==
  /\ \A u \in Thread : op[u] \notin P \/ op'[u] \notin P =>
       /\ op[u] \notin P /\ op'[u] = op[u] /\ pc'[u] = pc[u] /\ error'[u] = error[u]
       /\ thread_timer'[u] = thread_timer[u] /\ lists'[u] = lists[u]
  /\ \A l \in List : (\A o \in P \cap Blocking : ListOf(o) # l) =>
       suspend_thread'[l] = suspend_thread[l]

\* A thread that suspends itself in a call of P disturbs only the calls of P.
LEMMA SleepsFrame ==
  ASSUME ThreadInv, NEW t \in Thread, NEW P, Sleeps(t, P)
  PROVE  Frame(P)
  BY DEF Sleeps, Alone, Queued, Frame

\* So does a step that resumes threads in calls of P.
LEMMA WakesFrame ==
  ASSUME ThreadInv, NEW A, NEW S, NEW P, Wakes(A, S, P)
  PROVE  Frame(P)
<1>1. ASSUME NEW u \in Thread, op[u] \notin P \/ op'[u] \notin P
      PROVE  /\ op[u] \notin P /\ op'[u] = op[u] /\ pc'[u] = pc[u] /\ error'[u] = error[u]
             /\ thread_timer'[u] = thread_timer[u] /\ lists'[u] = lists[u]
  BY <1>1 DEF Wakes
<1>2. ASSUME NEW l \in List, \A o \in P \cap Blocking : ListOf(o) # l
      PROVE  suspend_thread'[l] = suspend_thread[l]
  <2>1. ASSUME NEW u \in ToSet(suspend_thread[l]) PROVE u \notin S
    <3>1. u \in Thread /\ pc[u] = "wait" /\ ListOf(op[u]) = l
      BY DEF ThreadInv, SuspendedListed, Waiters
    <3>2. op[u] \in Blocking
      BY <3>1, OpsAtFacts DEF ThreadInv, CallFits
    <3> QED
      BY <1>2, <3>1, <3>2 DEF Wakes
  <2> QED
    BY <2>1 DEF Wakes, Removed
<1> QED
  BY <1>1, <1>2 DEF Frame

-----------------------------------------------------------------------------
(***************************************************************************)
(* The shapes of the calls.                                                *)
(***************************************************************************)

\* The local variables of the other threads' calls.
LocalsKept(t) ==
  /\ arg' = arg \/ \E a : arg' = [arg EXCEPT ![t] = a]
  /\ \A u \in Thread \ {t} :
       timeout'[u] = timeout[u] /\ tick_delta'[u] = tick_delta[u] /\ budget'[u] = budget[u]

\* The calls that subtract the time they have waited in the section they wait in.
ChannelWaits == {"mb_send", "mb_recv", "mq_send", "mq_recv"}

\* How long thread t is going to wait: for the timeout of its call, or for what is
\* left of it.
Timed(t) ==
  \/ op'[t] \in {"mp_alloc", "dq_push", "dq_pop"}
  \/ \E n \in (-1 .. TickMod - 1) \ {0} :
       /\ thread_timer'[t] = IF n > 0 THEN (rt_tick + n) % TickMod ELSE NoTimer
       /\ timeout'[t] = n
       /\ n > 0 /\ op'[t] \in ChannelWaits => tick_delta'[t] = rt_tick
       /\ \/ budget'[t] = n
          \/ /\ pc[t] = "woken" /\ op[t] \in ChannelWaits
             /\ n = TimeLeft(t) /\ budget'[t] = budget[t]

\* A step of thread t is of one of the two kinds.
Steps(t, P) ==
  /\ ThreadTypeOK' /\ LocalsKept(t) /\ exists \subseteq exists' /\ rt_tick' = rt_tick
  /\ (Sleeps(t, P) /\ Timed(t)) \/ \E S : Wakes({t}, S, P)

\* A new object.
LEMMA CreateStep ==
  ASSUME ThreadInv, NEW t \in Thread, NEW o, Creating(t, o), UNCHANGED threadVars,
         NEW P, "none" \in P
  PROVE  Steps(t, P)
<1>1. op[t] = "none" /\ pc[t] = "run" /\ o \in Object
  BY OpsAtFacts, ObjectsAssumption DEF Creating, ThreadInv, CallFits
<1>2. ThreadTypeOK'
  BY <1>1 DEF ThreadInv, ThreadTypeOK, Creating, threadVars
<1>3. Runs(t, P)
  BY <1>1, OpsAtFacts DEF Runs, threadVars
<1>4. LocalsKept(t)
  BY DEF LocalsKept, threadVars
<1> QED
  BY <1>2, <1>3, <1>4, RunsWakes DEF Steps, Creating, threadVars

\* Nothing happens to the threads.
LEMMA IdleStep ==
  ASSUME ThreadInv, NEW t \in Thread, pc[t] = "run", UNCHANGED <<exists, threadVars>>,
         NEW P, "none" \in P
  PROVE  Steps(t, P)
<1>1. op[t] = "none"
  BY OpsAtFacts DEF ThreadInv, CallFits
<1>2. ThreadTypeOK'
  BY DEF ThreadInv, ThreadTypeOK, threadVars
<1>3. Runs(t, P)
  BY <1>1, OpsAtFacts DEF Runs, threadVars
<1>4. LocalsKept(t)
  BY DEF LocalsKept, threadVars
<1> QED
  BY <1>2, <1>3, <1>4, RunsWakes DEF Steps, threadVars

\* The first wait of a call.
LEMMA WaitStep ==
  ASSUME ThreadInv, NEW t \in Thread, pc[t] = "run",
         NEW o \in Blocking \ {"wqueue_wait"}, NEW a, NEW n \in Timeouts,
         Wait(t, o, a, ListOf(o), n),
         tick_delta' \in [Thread -> 0 .. TickMod - 1],
         \A u \in Thread \ {t} : tick_delta'[u] = tick_delta[u],
         n > 0 /\ o \in ChannelWaits => tick_delta'[t] = rt_tick,
         NEW P, "none" \in P, o \in P
  PROVE  Steps(t, P)
<1>1. op[t] = "none"
  BY OpsAtFacts DEF ThreadInv, CallFits
<1>2. ListOf(o) \in List
  BY ListOfFacts DEF Blocking, List
<1>3. n \in -1 .. TickMod - 1
  BY Constants
<1>4. /\ pc' = [pc EXCEPT ![t] = "wait"] /\ pc' \in [Thread -> PC]
      /\ error' = [error EXCEPT ![t] = "EOK"] /\ error' \in [Thread -> Error]
      /\ thread_timer' \in [Thread -> NoTimer .. TickMod - 1]
      /\ \A u \in Thread \ {t} : thread_timer'[u] = thread_timer[u]
      /\ suspend_thread' \in [List -> Seq(Thread)] /\ Queued(t, ListOf(o))
  <2>1. pc[t] # "wait" /\ Suspend(t, ListOf(o), n)
    BY DEF Wait
  <2> QED
    BY <1>2, <1>3, <2>1, SuspendFacts
<1>5. op' = [op EXCEPT ![t] = o] /\ op' \in [Thread -> Op] /\ op'[t] = o
  BY DEF Wait, ThreadInv, ThreadTypeOK, Blocking, Op
<1>6. ThreadTypeOK'
  <2>1. n \in RT_WAITING_FOREVER .. TickMod - 1
    BY <1>3, Constants
  <2> QED
    BY <1>4, <1>5, <2>1 DEF Wait, ThreadInv, ThreadTypeOK
<1>7. Sleeps(t, P)
  <2>1. pc'[t] = "wait" /\ error'[t] = "EOK" /\ lists' = lists
    BY <1>4 DEF Wait, ThreadInv, ThreadTypeOK
  <2>2. Alone(t)
    BY <1>4, <1>5 DEF Alone, ThreadInv, ThreadTypeOK
  <2> QED
    BY <1>1, <1>4, <1>5, <2>1, <2>2 DEF Sleeps
<1>8. LocalsKept(t)
  BY DEF LocalsKept, Wait, ThreadInv, ThreadTypeOK
<1>9. Timed(t)
  <2>1. thread_timer' = [thread_timer EXCEPT ![t] =
                           IF n > 0 THEN (rt_tick + n) % TickMod ELSE NoTimer]
    BY DEF Wait, Suspend
  <2>2. thread_timer'[t] = IF n > 0 THEN (rt_tick + n) % TickMod ELSE NoTimer
    BY <2>1 DEF ThreadInv, ThreadTypeOK
  <2>3. n # 0 /\ timeout'[t] = n /\ budget'[t] = n
    BY DEF Wait, ThreadInv, ThreadTypeOK
  <2> QED
    BY <1>3, <1>5, <2>2, <2>3 DEF Timed
<1> QED
  BY <1>6, <1>7, <1>8, <1>9 DEF Steps, Wait

\* ... of a call that notes the tick.
LEMMA TimedWaitStep ==
  ASSUME ThreadInv, NEW t \in Thread, pc[t] = "run",
         NEW o \in Blocking \ {"wqueue_wait"}, NEW a, NEW n \in Timeouts,
         TimedWait(t, o, a, n), NEW P, "none" \in P, o \in P
  PROVE  Steps(t, P)
<1>1. /\ tick_delta' \in [Thread -> 0 .. TickMod - 1]
      /\ \A u \in Thread \ {t} : tick_delta'[u] = tick_delta[u]
      /\ n > 0 => tick_delta'[t] = rt_tick
  BY DEF TimedWait, ThreadInv, ThreadTypeOK
<1>2. Wait(t, o, a, ListOf(o), n)
  BY DEF TimedWait
<1> QED
  BY <1>1, <1>2, WaitStep

\* A thread wakes those in S and goes on at q in the call it was in.
LEMMA WakeStep ==
  ASSUME ThreadInv, NEW t \in Thread, NEW q \in PC, NEW S, NEW P,
         pc[t] # "wait", q \notin {"wait", "woken"}, op[t] \in P, op[t] \in OpsAt(q),
         q = "done" => "completion_wait" \in P, q = "resume" => lists[t] # <<>>,
         \A u \in S : u \in Thread /\ pc[u] = "wait" /\ op[u] \in P,
         Resume(S, [pc EXCEPT ![t] = q]),
         NEW e \in Error, SetError(S, e) \/ UNCHANGED error,
         UNCHANGED <<exists, op, arg, rt_tick, timeout, tick_delta, budget, lists>>
  PROVE  Steps(t, P) /\ Wakes({t}, S, P)
<1> DEFINE p == [pc EXCEPT ![t] = q]
<1>1. S \subseteq Thread /\ t \notin S /\ p \in [Thread -> PC]
  BY DEF ThreadInv, ThreadTypeOK
<1>2. p[t] = q /\ \A u \in Thread \ {t} : p[u] = pc[u]
  BY DEF ThreadInv, ThreadTypeOK
<1> HIDE DEF p
<1>3. /\ pc' \in [Thread -> PC]
      /\ \A u \in Thread : pc'[u] = IF u \in S THEN "woken" ELSE p[u]
      /\ thread_timer' \in [Thread -> NoTimer .. TickMod - 1]
      /\ \A u \in S : thread_timer'[u] = NoTimer
      /\ \A u \in Thread \ S : thread_timer'[u] = thread_timer[u]
      /\ suspend_thread' \in [List -> Seq(Thread)] /\ Removed(S)
  BY <1>1, ResumeFacts DEF p
<1>4. error' \in [Thread -> Error] /\ \A u \in Thread \ S : error'[u] = error[u]
  BY DEF SetError, ThreadInv, ThreadTypeOK
<1>5. ThreadTypeOK'
  BY <1>3, <1>4 DEF ThreadInv, ThreadTypeOK
<1>6. Wakes({t}, S, P)
  BY <1>1, <1>2, <1>3, <1>4 DEF Wakes
<1>7. LocalsKept(t)
  BY DEF LocalsKept
<1> QED
  BY <1>5, <1>6, <1>7 DEF Steps

\* The same for a thread that stays where it is.
LEMMA WakeStay ==
  ASSUME ThreadInv, NEW t \in Thread, NEW S, NEW P, pc[t] = "run", "none" \in P,
         \A u \in S : u \in Thread /\ pc[u] = "wait" /\ op[u] \in P,
         Resume(S, pc),
         NEW e \in Error, SetError(S, e) \/ UNCHANGED error,
         UNCHANGED <<exists, op, arg, rt_tick, timeout, tick_delta, budget, lists>>
  PROVE  Steps(t, P) /\ Wakes({t}, S, P)
<1>1. op[t] = "none" /\ "run" \in PC /\ op[t] \in OpsAt("run")
  BY OpsAtFacts DEF ThreadInv, CallFits, PC
<1>2. [pc EXCEPT ![t] = "run"] = pc
  BY DEF ThreadInv, ThreadTypeOK
<1>3. Resume(S, [pc EXCEPT ![t] = "run"])
  BY <1>2
<1> QED
  BY <1>1, <1>3, WakeStep

\* A thread wakes those in S and its call is over.
LEMMA WakeReturn ==
  ASSUME ThreadInv, NEW t \in Thread, NEW q \in {"run", "return"}, NEW S, NEW P,
         pc[t] # "wait", op[t] \in P, "none" \in P,
         \A u \in S : u \in Thread /\ pc[u] = "wait" /\ op[u] \in P,
         Resume(S, [pc EXCEPT ![t] = q]), Returned(t),
         UNCHANGED <<exists, error, rt_tick, lists>>
  PROVE  Steps(t, P) /\ Wakes({t}, S, P)
<1> DEFINE p == [pc EXCEPT ![t] = q]
<1>1. S \subseteq Thread /\ t \notin S /\ p \in [Thread -> PC]
  BY DEF ThreadInv, ThreadTypeOK, PC
<1>2. p[t] = q /\ \A u \in Thread \ {t} : p[u] = pc[u]
  BY DEF ThreadInv, ThreadTypeOK
<1> HIDE DEF p
<1>3. /\ pc' \in [Thread -> PC]
      /\ \A u \in Thread : pc'[u] = IF u \in S THEN "woken" ELSE p[u]
      /\ thread_timer' \in [Thread -> NoTimer .. TickMod - 1]
      /\ \A u \in S : thread_timer'[u] = NoTimer
      /\ \A u \in Thread \ S : thread_timer'[u] = thread_timer[u]
      /\ suspend_thread' \in [List -> Seq(Thread)] /\ Removed(S)
  BY <1>1, ResumeFacts DEF p
<1>4. /\ op' = [op EXCEPT ![t] = "none"] /\ op' \in [Thread -> Op]
      /\ timeout' \in [Thread -> RT_WAITING_FOREVER .. TickMod - 1]
      /\ tick_delta' \in [Thread -> 0 .. TickMod - 1]
      /\ budget' \in [Thread -> RT_WAITING_FOREVER .. TickMod - 1]
  BY ReturnedFacts
<1>5. op'[t] = "none" /\ \A u \in Thread \ {t} : op'[u] = op[u]
  BY <1>4 DEF ThreadInv, ThreadTypeOK
<1>6. ThreadTypeOK'
  BY <1>3, <1>4 DEF ThreadInv, ThreadTypeOK
<1>7. Wakes({t}, S, P)
  BY <1>1, <1>2, <1>3, <1>5, OpsAtFacts DEF Wakes
<1>8. LocalsKept(t)
  BY DEF LocalsKept, Returned, ThreadInv, ThreadTypeOK
<1> QED
  BY <1>6, <1>7, <1>8 DEF Steps

\* The call of t is over, and nobody is woken.
LEMMA ReturnStep ==
  ASSUME ThreadInv, NEW t \in Thread, NEW P, pc[t] # "wait", op[t] \in P, "none" \in P,
         pc' = [pc EXCEPT ![t] = "run"], Returned(t),
         NEW e \in Error, error' = [error EXCEPT ![t] = e] \/ UNCHANGED error,
         UNCHANGED <<exists, rt_tick, thread_timer, suspend_thread, lists>>
  PROVE  Steps(t, P)
<1>1. /\ op' = [op EXCEPT ![t] = "none"] /\ op' \in [Thread -> Op]
      /\ timeout' \in [Thread -> RT_WAITING_FOREVER .. TickMod - 1]
      /\ tick_delta' \in [Thread -> 0 .. TickMod - 1]
      /\ budget' \in [Thread -> RT_WAITING_FOREVER .. TickMod - 1]
  BY ReturnedFacts
<1>2. pc' \in [Thread -> PC] /\ pc'[t] = "run" /\ \A u \in Thread \ {t} : pc'[u] = pc[u]
  BY DEF ThreadInv, ThreadTypeOK, PC
<1>3. error' \in [Thread -> Error] /\ \A u \in Thread \ {t} : error'[u] = error[u]
  BY DEF ThreadInv, ThreadTypeOK
<1>4. op'[t] = "none" /\ \A u \in Thread \ {t} : op'[u] = op[u]
  BY <1>1 DEF ThreadInv, ThreadTypeOK
<1>5. ThreadTypeOK'
  BY <1>1, <1>2, <1>3 DEF ThreadInv, ThreadTypeOK
<1>6. Runs(t, P)
  BY <1>2, <1>3, <1>4, OpsAtFacts DEF Runs
<1>7. LocalsKept(t)
  BY DEF LocalsKept, Returned, ThreadInv, ThreadTypeOK
<1> QED
  BY <1>5, <1>6, <1>7, RunsWakes DEF Steps

\* A thread goes on at q in the call o.
LEMMA MoveStep ==
  ASSUME ThreadInv, NEW t \in Thread, NEW q \in PC, NEW o \in Op, NEW P,
         pc[t] # "wait", q \notin {"wait", "woken"}, op[t] \in P, o \in P, o \in OpsAt(q),
         q = "done" => "completion_wait" \in P,
         pc' = [pc EXCEPT ![t] = q], op' = [op EXCEPT ![t] = o],
         q = "resume" => lists'[t] # <<>>,
         lists' \in [Thread -> Seq(DetachList)],
         \A u \in Thread \ {t} : lists'[u] = lists[u],
         timeout' \in [Thread -> RT_WAITING_FOREVER .. TickMod - 1],
         tick_delta' \in [Thread -> 0 .. TickMod - 1],
         budget' \in [Thread -> RT_WAITING_FOREVER .. TickMod - 1],
         LocalsKept(t), UNCHANGED <<exists, error, rt_tick, thread_timer, suspend_thread>>
  PROVE  Steps(t, P)
<1>1. pc' \in [Thread -> PC] /\ pc'[t] = q /\ \A u \in Thread \ {t} : pc'[u] = pc[u]
  BY DEF ThreadInv, ThreadTypeOK
<1>2. op' \in [Thread -> Op] /\ op'[t] = o /\ \A u \in Thread \ {t} : op'[u] = op[u]
  BY DEF ThreadInv, ThreadTypeOK
<1>3. ThreadTypeOK'
  BY <1>1, <1>2 DEF ThreadInv, ThreadTypeOK
<1>4. Runs(t, P)
  BY <1>1, <1>2 DEF Runs
<1> QED
  BY <1>3, <1>4, RunsWakes DEF Steps

\* A thread waits again in the call it is in.
LEMMA SuspendStep ==
  ASSUME ThreadInv, NEW t \in Thread, NEW P, pc[t] # "wait",
         op[t] \in P, op[t] \in Blocking \ {"wqueue_wait"},
         NEW n \in -1 .. TickMod - 1, Suspend(t, ListOf(op[t]), n),
         timeout' \in [Thread -> RT_WAITING_FOREVER .. TickMod - 1],
         tick_delta' \in [Thread -> 0 .. TickMod - 1],
         LocalsKept(t), Timed(t), UNCHANGED <<op, budget, exists, rt_tick, lists>>
  PROVE  Steps(t, P)
<1> DEFINE l == ListOf(op[t])
<1>1. l \in List
  BY ListOfFacts DEF Blocking, List
<1>2. Suspend(t, l, n)
  OBVIOUS
<1> HIDE DEF l
<1>3. /\ pc' = [pc EXCEPT ![t] = "wait"] /\ pc' \in [Thread -> PC]
      /\ error' = [error EXCEPT ![t] = "EOK"] /\ error' \in [Thread -> Error]
      /\ thread_timer' \in [Thread -> NoTimer .. TickMod - 1]
      /\ \A u \in Thread \ {t} : thread_timer'[u] = thread_timer[u]
      /\ suspend_thread' \in [List -> Seq(Thread)] /\ Queued(t, l)
  BY <1>1, <1>2, SuspendFacts
<1>4. ThreadTypeOK'
  BY <1>3 DEF ThreadInv, ThreadTypeOK
<1>5. Sleeps(t, P)
  <2>1. pc'[t] = "wait" /\ error'[t] = "EOK"
    BY <1>3 DEF ThreadInv, ThreadTypeOK
  <2>2. Alone(t)
    BY <1>3 DEF Alone, ThreadInv, ThreadTypeOK
  <2> QED
    BY <1>3, <2>1, <2>2 DEF Sleeps, l
<1>6. LocalsKept(t)
  BY DEF LocalsKept
<1> QED
  BY <1>4, <1>5, <1>6 DEF Steps

\* A woken thread waits for the rest of its time, or gives up.
LEMMA AgainStep ==
  ASSUME ThreadInv, NEW t \in Thread, NEW P, pc[t] = "woken",
         op[t] \in P \cap ChannelWaits, "none" \in P, WaitAgain(t)
  PROVE  Steps(t, P)
<1>1. op[t] \in Blocking \ {"wqueue_wait"}
  BY DEF ChannelWaits, Blocking
<1>2. CASE TimeLeft(t) = 0
  <2>1. /\ pc' = [pc EXCEPT ![t] = "run"] /\ Returned(t)
        /\ UNCHANGED <<exists, rt_tick, thread_timer, suspend_thread, lists>>
    BY <1>2 DEF WaitAgain
  <2>2. \E e \in Error : error' = [error EXCEPT ![t] = e]
    BY <1>2 DEF WaitAgain, Error
  <2> QED
    BY <2>1, <2>2, ReturnStep
<1>3. CASE TimeLeft(t) # 0
  <2> DEFINE n == TimeLeft(t)
  <2>1. n \in -1 .. TickMod - 1 /\ n \in RT_WAITING_FOREVER .. TickMod - 1
    BY TimeLeftRange, Constants
  <2>2. /\ Suspend(t, ListOf(op[t]), n)
        /\ UNCHANGED <<op, arg, budget, exists, rt_tick, lists>>
    BY <1>3 DEF WaitAgain
  <2>3. /\ timeout' = [timeout EXCEPT ![t] = n]
        /\ tick_delta' = [tick_delta EXCEPT ![t] = IF n > 0 THEN rt_tick ELSE @]
    BY <1>3 DEF WaitAgain
  <2> HIDE DEF n
  <2>4. /\ timeout' \in [Thread -> RT_WAITING_FOREVER .. TickMod - 1]
        /\ tick_delta' \in [Thread -> 0 .. TickMod - 1]
    BY <2>1, <2>3 DEF ThreadInv, ThreadTypeOK
  <2>5. LocalsKept(t)
    BY <2>2, <2>3 DEF LocalsKept, ThreadInv, ThreadTypeOK
  <2>6. Timed(t)
    <3>1. thread_timer' = [thread_timer EXCEPT ![t] =
                             IF n > 0 THEN (rt_tick + n) % TickMod ELSE NoTimer]
      BY <2>2 DEF Suspend
    <3>2. thread_timer'[t] = IF n > 0 THEN (rt_tick + n) % TickMod ELSE NoTimer
      BY <3>1 DEF ThreadInv, ThreadTypeOK
    <3>3. /\ n # 0 /\ n = TimeLeft(t) /\ timeout'[t] = n /\ budget'[t] = budget[t]
          /\ n > 0 => tick_delta'[t] = rt_tick
      BY <1>3, <2>2, <2>3 DEF ThreadInv, ThreadTypeOK, n
    <3> QED
      BY <2>1, <3>2, <3>3 DEF Timed
  <2> QED
    BY <1>1, <2>1, <2>2, <2>4, <2>5, <2>6, SuspendStep
<1> QED
  BY <1>2, <1>3

-----------------------------------------------------------------------------
(***************************************************************************)
(* Every step of every object is of one of the two kinds.                  *)
(***************************************************************************)

SemOps        == {"none", "sem_take"}
EventOps      == {"none", "event_recv"}
MailboxOps    == {"none", "mb_send", "mb_recv"}
MqOps         == {"none", "mq_send", "mq_urgent", "mq_recv"}
MemPoolOps    == {"none", "mp_alloc"}
CompletionOps == {"none", "completion_wait"}
WaitQueueOps  == {"none", "wqueue_wait"}
DataQueueOps  == {"none", "dq_push", "dq_pop", "dq_reset"}

\* A thread that calls is in no other call.
LEMMA CallingFacts ==
  ASSUME ThreadInv, NEW t \in Thread, pc[t] = "run"
  PROVE  op[t] = "none"
  BY OpsAtFacts DEF ThreadInv, CallFits

\* The waiters of a list are in the calls that wait there.
LEMMA WaitersIn ==
  ASSUME ThreadInv, NEW l \in List, NEW P,
         \A o \in Blocking : ListOf(o) = l => o \in P
  PROVE  \A u \in Waiters(l) : u \in Thread /\ pc[u] = "wait" /\ op[u] \in P
<1> SUFFICES ASSUME NEW u \in Waiters(l)
             PROVE  u \in Thread /\ pc[u] = "wait" /\ op[u] \in P
  OBVIOUS
<1>1. u \in Thread /\ pc[u] = "wait" /\ ListOf(op[u]) = l
  BY FirstFacts
<1>2. op[u] \in Blocking
  BY <1>1, OpsAtFacts DEF ThreadInv, CallFits
<1> QED
  BY <1>1, <1>2

\* Whom the calls on each object find in their lists.
LEMMA ListOps ==
  /\ {"sem", "event", "mb", "mb_sender", "mq", "mq_sender", "mp", "completion",
      "dq_pop", "dq_push"} \subseteq List
  /\ \A o \in Blocking :
       /\ ListOf(o) = "sem" => o \in SemOps
       /\ ListOf(o) = "event" => o \in EventOps
       /\ ListOf(o) \in {"mb", "mb_sender"} => o \in MailboxOps
       /\ ListOf(o) \in {"mq", "mq_sender"} => o \in MqOps
       /\ ListOf(o) = "mp" => o \in MemPoolOps
       /\ ListOf(o) = "completion" => o \in CompletionOps
       /\ ListOf(o) \in {"dq_pop", "dq_push"} => o \in DataQueueOps
  BY ListOfFacts DEF Blocking, List, SemOps, EventOps, MailboxOps, MqOps, MemPoolOps,
     CompletionOps, DataQueueOps

\* Every step of the semaphore suspends its caller or resumes waiters of the
\* semaphore.
LEMMA SemKind ==
  ASSUME ThreadInv, NEW t \in Thread, SemStep(t)
  PROVE  Steps(t, SemOps)
<1>1. \A u \in Waiters("sem") : u \in Thread /\ pc[u] = "wait" /\ op[u] \in SemOps
  BY WaitersIn, ListOps
<1>2. First("sem") \subseteq Waiters("sem")
  BY FirstFacts, ListOps
<1>3. "none" \in SemOps /\ "sem_take" \in SemOps /\ "EOK" \in Error /\ "ERROR" \in Error
  BY DEF SemOps, Error
<1>4. CASE TakeNow(t)
  <2>1. pc[t] = "run" /\ UNCHANGED <<exists, threadVars>>
    BY <1>4 DEF TakeNow, Calling
  <2> QED
    BY <1>3, <2>1, IdleStep
<1>5. CASE TakeReturn(t)
  <2>1. pc[t] # "wait" /\ op[t] \in SemOps
    BY <1>3, <1>5 DEF TakeReturn
  <2>2. /\ pc' = [pc EXCEPT ![t] = "run"] /\ Returned(t) /\ exists' = exists
        /\ UNCHANGED <<error, rt_tick, thread_timer, suspend_thread, lists>>
    BY <1>5 DEF TakeReturn
  <2> QED
    BY <1>3, <2>1, <2>2, ReturnStep
<1>6. CASE rt_sem_release(t)
  <2>1. pc[t] = "run"
    BY <1>6 DEF rt_sem_release, Calling
  <2>2. Resume(First("sem"), pc)
    BY <1>6 DEF rt_sem_release
  <2>3. UNCHANGED <<exists, op, arg, error, rt_tick, timeout, tick_delta, budget, lists>>
    BY <1>6 DEF rt_sem_release
  <2> QED
    BY <1>1, <1>2, <1>3, <2>1, <2>2, <2>3, WakeStay
<1>7. ASSUME NEW n \in Timeouts, TakeWait(t, n) PROVE Steps(t, SemOps)
  <2>1. pc[t] = "run" /\ Wait(t, "sem_take", NoArg, ListOf("sem_take"), n)
    BY <1>7, ListOfFacts DEF TakeWait, Calling
  <2>2. /\ tick_delta' \in [Thread -> 0 .. TickMod - 1]
        /\ \A u \in Thread \ {t} : tick_delta'[u] = tick_delta[u]
    BY <1>7 DEF TakeWait, ThreadInv, ThreadTypeOK
  <2>3. "sem_take" \in Blocking \ {"wqueue_wait"}
    BY DEF Blocking
  <2> QED
    BY <1>3, <2>1, <2>2, <2>3, WaitStep DEF ChannelWaits
<1>8. ASSUME NEW v, rt_sem_init(t, v) PROVE Steps(t, SemOps)
  <2>1. Creating(t, "sem") /\ UNCHANGED threadVars
    BY <1>8 DEF rt_sem_init
  <2> QED
    BY <1>3, <2>1, CreateStep
<1>9. ASSUME NEW v, SemReset(t, v) PROVE Steps(t, SemOps)
  <2>1. pc[t] = "run"
    BY <1>9 DEF SemReset, Calling
  <2>2. Resume(Waiters("sem"), pc) /\ SetError(Waiters("sem"), "ERROR")
    BY <1>9 DEF SemReset
  <2>3. UNCHANGED <<exists, op, arg, rt_tick, timeout, tick_delta, budget, lists>>
    BY <1>9 DEF SemReset
  <2> QED
    BY <1>1, <1>3, <2>1, <2>2, <2>3, WakeStay
<1> QED
  BY <1>4, <1>5, <1>6, <1>7, <1>8, <1>9 DEF SemStep

-----------------------------------------------------------------------------
\* The function that Scan takes its value from, up to the index n.
ScanUpTo(s, b, n, f) ==
  f = [i \in 0 .. n |->
         IF i = 0 THEN [set |-> b, woken |-> {}, received |-> event_set]
         ELSE Visit(f[i - 1], s[i])]

\* There is such a function: one turn of the loop after the other.
LEMMA ScanDefined ==
  ASSUME NEW s \in Seq(Thread), NEW b
  PROVE  \A n \in 0 .. Len(s) : \E f : ScanUpTo(s, b, n, f)
<1> DEFINE Bad == {n \in 0 .. Len(s) : ~ \E f : ScanUpTo(s, b, n, f)}
           k0  == [set |-> b, woken |-> {}, received |-> event_set]
<1> SUFFICES ASSUME Bad # {} PROVE FALSE
  OBVIOUS
<1>1. PICK n \in Bad : \A k \in Bad : n <= k
  <2>1. Bad \subseteq Nat
    OBVIOUS
  <2> QED
    BY <2>1, MinFacts
<1>2. CASE n = 0
  <2>1. ScanUpTo(s, b, 0, [i \in 0 .. 0 |-> k0])
    BY DEF ScanUpTo
  <2> QED
    BY <1>1, <1>2, <2>1
<1>3. CASE n # 0
  <2>1. n \in 1 .. Len(s) /\ n - 1 \in 0 .. Len(s) /\ n - 1 \notin Bad
    BY <1>1, <1>3
  <2>2. PICK f : ScanUpTo(s, b, n - 1, f)
    BY <2>1
  <2> DEFINE v == Visit(f[n - 1], s[n])
             g == [i \in 0 .. n |-> IF i = n THEN v ELSE f[i]]
  <2>3. ASSUME NEW i \in 0 .. n
        PROVE  g[i] = IF i = 0 THEN k0 ELSE Visit(g[i - 1], s[i])
    <3> HIDE DEF k0
    <3>1. CASE i = n
      <4>1. g[n] = v /\ g[n - 1] = f[n - 1]
        BY <2>1
      <4> QED
        BY <2>1, <3>1, <4>1
    <3>2. CASE i # n
      <4>1. i \in 0 .. n - 1 /\ g[i] = f[i] /\ (i # 0 => g[i - 1] = f[i - 1])
        BY <2>1, <3>2
      <4>2. f[i] = IF i = 0 THEN k0 ELSE Visit(f[i - 1], s[i])
        BY <2>2, <4>1 DEF ScanUpTo, k0
      <4> QED
        BY <4>1, <4>2
    <3> QED
      BY <3>1, <3>2
  <2>4. ScanUpTo(s, b, n, g)
    BY <2>3 DEF ScanUpTo
  <2> QED
    BY <1>1, <2>4
<1> QED
  BY <1>2, <1>3

EventType == /\ set \subseteq Bit
             /\ event_set \in [Thread -> SUBSET Bit]
             /\ event_info \in [Thread -> Option]

\* Bits taken out of the set satisfy nobody new.
LEMMA SatisfiedShrinks ==
  ASSUME NEW w, NEW all, NEW b, NEW c, c \subseteq b, Satisfied(w, all, c)
  PROVE  Satisfied(w, all, b)
  BY DEF Satisfied

\* The loop of rt_event_send wakes waiters only, and leaves none that the bits
\* which are left satisfy.
LEMMA ScanFacts ==
  ASSUME EventType, NEW s \in Seq(Thread), NEW b \in SUBSET Bit
  PROVE  /\ Scan(s, b).set \subseteq b
         /\ Scan(s, b).woken \subseteq ToSet(s)
         /\ Scan(s, b).received \in [Thread -> SUBSET Bit]
         /\ \A u \in Thread \ Scan(s, b).woken : Scan(s, b).received[u] = event_set[u]
         /\ \A u \in ToSet(s) \ Scan(s, b).woken :
              ~Satisfied(event_set[u], event_info[u].all, Scan(s, b).set)
<1> DEFINE f == CHOOSE f : ScanUpTo(s, b, Len(s), f)
<1>1. ScanUpTo(s, b, Len(s), f)
  <2> HIDE DEF f
  <2>1. Len(s) \in 0 .. Len(s)
    OBVIOUS
  <2>2. \E g : ScanUpTo(s, b, Len(s), g)
    BY <2>1, ScanDefined
  <2> QED
    BY <2>2, Zenon DEF f
<1>2. Scan(s, b) = f[Len(s)]
  BY Zenon DEF Scan, ScanUpTo
<1> HIDE DEF f
<1> DEFINE Ok(n) ==
             /\ f[n].set \subseteq b
             /\ f[n].woken \subseteq {s[i] : i \in 1 .. n}
             /\ f[n].received \in [Thread -> SUBSET Bit]
             /\ \A u \in Thread \ f[n].woken : f[n].received[u] = event_set[u]
             /\ \A u \in {s[i] : i \in 1 .. n} \ f[n].woken :
                  ~Satisfied(event_set[u], event_info[u].all, f[n].set)
           Bad == {n \in 0 .. Len(s) : ~ Ok(n)}
<1>3. f[0] = [set |-> b, woken |-> {}, received |-> event_set]
  BY <1>1 DEF ScanUpTo
<1>4. ASSUME NEW n \in 1 .. Len(s) PROVE f[n] = Visit(f[n - 1], s[n])
  <2>1. n \in 0 .. Len(s) /\ n # 0
    OBVIOUS
  <2> QED
    BY <1>1, <2>1 DEF ScanUpTo
<1>5. Ok(0)
  BY <1>3 DEF EventType
<1>6. ASSUME NEW n \in 1 .. Len(s), Ok(n - 1)
      PROVE  Ok(n)
  <2> DEFINE k == f[n - 1]
             t == s[n]
             w == event_set[t]
             all == event_info[t].all
             Old == {s[i] : i \in 1 .. n - 1}
             New == {s[i] : i \in 1 .. n}
  <2>1. t \in Thread /\ w \subseteq Bit
    BY DEF EventType
  <2>2. New = Old \cup {t}
    OBVIOUS
  <2>3. /\ k.set \subseteq b /\ k.woken \subseteq Old
        /\ k.received \in [Thread -> SUBSET Bit]
        /\ \A u \in Thread \ k.woken : k.received[u] = event_set[u]
        /\ \A u \in Old \ k.woken : ~Satisfied(event_set[u], event_info[u].all, k.set)
    BY <1>6
  <2>4. CASE ~Satisfied(w, all, k.set)
    <3>1. f[n] = k
      BY <1>4, <2>4 DEF Visit
    <3> HIDE DEF New, Old, k, w, all, t
    <3>2. /\ k.set \subseteq b /\ k.woken \subseteq New
          /\ \A u \in New \ k.woken : ~Satisfied(event_set[u], event_info[u].all, k.set)
      BY <2>2, <2>3, <2>4 DEF w, all
    <3> QED
      BY <2>3, <3>1, <3>2 DEF New
  <2>5. CASE Satisfied(w, all, k.set)
    <3> DEFINE c == IF event_info[t].clear THEN k.set \ w ELSE k.set
               r == [k.received EXCEPT ![t] = IF all THEN w ELSE w \cap k.set]
    <3>1. f[n] = [set |-> c, woken |-> k.woken \cup {t}, received |-> r]
      BY <1>4, <2>5 DEF Visit
    <3>2. c \subseteq k.set
      OBVIOUS
    <3>3. r \in [Thread -> SUBSET Bit] /\ \A u \in Thread \ {t} : r[u] = k.received[u]
      BY <2>1, <2>3
    <3>4. f[n].set = c /\ f[n].woken = k.woken \cup {t} /\ f[n].received = r
      BY <3>1
    <3> HIDE DEF New, Old, k, w, all, t, c, r
    <3>5. f[n].set \subseteq b /\ f[n].woken \subseteq New
      BY <2>2, <2>3, <3>2, <3>4
    <3>6. \A u \in Thread \ f[n].woken : f[n].received[u] = event_set[u]
      BY <2>3, <3>3, <3>4
    <3>7. ASSUME NEW u \in New \ f[n].woken
          PROVE  ~Satisfied(event_set[u], event_info[u].all, f[n].set)
      <4>1. u \in Old \ k.woken
        BY <2>2, <3>4
      <4>2. ~Satisfied(event_set[u], event_info[u].all, k.set)
        BY <2>3, <4>1
      <4> QED
        BY <3>2, <3>4, <4>2, SatisfiedShrinks
    <3> QED
      BY <3>3, <3>4, <3>5, <3>6, <3>7 DEF New
  <2> QED
    BY <2>4, <2>5
<1> HIDE DEF Ok
<1>7. Bad = {}
  <2> SUFFICES ASSUME Bad # {} PROVE FALSE
    OBVIOUS
  <2>1. PICK n \in Bad : \A k \in Bad : n <= k
    <3>1. Bad \subseteq Nat
      OBVIOUS
    <3> QED
      BY <3>1, MinFacts
  <2>2. n # 0
    BY <1>5, <2>1
  <2>3. n \in 1 .. Len(s) /\ n - 1 \in 0 .. Len(s) /\ n - 1 \notin Bad
    BY <2>1, <2>2
  <2> QED
    BY <1>6, <2>1, <2>3
<1>8. Ok(Len(s))
  BY <1>7
<1>9. {s[i] : i \in 1 .. Len(s)} = ToSet(s)
  BY DEF ToSet
<1> QED
  BY <1>2, <1>8, <1>9 DEF Ok

\* Every step of the event does so to receivers, and keeps the bits they ask for.
LEMMA EventKind ==
  ASSUME ThreadInv, EventType, NEW t \in Thread, EventStep(t)
  PROVE  Steps(t, EventOps) /\ EventType'
<1>1. \A u \in Waiters("event") : u \in Thread /\ pc[u] = "wait" /\ op[u] \in EventOps
  BY WaitersIn, ListOps
<1>2. /\ "none" \in EventOps /\ "event_recv" \in EventOps /\ "EOK" \in Error
      /\ "ERROR" \in Error
  BY DEF EventOps, Error
<1>3. CASE rt_event_init(t)
  <2>1. Creating(t, "event") /\ UNCHANGED threadVars
    BY <1>3 DEF rt_event_init
  <2>2. EventType'
    BY <1>3 DEF rt_event_init, EventType
  <2> QED
    BY <1>2, <2>1, <2>2, CreateStep
<1>4. CASE RecvReturn(t)
  <2>1. pc[t] # "wait" /\ op[t] \in EventOps
    BY <1>2, <1>4 DEF RecvReturn
  <2>2. /\ pc' = [pc EXCEPT ![t] = "run"] /\ Returned(t) /\ exists' = exists
        /\ UNCHANGED <<error, rt_tick, thread_timer, suspend_thread, lists>>
    BY <1>4 DEF RecvReturn
  <2>3. EventType'
    BY <1>4 DEF RecvReturn, EventType
  <2> QED
    BY <1>2, <2>1, <2>2, <2>3, ReturnStep
<1>5. CASE EventReset(t)
  <2>1. pc[t] = "run"
    BY <1>5 DEF EventReset, Calling
  <2>2. Resume(Waiters("event"), pc) /\ SetError(Waiters("event"), "ERROR")
    BY <1>5 DEF EventReset
  <2>3. UNCHANGED <<exists, op, arg, rt_tick, timeout, tick_delta, budget, lists>>
    BY <1>5 DEF EventReset
  <2>4. EventType'
    BY <1>5 DEF EventReset, EventType
  <2> QED
    BY <1>1, <1>2, <2>1, <2>2, <2>3, <2>4, WakeStay
<1>6. ASSUME NEW b \in BitSet, rt_event_send(t, b) PROVE Steps(t, EventOps) /\ EventType'
  <2> DEFINE s == suspend_thread["event"]
             c == set \cup b
             k == Scan(s, c)
  <2>1. pc[t] = "run"
    BY <1>6 DEF rt_event_send, Calling
  <2>2. s \in Seq(Thread) /\ c \in SUBSET Bit /\ ToSet(s) = Waiters("event")
    BY ListOps DEF ThreadInv, ThreadTypeOK, EventType, BitSet, Waiters
  <2>3. set' = k.set /\ event_set' = k.received /\ Resume(k.woken, pc)
    BY <1>6 DEF rt_event_send
  <2>4. UNCHANGED <<exists, op, arg, error, rt_tick, timeout, tick_delta, budget, lists,
                    event_info>>
    BY <1>6 DEF rt_event_send
  <2> HIDE DEF s, c
  <2>5. /\ k.set \subseteq c /\ k.woken \subseteq ToSet(s)
        /\ k.received \in [Thread -> SUBSET Bit]
    BY <2>2, ScanFacts
  <2> HIDE DEF k
  <2>6. EventType'
    BY <2>2, <2>3, <2>4, <2>5 DEF EventType
  <2>7. \A u \in k.woken : u \in Thread /\ pc[u] = "wait" /\ op[u] \in EventOps
    BY <1>1, <2>2, <2>5
  <2> QED
    BY <1>2, <2>1, <2>3, <2>4, <2>6, <2>7, WakeStay
<1>7. ASSUME NEW w \in BitSet, NEW o \in Option, RecvNow(t, w, o)
      PROVE  Steps(t, EventOps) /\ EventType'
  <2>1. pc[t] = "run" /\ op[t] = "none"
    BY <1>7, CallingFacts DEF RecvNow, Calling
  <2>2. ThreadTypeOK'
    BY <1>2, <1>7 DEF RecvNow, ThreadInv, ThreadTypeOK
  <2>3. Runs(t, EventOps)
    BY <1>2, <1>7, <2>1, OpsAtFacts DEF RecvNow, Runs, ThreadInv, ThreadTypeOK
  <2>4. EventType'
    BY <1>7 DEF RecvNow, EventType, BitSet
  <2>5. LocalsKept(t)
    BY <1>7 DEF LocalsKept, RecvNow
  <2> QED
    BY <1>7, <2>2, <2>3, <2>4, <2>5, RunsWakes DEF Steps, RecvNow
<1>8. ASSUME NEW w \in BitSet, NEW o \in Option, NEW n \in Timeouts, RecvWait(t, w, o, n)
      PROVE  Steps(t, EventOps) /\ EventType'
  <2>1. pc[t] = "run" /\ Wait(t, "event_recv", NoArg, ListOf("event_recv"), n)
    BY <1>8, ListOfFacts DEF RecvWait, Calling
  <2>2. /\ tick_delta' \in [Thread -> 0 .. TickMod - 1]
        /\ \A u \in Thread \ {t} : tick_delta'[u] = tick_delta[u]
    BY <1>8 DEF RecvWait, ThreadInv, ThreadTypeOK
  <2>3. "event_recv" \in Blocking \ {"wqueue_wait"}
    BY DEF Blocking
  <2>4. EventType'
    BY <1>8 DEF RecvWait, EventType, BitSet
  <2> QED
    BY <1>2, <2>1, <2>2, <2>3, <2>4, WaitStep DEF ChannelWaits
<1> QED
  BY <1>3, <1>4, <1>5, <1>6, <1>7, <1>8 DEF EventStep

\* Every step of the mailbox does so to its senders and receivers.
LEMMA MailboxKind ==
  ASSUME ThreadInv, NEW t \in Thread, MailboxStep(t)
  PROVE  Steps(t, MailboxOps)
<1>1. \A u \in Waiters("mb") \cup Waiters("mb_sender") :
        u \in Thread /\ pc[u] = "wait" /\ op[u] \in MailboxOps
  <2>1. \A u \in Waiters("mb") : u \in Thread /\ pc[u] = "wait" /\ op[u] \in MailboxOps
    BY WaitersIn, ListOps
  <2>2. \A u \in Waiters("mb_sender") : u \in Thread /\ pc[u] = "wait" /\ op[u] \in MailboxOps
    BY WaitersIn, ListOps
  <2> QED
    BY <2>1, <2>2
<1>2. /\ First("mb") \subseteq Waiters("mb")
      /\ First("mb_sender") \subseteq Waiters("mb_sender")
  BY FirstFacts, ListOps
<1>3. /\ {"none", "mb_send", "mb_recv"} \subseteq MailboxOps
      /\ "EOK" \in Error /\ "ERROR" \in Error
      /\ {"mb_send", "mb_recv"} \subseteq Blocking \ {"wqueue_wait"}
  BY DEF MailboxOps, Error, Blocking
<1>4. ASSUME NEW m, Put(t, m), pc[t] # "wait", op[t] \in MailboxOps
      PROVE  Steps(t, MailboxOps)
  <2>1. Resume(First("mb"), [pc EXCEPT ![t] = "run"]) /\ Returned(t)
    BY <1>4 DEF Put
  <2>2. UNCHANGED <<exists, error, rt_tick, lists>>
    BY <1>4 DEF Put
  <2> QED
    BY <1>1, <1>2, <1>3, <1>4, <2>1, <2>2, WakeReturn
<1>5. ASSUME Get(t), pc[t] # "wait", op[t] \in MailboxOps
      PROVE  Steps(t, MailboxOps)
  <2>1. Resume(First("mb_sender"), [pc EXCEPT ![t] = "return"]) /\ Returned(t)
    BY <1>5 DEF Get
  <2>2. UNCHANGED <<exists, error, rt_tick, lists>>
    BY <1>5 DEF Get
  <2> QED
    BY <1>1, <1>2, <1>3, <1>5, <2>1, <2>2, WakeReturn
<1>6. CASE rt_mb_init(t)
  <2>1. Creating(t, "mb") /\ UNCHANGED threadVars
    BY <1>6 DEF rt_mb_init
  <2> QED
    BY <1>3, <2>1, CreateStep
<1>7. CASE MbRetry(t)
  <2>1. pc[t] = "woken" /\ op[t] \in {"mb_send", "mb_recv"}
    BY <1>7 DEF MbRetry, Retrying
  <2>2. Put(t, arg[t]) \/ Get(t) \/ WaitAgain(t)
    BY <1>7 DEF MbRetry
  <2>3. CASE WaitAgain(t)
    BY <1>3, <2>1, <2>3, AgainStep DEF ChannelWaits
  <2> QED
    BY <1>3, <1>4, <1>5, <2>1, <2>2, <2>3
<1>8. CASE MbReturn(t)
  <2>1. pc[t] = "return" /\ op[t] = "none"
    BY <1>8, OpsAtFacts DEF MbReturn, ThreadInv, CallFits
  <2>2. pc' = [pc EXCEPT ![t] = "run"] /\ pc'[t] = "run"
    BY <1>8 DEF MbReturn, ThreadInv, ThreadTypeOK
  <2>3. ThreadTypeOK'
    BY <1>8 DEF MbReturn, ThreadInv, ThreadTypeOK, PC
  <2>4. Runs(t, MailboxOps)
    BY <1>3, <1>8, <2>1, <2>2, OpsAtFacts DEF MbReturn, Runs, ThreadInv, ThreadTypeOK
  <2>5. LocalsKept(t)
    BY <1>8 DEF LocalsKept, MbReturn
  <2> QED
    BY <1>8, <2>3, <2>4, <2>5, RunsWakes DEF Steps, MbReturn
<1>9. CASE MbReset(t)
  <2> DEFINE S == Waiters("mb") \cup Waiters("mb_sender")
  <2>1. pc[t] = "run"
    BY <1>9 DEF MbReset, Calling
  <2>2. Resume(S, pc) /\ SetError(S, "ERROR")
    BY <1>9 DEF MbReset
  <2>3. UNCHANGED <<exists, op, arg, rt_tick, timeout, tick_delta, budget, lists>>
    BY <1>9 DEF MbReset
  <2> QED
    BY <1>1, <1>3, <2>1, <2>2, <2>3, WakeStay
<1>10. ASSUME NEW n \in Timeouts, MbRecv(t, n) PROVE Steps(t, MailboxOps)
  <2>1. pc[t] = "run" /\ op[t] \in MailboxOps
    BY <1>3, <1>10, CallingFacts DEF MbRecv, Calling
  <2>2. TimedWait(t, "mb_recv", NoArg, n) \/ Get(t)
    BY <1>10 DEF MbRecv
  <2>3. CASE TimedWait(t, "mb_recv", NoArg, n)
    BY <1>3, <2>1, <2>3, TimedWaitStep
  <2> QED
    BY <1>5, <2>1, <2>2, <2>3
<1>11. ASSUME NEW n \in Timeouts, NEW m, MbSend(t, m, n) PROVE Steps(t, MailboxOps)
  <2>1. pc[t] = "run" /\ op[t] \in MailboxOps
    BY <1>3, <1>11, CallingFacts DEF MbSend, Calling
  <2>2. TimedWait(t, "mb_send", m, n) \/ Put(t, m)
    BY <1>11 DEF MbSend
  <2>3. CASE TimedWait(t, "mb_send", m, n)
    BY <1>3, <2>1, <2>3, TimedWaitStep
  <2> QED
    BY <1>4, <2>1, <2>2, <2>3
<1>12. ASSUME NEW m, rt_mb_urgent(t, m) PROVE Steps(t, MailboxOps)
  <2>1. pc[t] = "run"
    BY <1>12 DEF rt_mb_urgent, Calling
  <2>2. Resume(First("mb"), pc)
    BY <1>12 DEF rt_mb_urgent
  <2>3. UNCHANGED <<exists, op, arg, error, rt_tick, timeout, tick_delta, budget, lists>>
    BY <1>12 DEF rt_mb_urgent
  <2> QED
    BY <1>1, <1>2, <1>3, <2>1, <2>2, <2>3, WakeStay
<1> QED
  BY <1>6, <1>7, <1>8, <1>9, <1>10, <1>11, <1>12 DEF MailboxStep

\* Every step of the message queue does so to its senders and receivers.
LEMMA MqKind ==
  ASSUME ThreadInv, NEW t \in Thread, MqStep(t)
  PROVE  Steps(t, MqOps)
<1>1. \A u \in Waiters("mq") \cup Waiters("mq_sender") :
        u \in Thread /\ pc[u] = "wait" /\ op[u] \in MqOps
  <2>1. \A u \in Waiters("mq") : u \in Thread /\ pc[u] = "wait" /\ op[u] \in MqOps
    BY WaitersIn, ListOps
  <2>2. \A u \in Waiters("mq_sender") : u \in Thread /\ pc[u] = "wait" /\ op[u] \in MqOps
    BY WaitersIn, ListOps
  <2> QED
    BY <2>1, <2>2
<1>2. /\ First("mq") \subseteq Waiters("mq")
      /\ First("mq_sender") \subseteq Waiters("mq_sender")
  BY FirstFacts, ListOps
<1>3. /\ {"none", "mq_send", "mq_urgent", "mq_recv"} \subseteq MqOps
      /\ "EOK" \in Error /\ "ERROR" \in Error
      /\ {"mq_send", "mq_recv"} \subseteq Blocking \ {"wqueue_wait"}
      /\ {"mq_send", "mq_urgent", "mq_recv"} \subseteq Op
      /\ {"copy", "link", "fetch", "free"} \subseteq PC
  BY DEF MqOps, Error, Blocking, Op, PC
<1>4. ASSUME timeout' = [timeout EXCEPT ![t] = 0],
             tick_delta' = [tick_delta EXCEPT ![t] = 0],
             budget' = [budget EXCEPT ![t] = 0]
      PROVE  /\ timeout' \in [Thread -> RT_WAITING_FOREVER .. TickMod - 1]
             /\ tick_delta' \in [Thread -> 0 .. TickMod - 1]
             /\ budget' \in [Thread -> RT_WAITING_FOREVER .. TickMod - 1]
  BY <1>4, Constants DEF ThreadInv, ThreadTypeOK
<1>5. ASSUME lists' = lists
      PROVE  /\ lists' \in [Thread -> Seq(DetachList)]
             /\ \A u \in Thread \ {t} : lists'[u] = lists[u]
  BY <1>5 DEF ThreadInv, ThreadTypeOK
<1>6. ASSUME NEW o \in {"mq_send", "mq_urgent"}, NEW m, TakeNode(t, o, m),
             pc[t] # "wait", op[t] \in MqOps
      PROVE  Steps(t, MqOps)
  <2>1. pc' = [pc EXCEPT ![t] = "copy"] /\ op' = [op EXCEPT ![t] = o]
    BY <1>6 DEF TakeNode
  <2>2. UNCHANGED <<exists, error, rt_tick, thread_timer, suspend_thread, lists>>
    BY <1>6 DEF TakeNode
  <2>3. /\ timeout' \in [Thread -> RT_WAITING_FOREVER .. TickMod - 1]
        /\ tick_delta' \in [Thread -> 0 .. TickMod - 1]
        /\ budget' \in [Thread -> RT_WAITING_FOREVER .. TickMod - 1]
    BY <1>4, <1>6 DEF TakeNode
  <2>4. o \in OpsAt("copy")
    BY OpsAtFacts
  <2>5. LocalsKept(t)
    BY <1>6 DEF LocalsKept, TakeNode, ThreadInv, ThreadTypeOK
  <2> QED
    BY <1>3, <1>5, <1>6, <2>1, <2>2, <2>3, <2>4, <2>5, MoveStep
<1>7. ASSUME TakeMessage(t), pc[t] # "wait", op[t] \in MqOps
      PROVE  Steps(t, MqOps)
  <2>1. pc' = [pc EXCEPT ![t] = "fetch"] /\ op' = [op EXCEPT ![t] = "mq_recv"]
    BY <1>7 DEF TakeMessage
  <2>2. UNCHANGED <<exists, error, rt_tick, thread_timer, suspend_thread, lists>>
    BY <1>7 DEF TakeMessage
  <2>3. /\ timeout' \in [Thread -> RT_WAITING_FOREVER .. TickMod - 1]
        /\ tick_delta' \in [Thread -> 0 .. TickMod - 1]
        /\ budget' \in [Thread -> RT_WAITING_FOREVER .. TickMod - 1]
    BY <1>4, <1>7 DEF TakeMessage
  <2>4. "mq_recv" \in OpsAt("fetch")
    BY OpsAtFacts
  <2>5. LocalsKept(t)
    BY <1>7 DEF LocalsKept, TakeMessage
  <2> QED
    BY <1>3, <1>5, <1>7, <2>1, <2>2, <2>3, <2>4, <2>5, MoveStep
<1>8. ASSUME NEW q \in PC \ {"wait", "woken", "resume", "done"},
             pc' = [pc EXCEPT ![t] = q], op[t] \in OpsAt(q),
             pc[t] # "wait", op[t] \in MqOps,
             UNCHANGED <<exists, op, arg, error, rt_tick, thread_timer, timeout,
                         tick_delta,
                         budget, suspend_thread, lists>>
      PROVE  Steps(t, MqOps)
  <2>1. op' = [op EXCEPT ![t] = op[t]] /\ op[t] \in Op
    BY <1>8 DEF ThreadInv, ThreadTypeOK
  <2>2. /\ timeout' \in [Thread -> RT_WAITING_FOREVER .. TickMod - 1]
        /\ tick_delta' \in [Thread -> 0 .. TickMod - 1]
        /\ budget' \in [Thread -> RT_WAITING_FOREVER .. TickMod - 1]
    BY <1>8 DEF ThreadInv, ThreadTypeOK
  <2>3. LocalsKept(t)
    BY <1>8 DEF LocalsKept
  <2> QED
    BY <1>5, <1>8, <2>1, <2>2, <2>3, MoveStep
<1>9. ASSUME NEW S, S \subseteq Waiters("mq") \cup Waiters("mq_sender"),
             Resume(S, [pc EXCEPT ![t] = "run"]), Returned(t),
             pc[t] # "wait", op[t] \in MqOps, UNCHANGED <<exists, error, rt_tick, lists>>
      PROVE  Steps(t, MqOps)
  BY <1>1, <1>3, <1>9, WakeReturn
<1>10. CASE rt_mq_init(t)
  <2>1. Creating(t, "mq") /\ UNCHANGED threadVars
    BY <1>10 DEF rt_mq_init
  <2> QED
    BY <1>3, <2>1, CreateStep
<1>11. CASE MqRetry(t)
  <2>1. pc[t] = "woken" /\ op[t] \in {"mq_send", "mq_recv"}
    BY <1>11 DEF MqRetry, Retrying
  <2>2. TakeNode(t, "mq_send", arg[t]) \/ TakeMessage(t) \/ WaitAgain(t)
    BY <1>11 DEF MqRetry
  <2>3. CASE WaitAgain(t)
    BY <1>3, <2>1, <2>3, AgainStep DEF ChannelWaits
  <2> QED
    BY <1>3, <1>6, <1>7, <2>1, <2>2, <2>3
<1>12. CASE MqReset(t)
  <2> DEFINE S == Waiters("mq") \cup Waiters("mq_sender")
  <2>1. pc[t] = "run"
    BY <1>12 DEF MqReset, Calling
  <2>2. Resume(S, pc) /\ SetError(S, "ERROR")
    BY <1>12 DEF MqReset
  <2>3. UNCHANGED <<exists, op, arg, rt_tick, timeout, tick_delta, budget, lists>>
    BY <1>12 DEF MqReset
  <2> QED
    BY <1>1, <1>3, <2>1, <2>2, <2>3, WakeStay
<1>13. CASE SendCopy(t)
  <2>1. pc[t] = "copy" /\ op[t] \in {"mq_send", "mq_urgent"} /\ op[t] \in OpsAt("link")
    BY <1>13, OpsAtFacts DEF SendCopy, ThreadInv, CallFits
  <2>2. /\ pc' = [pc EXCEPT ![t] = "link"]
        /\ UNCHANGED <<exists, op, arg, error, rt_tick, thread_timer, timeout, tick_delta,
                       budget, suspend_thread, lists>>
    BY <1>13 DEF SendCopy
  <2> QED
    BY <1>3, <1>8, <2>1, <2>2
<1>14. ASSUME SendLink(t) \/ UrgentLink(t) PROVE Steps(t, MqOps)
  <2>1. pc[t] = "link" /\ op[t] \in MqOps /\ Linked(t)
    BY <1>3, <1>14 DEF SendLink, UrgentLink
  <2>2. /\ Resume(First("mq"), [pc EXCEPT ![t] = "run"]) /\ Returned(t)
        /\ UNCHANGED <<exists, error, rt_tick, lists>>
    BY <2>1 DEF Linked
  <2> QED
    BY <1>2, <1>9, <2>1, <2>2
<1>15. CASE RecvCopy(t)
  <2>1. pc[t] = "fetch" /\ op[t] = "mq_recv" /\ op[t] \in OpsAt("free")
    BY <1>15, OpsAtFacts DEF RecvCopy, ThreadInv, CallFits
  <2>2. /\ pc' = [pc EXCEPT ![t] = "free"]
        /\ UNCHANGED <<exists, op, arg, error, rt_tick, thread_timer, timeout, tick_delta,
                       budget, suspend_thread, lists>>
    BY <1>15 DEF RecvCopy
  <2> QED
    BY <1>3, <1>8, <2>1, <2>2
<1>16. CASE RecvFree(t)
  <2>1. pc[t] = "free" /\ op[t] = "mq_recv"
    BY <1>16, OpsAtFacts DEF RecvFree, ThreadInv, CallFits
  <2>2. /\ Resume(First("mq_sender"), [pc EXCEPT ![t] = "run"]) /\ Returned(t)
        /\ UNCHANGED <<exists, error, rt_tick, lists>>
    BY <1>16 DEF RecvFree
  <2> QED
    BY <1>2, <1>3, <1>9, <2>1, <2>2
<1>17. ASSUME NEW n \in Timeouts, MqRecv(t, n) PROVE Steps(t, MqOps)
  <2>1. pc[t] = "run" /\ op[t] \in MqOps
    BY <1>3, <1>17, CallingFacts DEF MqRecv, Calling
  <2>2. TimedWait(t, "mq_recv", NoArg, n) \/ TakeMessage(t)
    BY <1>17 DEF MqRecv
  <2>3. CASE TimedWait(t, "mq_recv", NoArg, n)
    BY <1>3, <2>1, <2>3, TimedWaitStep
  <2> QED
    BY <1>7, <2>1, <2>2, <2>3
<1>18. ASSUME NEW n \in Timeouts, NEW m, MqSend(t, m, n) PROVE Steps(t, MqOps)
  <2>1. pc[t] = "run" /\ op[t] \in MqOps
    BY <1>3, <1>18, CallingFacts DEF MqSend, Calling
  <2>2. TimedWait(t, "mq_send", m, n) \/ TakeNode(t, "mq_send", m)
    BY <1>18 DEF MqSend
  <2>3. CASE TimedWait(t, "mq_send", m, n)
    BY <1>3, <2>1, <2>3, TimedWaitStep
  <2> QED
    BY <1>6, <2>1, <2>2, <2>3
<1>19. ASSUME NEW m, MqUrgent(t, m) PROVE Steps(t, MqOps)
  <2>1. pc[t] = "run" /\ op[t] \in MqOps /\ TakeNode(t, "mq_urgent", m)
    BY <1>3, <1>19, CallingFacts DEF MqUrgent, Calling
  <2> QED
    BY <1>6, <2>1
<1> QED
  BY <1>10, <1>11, <1>12, <1>13, <1>14, <1>15, <1>16, <1>17, <1>18, <1>19 DEF MqStep

\* Every step of the memory pool does so to threads that want a block.
LEMMA MemPoolKind ==
  ASSUME ThreadInv, NEW t \in Thread, MemPoolStep(t)
  PROVE  Steps(t, MemPoolOps)
<1>1. \A u \in Waiters("mp") : u \in Thread /\ pc[u] = "wait" /\ op[u] \in MemPoolOps
  BY WaitersIn, ListOps
<1>2. First("mp") \subseteq Waiters("mp")
  BY FirstFacts, ListOps
<1>3. /\ "none" \in MemPoolOps /\ "mp_alloc" \in MemPoolOps
      /\ "EOK" \in Error /\ "ETIMEOUT" \in Error
      /\ "mp_alloc" \in Blocking \ {"wqueue_wait"} /\ "mp_alloc" \in Op /\ "relock" \in PC
  BY DEF MemPoolOps, Error, Blocking, Op, PC
<1>4. ASSUME TakeBlock(t), pc[t] # "wait", op[t] \in MemPoolOps
      PROVE  Steps(t, MemPoolOps)
  <2>1. /\ pc' = [pc EXCEPT ![t] = "run"] /\ Returned(t) /\ exists' = exists
        /\ UNCHANGED <<error, rt_tick, thread_timer, suspend_thread, lists>>
    BY <1>4 DEF TakeBlock
  <2> QED
    BY <1>3, <1>4, <2>1, ReturnStep
<1>5. CASE rt_mp_init(t)
  <2>1. Creating(t, "mp") /\ UNCHANGED threadVars
    BY <1>5 DEF rt_mp_init
  <2> QED
    BY <1>3, <2>1, CreateStep
<1>6. CASE MpTimeLeft(t)
  <2>1. pc[t] = "woken" /\ op[t] = "mp_alloc"
    BY <1>6 DEF MpTimeLeft, Retrying
  <2>2. /\ pc' = [pc EXCEPT ![t] = "relock"]
        /\ UNCHANGED <<exists, error, rt_tick, thread_timer, suspend_thread>>
    BY <1>6 DEF MpTimeLeft
  <2>3. op' = [op EXCEPT ![t] = "mp_alloc"] /\ "mp_alloc" \in OpsAt("relock")
    BY <1>6, <2>1, OpsAtFacts DEF MpTimeLeft, ThreadInv, ThreadTypeOK
  <2>4. timeout' \in [Thread -> RT_WAITING_FOREVER .. TickMod - 1]
    <3>1. TimeLeft(t) \in RT_WAITING_FOREVER .. TickMod - 1
      BY TimeLeftRange, Constants
    <3> QED
      BY <1>6, <3>1 DEF MpTimeLeft, ThreadInv, ThreadTypeOK
  <2>5. /\ tick_delta' \in [Thread -> 0 .. TickMod - 1]
        /\ budget' \in [Thread -> RT_WAITING_FOREVER .. TickMod - 1]
        /\ lists' \in [Thread -> Seq(DetachList)]
        /\ \A u \in Thread \ {t} : lists'[u] = lists[u]
    BY <1>6 DEF MpTimeLeft, ThreadInv, ThreadTypeOK
  <2>6. LocalsKept(t)
    BY <1>6 DEF LocalsKept, MpTimeLeft
  <2> QED
    BY <1>3, <2>1, <2>2, <2>3, <2>4, <2>5, <2>6, MoveStep
<1>7. CASE MpAgain(t)
  <2>1. pc[t] = "relock" /\ op[t] = "mp_alloc"
    BY <1>7, OpsAtFacts DEF MpAgain, ThreadInv, CallFits
  <2>2. CASE block_free_count > 0 /\ TakeBlock(t)
    BY <1>3, <1>4, <2>1, <2>2
  <2>3. ASSUME error' = [error EXCEPT ![t] = "ETIMEOUT"], pc' = [pc EXCEPT ![t] = "run"],
               Returned(t), UNCHANGED <<exists, rt_tick, thread_timer, suspend_thread,
                                        lists>>
        PROVE  Steps(t, MemPoolOps)
    BY <1>3, <2>1, <2>3, ReturnStep
  <2>4. ASSUME Suspend(t, "mp", timeout[t]),
               tick_delta' = [tick_delta EXCEPT ![t] = IF timeout[t] > 0 THEN rt_tick ELSE @],
               UNCHANGED <<exists, op, arg, rt_tick, timeout, budget, lists, mpVars>>
        PROVE  Steps(t, MemPoolOps)
    <3>1. timeout[t] \in -1 .. TickMod - 1
      BY Constants DEF ThreadInv, ThreadTypeOK
    <3>2. Suspend(t, ListOf(op[t]), timeout[t])
      BY <2>1, <2>4, ListOfFacts
    <3>3. /\ timeout' \in [Thread -> RT_WAITING_FOREVER .. TickMod - 1]
          /\ tick_delta' \in [Thread -> 0 .. TickMod - 1]
      BY <2>4 DEF ThreadInv, ThreadTypeOK
    <3>4. LocalsKept(t)
      BY <2>4 DEF LocalsKept, ThreadInv, ThreadTypeOK
    <3> QED
      BY <1>3, <2>1, <2>4, <3>1, <3>2, <3>3, <3>4, SuspendStep DEF Timed
  <2> QED
    BY <1>7, <2>2, <2>3, <2>4 DEF MpAgain
<1>8. ASSUME NEW n \in Timeouts, MpAlloc(t, n) PROVE Steps(t, MemPoolOps)
  <2>1. pc[t] = "run" /\ op[t] \in MemPoolOps
    BY <1>3, <1>8, CallingFacts DEF MpAlloc, Calling
  <2>2. TimedWait(t, "mp_alloc", NoArg, n) \/ TakeBlock(t)
    BY <1>8 DEF MpAlloc
  <2>3. CASE TimedWait(t, "mp_alloc", NoArg, n)
    BY <1>3, <2>1, <2>3, TimedWaitStep
  <2> QED
    BY <1>4, <2>1, <2>2, <2>3
<1>9. ASSUME NEW b, rt_mp_free(t, b) PROVE Steps(t, MemPoolOps)
  <2>1. pc[t] = "run"
    BY <1>9 DEF rt_mp_free, Calling
  <2>2. Resume(First("mp"), pc)
    BY <1>9 DEF rt_mp_free
  <2>3. UNCHANGED <<exists, op, arg, error, rt_tick, timeout, tick_delta, budget, lists>>
    BY <1>9 DEF rt_mp_free
  <2> QED
    BY <1>1, <1>2, <1>3, <2>1, <2>2, <2>3, WakeStay
<1> QED
  BY <1>5, <1>6, <1>7, <1>8, <1>9 DEF MemPoolStep

\* Every step of the completion does so to its waiter.
LEMMA CompletionKind ==
  ASSUME ThreadInv, NEW t \in Thread, CompletionStep(t)
  PROVE  Steps(t, CompletionOps)
<1>1. \A u \in Waiters("completion") :
        u \in Thread /\ pc[u] = "wait" /\ op[u] \in CompletionOps
  BY WaitersIn, ListOps
<1>2. First("completion") \subseteq Waiters("completion")
  BY FirstFacts, ListOps
<1>3. /\ "none" \in CompletionOps /\ "completion_wait" \in CompletionOps
      /\ "EOK" \in Error /\ "none" \in Op /\ {"run", "done"} \subseteq PC
      /\ "completion_wait" \in Blocking \ {"wqueue_wait"}
      /\ "none" \in OpsAt("done") /\ "none" \in OpsAt("run")
  BY OpsAtFacts DEF CompletionOps, Error, Blocking, Op, PC
<1>4. CASE rt_completion_init(t)
  <2>1. Creating(t, "completion") /\ UNCHANGED threadVars
    BY <1>4 DEF rt_completion_init
  <2> QED
    BY <1>3, <2>1, CreateStep
<1>5. CASE CompletionTake(t)
  <2>1. pc[t] = "run" /\ UNCHANGED <<exists, threadVars>>
    BY <1>5 DEF CompletionTake, Calling
  <2> QED
    BY <1>3, <2>1, IdleStep
<1>6. CASE CompletionReturn(t)
  <2>1. pc[t] # "wait" /\ op[t] \in CompletionOps
    BY <1>3, <1>6 DEF CompletionReturn
  <2>2. /\ pc' = [pc EXCEPT ![t] = "run"] /\ Returned(t) /\ exists' = exists
        /\ UNCHANGED <<error, rt_tick, thread_timer, suspend_thread, lists>>
    BY <1>6 DEF CompletionReturn
  <2> QED
    BY <1>3, <2>1, <2>2, ReturnStep
<1>7. CASE DoneTest(t)
  <2>1. pc[t] = "run" /\ op[t] = "none"
    BY <1>7, CallingFacts DEF DoneTest, Calling
  <2>2. /\ pc' = [pc EXCEPT ![t] = "done"] /\ op' = [op EXCEPT ![t] = "none"]
        /\ UNCHANGED <<exists, error, rt_tick, thread_timer, suspend_thread>>
    BY <1>7, <2>1 DEF DoneTest, ThreadInv, ThreadTypeOK
  <2>3. /\ timeout' \in [Thread -> RT_WAITING_FOREVER .. TickMod - 1]
        /\ tick_delta' \in [Thread -> 0 .. TickMod - 1]
        /\ budget' \in [Thread -> RT_WAITING_FOREVER .. TickMod - 1]
        /\ lists' \in [Thread -> Seq(DetachList)]
        /\ \A u \in Thread \ {t} : lists'[u] = lists[u]
    BY <1>7 DEF DoneTest, ThreadInv, ThreadTypeOK
  <2>4. LocalsKept(t)
    BY <1>7 DEF LocalsKept, DoneTest
  <2> QED
    BY <1>3, <2>1, <2>2, <2>3, <2>4, MoveStep
<1>8. CASE DoneAct(t)
  <2>1. pc[t] = "done" /\ op[t] = "none"
    BY <1>8, OpsAtFacts DEF DoneAct, ThreadInv, CallFits
  <2>2. Resume(First("completion"), [pc EXCEPT ![t] = "run"])
    BY <1>8 DEF DoneAct
  <2>3. UNCHANGED <<exists, op, arg, error, rt_tick, timeout, tick_delta, budget, lists>>
    BY <1>8 DEF DoneAct
  <2> QED
    BY <1>1, <1>2, <1>3, <2>1, <2>2, <2>3, WakeStep
<1>9. ASSUME NEW n \in Timeouts, CompletionWait(t, n) PROVE Steps(t, CompletionOps)
  <2>1. pc[t] = "run" /\ Wait(t, "completion_wait", NoArg, ListOf("completion_wait"), n)
    BY <1>9, ListOfFacts DEF CompletionWait, Calling
  <2>2. /\ tick_delta' \in [Thread -> 0 .. TickMod - 1]
        /\ \A u \in Thread \ {t} : tick_delta'[u] = tick_delta[u]
    BY <1>9 DEF CompletionWait, ThreadInv, ThreadTypeOK
  <2> QED
    BY <1>3, <2>1, <2>2, WaitStep DEF ChannelWaits
<1> QED
  BY <1>4, <1>5, <1>6, <1>7, <1>8, <1>9 DEF CompletionStep

\* WaitNodesLive with the type of the list; a wait queue is never detached.
NodesInv ==
  /\ waiting_list \in Seq(Thread) /\ WaitNodesLive
  /\ \A t \in Thread : op[t] = "wqueue_wait" => "wqueue" \in exists

\* Every step of the wait queue does so to its waiters, and leaves no node of a
\* frame that is gone.
LEMMA WaitQueueKind ==
  ASSUME ThreadInv, NodesInv, NEW t \in Thread, WaitQueueStep(t)
  PROVE  Steps(t, WaitQueueOps) /\ NodesInv'
<1>1. /\ "none" \in WaitQueueOps /\ "wqueue_wait" \in WaitQueueOps
      /\ "EOK" \in Error /\ "wqueue_wait" \in Op /\ {"run", "remove", "wait"} \subseteq PC
      /\ "wqueue_wait" \in Blocking
  BY DEF WaitQueueOps, Error, Blocking, Op, PC
<1>2. CASE rt_wqueue_init(t)
  <2>1. Creating(t, "wqueue") /\ UNCHANGED threadVars
    BY <1>2 DEF rt_wqueue_init
  <2>2. \A u \in Thread : op'[u] = op[u] /\ op[u] # "wqueue_wait"
    BY <2>1 DEF Creating, NodesInv, threadVars
  <2>3. NodesInv'
    BY <1>2, <2>2, EmptyList DEF rt_wqueue_init, NodesInv, WaitNodesLive
  <2> QED
    BY <1>1, <2>1, <2>3, CreateStep
<1>3. CASE WqueuePass(t)
  <2>1. pc[t] = "run" /\ UNCHANGED <<exists, threadVars>> /\ UNCHANGED waiting_list
    BY <1>3 DEF WqueuePass, Calling
  <2>2. NodesInv'
    BY <2>1 DEF NodesInv, WaitNodesLive, threadVars
  <2> QED
    BY <1>1, <2>1, <2>2, IdleStep
<1>4. CASE WqueueWoken(t)
  <2>1. pc[t] = "woken" /\ op[t] = "wqueue_wait"
    BY <1>4 DEF WqueueWoken
  <2>2. /\ pc' = [pc EXCEPT ![t] = "remove"] /\ op' = [op EXCEPT ![t] = "wqueue_wait"]
        /\ UNCHANGED <<exists, error, rt_tick, thread_timer, suspend_thread>>
    BY <1>4, <2>1 DEF WqueueWoken, ThreadInv, ThreadTypeOK
  <2>3. /\ timeout' \in [Thread -> RT_WAITING_FOREVER .. TickMod - 1]
        /\ tick_delta' \in [Thread -> 0 .. TickMod - 1]
        /\ budget' \in [Thread -> RT_WAITING_FOREVER .. TickMod - 1]
        /\ lists' \in [Thread -> Seq(DetachList)]
        /\ \A u \in Thread \ {t} : lists'[u] = lists[u]
    BY <1>4 DEF WqueueWoken, ThreadInv, ThreadTypeOK
  <2>4. LocalsKept(t) /\ "wqueue_wait" \in OpsAt("remove")
    BY <1>4, OpsAtFacts DEF WqueueWoken, LocalsKept
  <2>5. Steps(t, WaitQueueOps)
    BY <1>1, <2>1, <2>2, <2>3, <2>4, MoveStep
  <2>6. NodesInv'
    <3>1. \A u \in Thread : op'[u] = op[u] /\ (pc'[u] = "wait" => pc[u] = "wait")
      BY <1>4 DEF WqueueWoken, ThreadInv, ThreadTypeOK
    <3> QED
      BY <1>4, <3>1 DEF WqueueWoken, NodesInv, WaitNodesLive
  <2> QED
    BY <2>5, <2>6
<1>5. CASE WqueueReturn(t)
  <2>1. pc[t] = "remove" /\ op[t] = "wqueue_wait"
    BY <1>5, OpsAtFacts DEF WqueueReturn, ThreadInv, CallFits
  <2>2. /\ pc' = [pc EXCEPT ![t] = "run"] /\ Returned(t) /\ exists' = exists
        /\ UNCHANGED <<error, rt_tick, thread_timer, suspend_thread, lists>>
    BY <1>5 DEF WqueueReturn
  <2>3. Steps(t, WaitQueueOps)
    BY <1>1, <2>1, <2>2, ReturnStep
  <2>4. NodesInv'
    <3> DEFINE r == RemoveFirst(waiting_list, t)
    <3>1. /\ r \in Seq(Thread) /\ IsInjective(r) /\ ToSet(r) = ToSet(waiting_list) \ {t}
      BY RemoveFirstFacts DEF NodesInv, WaitNodesLive
    <3>2. waiting_list' = r
      BY <1>5 DEF WqueueReturn
    <3>3. /\ pc'[t] = "run" /\ op'[t] = "none"
          /\ \A u \in Thread \ {t} : pc'[u] = pc[u] /\ op'[u] = op[u]
      BY <2>2 DEF Returned, ThreadInv, ThreadTypeOK
    <3> HIDE DEF r
    <3>4. IsInjective(waiting_list') /\ waiting_list' \in Seq(Thread)
      BY <3>1, <3>2
    <3>5. ToSet(waiting_list') = ToSet(waiting_list) \ {t}
      BY <3>1, <3>2
    <3>6. /\ ToSet(waiting_list) \subseteq {u \in Thread : op[u] = "wqueue_wait"}
          /\ \A u \in Thread : pc[u] = "wait" /\ op[u] = "wqueue_wait" => u \in ToSet(waiting_list)
          /\ \A u \in Thread : op[u] = "wqueue_wait" => "wqueue" \in exists
      BY DEF NodesInv, WaitNodesLive
    <3> QED
      BY <2>2, <3>3, <3>4, <3>5, <3>6 DEF NodesInv, WaitNodesLive
  <2> QED
    BY <2>3, <2>4
<1>6. CASE rt_wqueue_wakeup(t)
  <2> DEFINE first == IF waiting_list = <<>> THEN {} ELSE {Head(waiting_list)}
             S == {u \in first : pc[u] = "wait"}
  <2>1. pc[t] = "run"
    BY <1>6 DEF rt_wqueue_wakeup, Calling
  <2>2. Resume(S, pc)
    BY <1>6 DEF rt_wqueue_wakeup
  <2>3. UNCHANGED <<exists, op, arg, error, rt_tick, timeout, tick_delta, budget, lists>>
    BY <1>6 DEF rt_wqueue_wakeup
  <2>4. /\ waiting_list \in Seq(Thread) /\ IsInjective(waiting_list)
        /\ ToSet(waiting_list) \subseteq {u \in Thread : op[u] = "wqueue_wait"}
        /\ \A u \in Thread : pc[u] = "wait" /\ op[u] = "wqueue_wait" => u \in ToSet(waiting_list)
    BY DEF NodesInv, WaitNodesLive
  <2>5. first \subseteq ToSet(waiting_list)
    BY <2>4, HeadFacts
  <2>6. /\ waiting_list' \in Seq(Thread) /\ IsInjective(waiting_list')
        /\ ToSet(waiting_list') = ToSet(waiting_list) \ first
    <3>1. CASE waiting_list = <<>>
      BY <1>6, <2>4, <3>1, EmptyList DEF rt_wqueue_wakeup
    <3>2. CASE waiting_list # <<>>
      <4>1. waiting_list' = Tail(waiting_list)
        BY <1>6, <3>2 DEF rt_wqueue_wakeup
      <4>2. /\ Tail(waiting_list) \in Seq(Thread) /\ IsInjective(Tail(waiting_list))
            /\ ToSet(Tail(waiting_list)) = ToSet(waiting_list) \ {Head(waiting_list)}
        BY <2>4, <3>2, TailFacts
      <4> QED
        BY <3>2, <4>1, <4>2
    <3> QED
      BY <3>1, <3>2
  <2> HIDE DEF first
  <2>7. \A u \in S : u \in Thread /\ pc[u] = "wait" /\ op[u] \in WaitQueueOps
    BY <1>1, <2>4, <2>5
  <2>8. \A u \in first : pc[u] = "wait" => u \in S
    OBVIOUS
  <2> HIDE DEF S
  <2>9. Steps(t, WaitQueueOps) /\ Wakes({t}, S, WaitQueueOps)
    BY <1>1, <2>1, <2>2, <2>3, <2>7, WakeStay
  <2>10. \A u \in Thread : op'[u] = op[u] /\ (pc'[u] = "wait" => pc[u] = "wait" /\ u \notin first)
    BY <2>8, <2>9, <2>3 DEF Wakes
  <2>11. WaitNodesLive'
    BY <2>4, <2>6, <2>10 DEF WaitNodesLive
  <2>12. NodesInv'
    BY <2>3, <2>6, <2>10, <2>11 DEF NodesInv
  <2> QED
    BY <2>9, <2>12
<1>7. ASSUME NEW n \in Timeouts, WqueueWait(t, n)
      PROVE  Steps(t, WaitQueueOps) /\ NodesInv'
  <2>1. pc[t] = "run" /\ op[t] = "none" /\ "wqueue" \in exists
    BY <1>7, CallingFacts DEF WqueueWait, Calling
  <2>2. /\ pc' = [pc EXCEPT ![t] = "wait"] /\ op' = [op EXCEPT ![t] = "wqueue_wait"]
        /\ error' = [error EXCEPT ![t] = "EOK"]
        /\ UNCHANGED <<exists, arg, rt_tick, tick_delta, suspend_thread, lists>>
    BY <1>7 DEF WqueueWait
  <2>3. /\ pc'[t] = "wait" /\ op'[t] = "wqueue_wait" /\ error'[t] = "EOK"
        /\ \A u \in Thread \ {t} : pc'[u] = pc[u] /\ op'[u] = op[u] /\ error'[u] = error[u]
    BY <2>2 DEF ThreadInv, ThreadTypeOK
  <2>4. /\ thread_timer' \in [Thread -> NoTimer .. TickMod - 1]
        /\ \A u \in Thread \ {t} : thread_timer'[u] = thread_timer[u]
    <3>1. (rt_tick + n) % TickMod \in NoTimer .. TickMod - 1
      <4>1. rt_tick + n \in Int
        BY Constants DEF ThreadInv, ThreadTypeOK
      <4>2. (rt_tick + n) % TickMod \in 0 .. TickMod - 1
        BY <4>1, ModRange
      <4> QED
        BY <4>2, Constants
    <3>2. NoTimer \in NoTimer .. TickMod - 1
      BY Constants
    <3>3. thread_timer' = [thread_timer EXCEPT ![t] =
                             IF n = RT_WAITING_FOREVER THEN NoTimer ELSE (rt_tick + n) % TickMod]
      BY <1>7 DEF WqueueWait
    <3> QED
      BY <3>1, <3>2, <3>3 DEF ThreadInv, ThreadTypeOK
  <2>5. ThreadTypeOK'
    <3>1. n \in RT_WAITING_FOREVER .. TickMod - 1
      BY Constants
    <3>2. timeout' = [timeout EXCEPT ![t] = n] /\ budget' = [budget EXCEPT ![t] = n]
      BY <1>7 DEF WqueueWait
    <3> QED
      BY <1>1, <2>2, <2>4, <3>1, <3>2 DEF ThreadInv, ThreadTypeOK
  <2>6. Sleeps(t, WaitQueueOps)
    <3>1. Queued(t, ListOf(op'[t]))
      BY <2>2, <2>3, ListOfFacts DEF Queued
    <3> QED
      BY <1>1, <2>1, <2>2, <2>3, <2>4, <3>1 DEF Sleeps, Alone
  <2>7. LocalsKept(t)
    BY <1>7, <2>2 DEF LocalsKept, WqueueWait, ThreadInv, ThreadTypeOK
  <2>9. Timed(t)
    <3>1. n \in (-1 .. TickMod - 1) \ {0} /\ RT_WAITING_FOREVER = -1
      BY <1>7, Constants DEF WqueueWait
    <3>2. thread_timer' = [thread_timer EXCEPT ![t] =
                             IF n = RT_WAITING_FOREVER THEN NoTimer ELSE (rt_tick + n) % TickMod]
      BY <1>7 DEF WqueueWait
    <3>3. thread_timer'[t] = IF n > 0 THEN (rt_tick + n) % TickMod ELSE NoTimer
      BY <3>1, <3>2 DEF ThreadInv, ThreadTypeOK
    <3>4. timeout'[t] = n /\ budget'[t] = n
      BY <1>7 DEF WqueueWait, ThreadInv, ThreadTypeOK
    <3> QED
      BY <2>3, <3>1, <3>3, <3>4 DEF Timed, ChannelWaits
  <2>8. NodesInv'
    <3> DEFINE r == Append(waiting_list, t)
    <3>1. waiting_list' = r
      BY <1>7 DEF WqueueWait
    <3>2. /\ waiting_list \in Seq(Thread) /\ IsInjective(waiting_list)
          /\ ToSet(waiting_list) \subseteq {u \in Thread : op[u] = "wqueue_wait"}
          /\ \A u \in Thread : pc[u] = "wait" /\ op[u] = "wqueue_wait" => u \in ToSet(waiting_list)
      BY DEF NodesInv, WaitNodesLive
    <3>3. t \notin ToSet(waiting_list)
      BY <2>1, <3>2
    <3>4. r \in Seq(Thread) /\ IsInjective(r) /\ ToSet(r) = ToSet(waiting_list) \cup {t}
      BY <3>2, <3>3, AppendFacts
    <3> HIDE DEF r
    <3>5. WaitNodesLive'
      BY <2>3, <3>1, <3>2, <3>4 DEF WaitNodesLive
    <3> QED
      BY <2>1, <2>2, <3>1, <3>4, <3>5 DEF NodesInv
  <2> QED
    BY <2>2, <2>5, <2>6, <2>7, <2>8, <2>9 DEF Steps
<1> QED
  BY <1>2, <1>3, <1>4, <1>5, <1>6, <1>7 DEF WaitQueueStep

\* Every step of the data queue does so to its pushers and poppers.
LEMMA DataQueueKind ==
  ASSUME ThreadInv, NEW t \in Thread, DataQueueStep(t)
  PROVE  Steps(t, DataQueueOps)
<1>1. \A u \in Waiters("dq_pop") \cup Waiters("dq_push") :
        u \in Thread /\ pc[u] = "wait" /\ op[u] \in DataQueueOps
  <2>1. \A u \in Waiters("dq_pop") : u \in Thread /\ pc[u] = "wait" /\ op[u] \in DataQueueOps
    BY WaitersIn, ListOps
  <2>2. \A u \in Waiters("dq_push") : u \in Thread /\ pc[u] = "wait" /\ op[u] \in DataQueueOps
    BY WaitersIn, ListOps
  <2> QED
    BY <2>1, <2>2
<1>2. /\ First("dq_pop") \subseteq Waiters("dq_pop")
      /\ First("dq_push") \subseteq Waiters("dq_push")
  BY FirstFacts, ListOps
<1>3. /\ {"none", "dq_push", "dq_pop", "dq_reset"} \subseteq DataQueueOps
      /\ "EOK" \in Error /\ "dq_reset" \in Op /\ {"lock", "test"} \subseteq PC
      /\ {"dq_push", "dq_pop"} \subseteq Blocking \ {"wqueue_wait"}
      /\ "dq_reset" \in OpsAt("lock") /\ "dq_reset" \in OpsAt("test")
  BY OpsAtFacts DEF DataQueueOps, Error, Blocking, Op, PC
<1>4. ASSUME NEW m, Push(t, m), pc[t] # "wait", op[t] \in DataQueueOps
      PROVE  Steps(t, DataQueueOps)
  <2>1. Resume(First("dq_pop"), [pc EXCEPT ![t] = "run"]) /\ Returned(t)
    BY <1>4 DEF Push
  <2>2. UNCHANGED <<exists, error, rt_tick, lists>>
    BY <1>4 DEF Push
  <2> QED
    BY <1>1, <1>2, <1>3, <1>4, <2>1, <2>2, WakeReturn
<1>5. ASSUME Pop(t), pc[t] # "wait", op[t] \in DataQueueOps
      PROVE  Steps(t, DataQueueOps)
  <2>1. PICK S \in {First("dq_push"), {}} : Resume(S, [pc EXCEPT ![t] = "return"])
    BY <1>5, Zenon DEF Pop
  <2>2. Returned(t)
    BY <1>5 DEF Pop
  <2>3. UNCHANGED <<exists, error, rt_tick, lists>>
    BY <1>5 DEF Pop
  <2>4. \A u \in S : u \in Thread /\ pc[u] = "wait" /\ op[u] \in DataQueueOps
    BY <1>1, <1>2
  <2> QED
    BY <1>3, <1>5, <2>1, <2>2, <2>3, <2>4, WakeReturn
<1>6. CASE rt_data_queue_init(t)
  <2>1. Creating(t, "dq") /\ UNCHANGED threadVars
    BY <1>6 DEF rt_data_queue_init
  <2> QED
    BY <1>3, <2>1, CreateStep
<1>7. CASE DqRetry(t)
  <2>1. pc[t] = "woken" /\ op[t] \in {"dq_push", "dq_pop"}
    BY <1>7 DEF DqRetry, Retrying
  <2>2. ASSUME Suspend(t, op[t], timeout[t]),
               UNCHANGED <<exists, op, arg, rt_tick, timeout, tick_delta, budget, lists>>
        PROVE  Steps(t, DataQueueOps)
    <3>1. timeout[t] \in -1 .. TickMod - 1
      BY Constants DEF ThreadInv, ThreadTypeOK
    <3>2. Suspend(t, ListOf(op[t]), timeout[t])
      <4>1. ListOf(op[t]) = op[t]
        BY <2>1, ListOfFacts
      <4> QED
        BY <2>2, <4>1
    <3>3. /\ timeout' \in [Thread -> RT_WAITING_FOREVER .. TickMod - 1]
          /\ tick_delta' \in [Thread -> 0 .. TickMod - 1]
      BY <2>2 DEF ThreadInv, ThreadTypeOK
    <3>4. LocalsKept(t)
      BY <2>2 DEF LocalsKept, ThreadInv, ThreadTypeOK
    <3> QED
      BY <1>3, <2>1, <2>2, <3>1, <3>2, <3>3, <3>4, SuspendStep DEF Timed
  <2>3. \/ Push(t, arg[t]) \/ Pop(t)
        \/ /\ Suspend(t, op[t], timeout[t])
           /\ UNCHANGED <<exists, op, arg, rt_tick, timeout, tick_delta, budget, lists>>
    BY <1>7 DEF DqRetry
  <2> QED
    BY <1>3, <1>4, <1>5, <2>1, <2>2, <2>3
<1>8. CASE DqReturn(t)
  <2>1. pc[t] = "return" /\ op[t] = "none"
    BY <1>8, OpsAtFacts DEF DqReturn, ThreadInv, CallFits
  <2>2. pc' = [pc EXCEPT ![t] = "run"] /\ pc'[t] = "run"
    BY <1>8 DEF DqReturn, ThreadInv, ThreadTypeOK
  <2>3. ThreadTypeOK' /\ LocalsKept(t) /\ exists \subseteq exists' /\ rt_tick' = rt_tick
    BY <1>8 DEF DqReturn, ThreadInv, ThreadTypeOK, PC, LocalsKept
  <2>4. Runs(t, DataQueueOps)
    BY <1>3, <1>8, <2>1, <2>2, OpsAtFacts DEF DqReturn, Runs, ThreadInv, ThreadTypeOK
  <2> QED
    BY <2>3, <2>4, RunsWakes DEF Steps
<1>9. ASSUME NEW q \in {"lock", "test"}, pc' = [pc EXCEPT ![t] = q],
             op' = [op EXCEPT ![t] = "dq_reset"], pc[t] # "wait", op[t] \in DataQueueOps,
             lists' \in [Thread -> Seq(DetachList)],
             \A u \in Thread \ {t} : lists'[u] = lists[u],
             UNCHANGED <<exists, arg, error, rt_tick, thread_timer, timeout, tick_delta,
                         budget, suspend_thread>>
      PROVE  Steps(t, DataQueueOps)
  <2>1. /\ timeout' \in [Thread -> RT_WAITING_FOREVER .. TickMod - 1]
        /\ tick_delta' \in [Thread -> 0 .. TickMod - 1]
        /\ budget' \in [Thread -> RT_WAITING_FOREVER .. TickMod - 1]
    BY <1>9 DEF ThreadInv, ThreadTypeOK
  <2>2. LocalsKept(t)
    BY <1>9 DEF LocalsKept
  <2> QED
    BY <1>3, <1>9, <2>1, <2>2, MoveStep
<1>10. CASE DqReset(t)
  <2>1. pc[t] = "run" /\ op[t] = "none"
    BY <1>10, CallingFacts DEF DqReset, Calling
  <2>2. /\ pc' = [pc EXCEPT ![t] = "lock"] /\ op' = [op EXCEPT ![t] = "dq_reset"]
        /\ UNCHANGED <<exists, arg, error, rt_tick, thread_timer, timeout, tick_delta,
                       budget, suspend_thread>>
    BY <1>10 DEF DqReset
  <2>3. /\ lists' \in [Thread -> Seq(DetachList)]
        /\ \A u \in Thread \ {t} : lists'[u] = lists[u]
    BY <1>10 DEF DqReset, ThreadInv, ThreadTypeOK
  <2> QED
    BY <1>3, <1>9, <2>1, <2>2, <2>3
<1>11. CASE DqResetLock(t)
  <2>1. pc[t] = "lock" /\ op[t] = "dq_reset"
    BY <1>11, OpsAtFacts DEF DqResetLock, ThreadInv, CallFits
  <2>2. /\ pc' = [pc EXCEPT ![t] = "test"] /\ op' = [op EXCEPT ![t] = "dq_reset"]
        /\ UNCHANGED <<exists, arg, error, rt_tick, thread_timer, timeout, tick_delta,
                       budget, suspend_thread>>
    BY <1>11, <2>1 DEF DqResetLock, ThreadInv, ThreadTypeOK
  <2>3. ListsOf("dq") \in Seq(DetachList)
    BY DEF ListsOf, List, DetachList
  <2>4. /\ lists' \in [Thread -> Seq(DetachList)]
        /\ \A u \in Thread \ {t} : lists'[u] = lists[u]
    BY <1>11, <2>3 DEF DqResetLock, ThreadInv, ThreadTypeOK
  <2> QED
    BY <1>3, <1>9, <2>1, <2>2, <2>4
<1>12. CASE DqResetEnd(t)
  <2>1. pc[t] # "wait" /\ op[t] \in DataQueueOps
    BY <1>3, <1>12 DEF DqResetEnd
  <2>2. /\ pc' = [pc EXCEPT ![t] = "run"] /\ Returned(t)
        /\ UNCHANGED <<exists, error, rt_tick, thread_timer, suspend_thread, lists>>
    BY <1>12 DEF DqResetEnd
  <2> QED
    BY <1>3, <2>1, <2>2, ReturnStep
<1>13. ASSUME NEW n \in Timeouts, DqPop(t, n) PROVE Steps(t, DataQueueOps)
  <2>1. pc[t] = "run" /\ op[t] \in DataQueueOps
    BY <1>3, <1>13, CallingFacts DEF DqPop, Calling
  <2>2. ASSUME Wait(t, "dq_pop", NoArg, "dq_pop", n), UNCHANGED tick_delta
        PROVE  Steps(t, DataQueueOps)
    <3>1. Wait(t, "dq_pop", NoArg, ListOf("dq_pop"), n)
      BY <2>2, ListOfFacts
    <3>2. /\ tick_delta' \in [Thread -> 0 .. TickMod - 1]
        /\ \A u \in Thread \ {t} : tick_delta'[u] = tick_delta[u]
      BY <2>2 DEF ThreadInv, ThreadTypeOK
    <3> QED
      BY <1>3, <2>1, <3>1, <3>2, WaitStep DEF ChannelWaits
  <2>3. (Wait(t, "dq_pop", NoArg, "dq_pop", n) /\ UNCHANGED tick_delta) \/ Pop(t)
    BY <1>13 DEF DqPop
  <2> QED
    BY <1>5, <2>1, <2>2, <2>3
<1>14. ASSUME NEW n \in Timeouts, NEW m, DqPush(t, m, n) PROVE Steps(t, DataQueueOps)
  <2>1. pc[t] = "run" /\ op[t] \in DataQueueOps
    BY <1>3, <1>14, CallingFacts DEF DqPush, Calling
  <2>2. ASSUME Wait(t, "dq_push", m, "dq_push", n), UNCHANGED tick_delta
        PROVE  Steps(t, DataQueueOps)
    <3>1. Wait(t, "dq_push", m, ListOf("dq_push"), n)
      BY <2>2, ListOfFacts
    <3>2. /\ tick_delta' \in [Thread -> 0 .. TickMod - 1]
        /\ \A u \in Thread \ {t} : tick_delta'[u] = tick_delta[u]
      BY <2>2 DEF ThreadInv, ThreadTypeOK
    <3> QED
      BY <1>3, <2>1, <3>1, <3>2, WaitStep DEF ChannelWaits
  <2>3. (Wait(t, "dq_push", m, "dq_push", n) /\ UNCHANGED tick_delta) \/ Push(t, m)
    BY <1>14 DEF DqPush
  <2> QED
    BY <1>4, <2>1, <2>2, <2>3
<1> QED
  BY <1>6, <1>7, <1>8, <1>10, <1>11, <1>12, <1>13, <1>14 DEF DataQueueStep

-----------------------------------------------------------------------------
(***************************************************************************)
(* The steps that are about no object in particular.                       *)
(***************************************************************************)

\* A failed wait returns to its caller.
LEMMA WaitFailedKind ==
  ASSUME ThreadInv, NEW t \in Thread, WaitFailed(t)
  PROVE  Steps(t, {"none", op[t]})
<1>1. pc[t] # "wait" /\ pc' = [pc EXCEPT ![t] = "run"] /\ Returned(t)
  BY DEF WaitFailed
<1>2. UNCHANGED <<exists, error, rt_tick, thread_timer, suspend_thread, lists>>
  BY DEF WaitFailed
<1>3. "EOK" \in Error /\ op[t] \in {"none", op[t]} /\ "none" \in {"none", op[t]}
  BY DEF Error
<1> QED
  BY <1>1, <1>2, <1>3, ReturnStep

\* A detach collects the lists it will empty.
LEMMA DetachStartKind ==
  ASSUME ThreadInv, NEW t \in Thread, NEW o \in Detachable, DetachStart(t, o)
  PROVE  Steps(t, {"none", "detach"})
<1>1. pc[t] = "run" /\ op[t] = "none"
  BY CallingFacts DEF DetachStart, Calling
<1>2. /\ pc' = [pc EXCEPT ![t] = "test"] /\ op' = [op EXCEPT ![t] = "detach"]
      /\ UNCHANGED <<exists, error, rt_tick, thread_timer, suspend_thread>>
  BY DEF DetachStart
<1>3. /\ timeout' \in [Thread -> RT_WAITING_FOREVER .. TickMod - 1]
      /\ tick_delta' \in [Thread -> 0 .. TickMod - 1]
      /\ budget' \in [Thread -> RT_WAITING_FOREVER .. TickMod - 1]
  BY DEF DetachStart, ThreadInv, ThreadTypeOK
<1>4. ListsOf(o) \in Seq(DetachList)
  <2>1. o \in DetachList \/ o \in {"mb", "mq", "dq"}
    BY DEF DetachList, List, Detachable
  <2>2. CASE o \in {"mb", "mq", "dq"}
    <3>1. ListsOf("mb") \in Seq(DetachList)
      BY DEF ListsOf, List, DetachList
    <3>2. ListsOf("mq") \in Seq(DetachList)
      BY DEF ListsOf, List, DetachList
    <3>3. ListsOf("dq") \in Seq(DetachList)
      BY DEF ListsOf, List, DetachList
    <3> QED
      BY <2>2, <3>1, <3>2, <3>3
  <2>3. CASE o \notin {"mb", "mq", "dq"}
    <3>1. ListsOf(o) = <<o>>
      BY <2>3 DEF ListsOf
    <3> QED
      BY <2>1, <2>3, <3>1
  <2> QED
    BY <2>2, <2>3
<1>5. /\ lists' \in [Thread -> Seq(DetachList)]
      /\ \A u \in Thread \ {t} : lists'[u] = lists[u]
  BY <1>4 DEF DetachStart, ThreadInv, ThreadTypeOK
<1>6. /\ "test" \in PC /\ "detach" \in Op /\ "detach" \in OpsAt("test")
      /\ "none" \in {"none", "detach"} /\ "detach" \in {"none", "detach"}
  BY OpsAtFacts DEF PC, Op
<1>7. LocalsKept(t)
  BY DEF DetachStart, LocalsKept
<1> QED
  BY <1>1, <1>2, <1>3, <1>5, <1>6, <1>7, MoveStep

\* The calls that run _ipc_list_resume_all.
LoopOps == {"detach", "dq_reset"}

\* The loop of _ipc_list_resume_all looks at the next list.
LEMMA ResumeAllTestKind ==
  ASSUME ThreadInv, NEW t \in Thread, ResumeAllTest(t)
  PROVE  Steps(t, LoopOps)
<1>1. /\ pc[t] = "test" /\ op[t] \in LoopOps /\ lists[t] \in Seq(DetachList)
      /\ lists[t] # <<>>
  BY OpsAtFacts DEF ResumeAllTest, ThreadInv, CallFits, ThreadTypeOK, LoopOps
<1>2. PICK q \in {"test", "resume"} :
        /\ pc' = [pc EXCEPT ![t] = q]
        /\ lists' \in [Thread -> Seq(DetachList)]
        /\ \A u \in Thread \ {t} : lists'[u] = lists[u]
        /\ q = "resume" => lists'[t] # <<>>
  <2>1. CASE suspend_thread[Head(lists[t])] = <<>>
    <3>1. pc' = [pc EXCEPT ![t] = "test"]
      BY <1>1, <2>1 DEF ResumeAllTest, ThreadInv, ThreadTypeOK
    <3>2. /\ Tail(lists[t]) \in Seq(DetachList)
          /\ lists' = [lists EXCEPT ![t] = Tail(lists[t])]
      BY <1>1, <2>1 DEF ResumeAllTest
    <3> QED
      BY <3>1, <3>2 DEF ThreadInv, ThreadTypeOK
  <2>2. CASE suspend_thread[Head(lists[t])] # <<>>
    BY <1>1, <2>2 DEF ResumeAllTest, ThreadInv, ThreadTypeOK
  <2> QED
    BY <2>1, <2>2
<1>3. /\ op' = [op EXCEPT ![t] = op[t]] /\ op[t] \in Op
      /\ UNCHANGED <<exists, error, rt_tick, thread_timer, suspend_thread>>
  BY DEF ResumeAllTest, ThreadInv, ThreadTypeOK
<1>4. /\ timeout' \in [Thread -> RT_WAITING_FOREVER .. TickMod - 1]
      /\ tick_delta' \in [Thread -> 0 .. TickMod - 1]
      /\ budget' \in [Thread -> RT_WAITING_FOREVER .. TickMod - 1]
  BY DEF ResumeAllTest, ThreadInv, ThreadTypeOK
<1>5. q \in PC /\ q # "wait" /\ op[t] \in OpsAt(q)
  BY <1>1, OpsAtFacts DEF PC, LoopOps
<1>6. LocalsKept(t)
  BY DEF ResumeAllTest, LocalsKept
<1> QED
  BY <1>1, <1>2, <1>3, <1>4, <1>5, <1>6, MoveStep

\* One turn of the loop resumes the first thread of the list.
LEMMA ResumeAllNextKind ==
  ASSUME ThreadInv, NEW t \in Thread, ResumeAllNext(t), NEW P, LoopOps \subseteq P,
         \A o \in Blocking : ListOf(o) = Head(lists[t]) => o \in P
  PROVE  /\ Head(lists[t]) \in List
         /\ Steps(t, P) /\ Wakes({t}, First(Head(lists[t])), P)
<1>1. /\ pc[t] = "resume" /\ op[t] \in LoopOps /\ lists[t] \in Seq(DetachList)
      /\ lists[t] # <<>>
  BY OpsAtFacts DEF ResumeAllNext, ThreadInv, CallFits, LoopFits, ThreadTypeOK, LoopOps
<1> DEFINE l == Head(lists[t])
<1>2. l \in List
  BY <1>1 DEF DetachList
<1> HIDE DEF l
<1>3. \A u \in Waiters(l) : u \in Thread /\ pc[u] = "wait" /\ op[u] \in P
  BY <1>2, WaitersIn DEF l
<1>4. First(l) \subseteq Waiters(l)
  BY <1>2, FirstFacts
<1>5. Resume(First(l), [pc EXCEPT ![t] = "test"]) /\ SetError(First(l), "ERROR")
  BY DEF ResumeAllNext, l
<1>6. UNCHANGED <<exists, op, arg, rt_tick, timeout, tick_delta, budget, lists>>
  BY DEF ResumeAllNext
<1>7. "test" \in PC /\ "ERROR" \in Error /\ op[t] \in OpsAt("test") /\ op[t] \in P
  BY <1>1, OpsAtFacts DEF PC, Error, LoopOps
<1>8. \A u \in First(l) : u \in Thread /\ pc[u] = "wait" /\ op[u] \in P
  BY <1>3, <1>4
<1>9. Steps(t, P) /\ Wakes({t}, First(l), P)
  BY <1>1, <1>5, <1>6, <1>7, <1>8, WakeStep
<1> QED
  BY <1>2, <1>9 DEF l

\* A detach ends by removing the object.
LEMMA DetachEndKind ==
  ASSUME ThreadInv, NEW t \in Thread, DetachEnd(t)
  PROVE  ThreadTypeOK' /\ LocalsKept(t) /\ Wakes({t}, {}, {"none", "detach"})
<1>1. /\ op' = [op EXCEPT ![t] = "none"] /\ op' \in [Thread -> Op]
      /\ timeout' \in [Thread -> RT_WAITING_FOREVER .. TickMod - 1]
      /\ tick_delta' \in [Thread -> 0 .. TickMod - 1]
      /\ budget' \in [Thread -> RT_WAITING_FOREVER .. TickMod - 1]
  BY ReturnedFacts DEF DetachEnd
<1>2. pc' \in [Thread -> PC] /\ pc'[t] = "run" /\ \A u \in Thread \ {t} : pc'[u] = pc[u]
  BY DEF DetachEnd, ThreadInv, ThreadTypeOK, PC
<1>3. op'[t] = "none" /\ \A u \in Thread \ {t} : op'[u] = op[u]
  BY <1>1 DEF ThreadInv, ThreadTypeOK
<1>4. ThreadTypeOK'
  BY <1>1, <1>2 DEF DetachEnd, ThreadInv, ThreadTypeOK
<1>5. Runs(t, {"none", "detach"})
  BY <1>2, <1>3, OpsAtFacts DEF DetachEnd, Runs
<1>6. LocalsKept(t)
  BY DEF DetachEnd, Returned, LocalsKept, ThreadInv, ThreadTypeOK
<1> QED
  BY <1>4, <1>5, <1>6, RunsWakes

\* A tick resumes the threads whose timers are due, whatever they wait for.
LEMMA TickKind ==
  ASSUME ThreadInv, Tick
  PROVE  ThreadTypeOK' /\ Wakes({}, Due((rt_tick + 1) % TickMod), Op)
<1> DEFINE tick == (rt_tick + 1) % TickMod
           S    == Due(tick)
<1>1. tick \in 0 .. TickMod - 1
  BY ModRange DEF ThreadInv, ThreadTypeOK
<1>2. /\ rt_tick' = tick /\ Resume(S, pc) /\ SetError(S, "ETIMEOUT")
      /\ budget' = [t \in Thread |-> IF budget[t] > 0 THEN budget[t] - 1 ELSE budget[t]]
      /\ UNCHANGED <<exists, op, arg, timeout, tick_delta, lists>>
  BY DEF Tick
<1> HIDE DEF tick
<1>3. \A u \in S : u \in Thread /\ pc[u] = "wait"
  BY <1>1, Constants DEF Due, ThreadInv, SuspendedListed
<1> HIDE DEF S
<1>4. /\ pc' \in [Thread -> PC]
      /\ \A u \in Thread : pc'[u] = IF u \in S THEN "woken" ELSE pc[u]
      /\ thread_timer' \in [Thread -> NoTimer .. TickMod - 1]
      /\ \A u \in S : thread_timer'[u] = NoTimer
      /\ \A u \in Thread \ S : thread_timer'[u] = thread_timer[u]
      /\ suspend_thread' \in [List -> Seq(Thread)] /\ Removed(S)
  <2>1. S \subseteq Thread /\ pc \in [Thread -> PC]
    BY <1>3 DEF ThreadInv, ThreadTypeOK
  <2> QED
    BY <1>2, <2>1, ResumeFacts
<1>5. error' \in [Thread -> Error] /\ \A u \in Thread \ S : error'[u] = error[u]
  BY <1>2 DEF SetError, ThreadInv, ThreadTypeOK, Error
<1>6. budget' \in [Thread -> RT_WAITING_FOREVER .. TickMod - 1]
  BY <1>2, Constants DEF ThreadInv, ThreadTypeOK
<1>7. ThreadTypeOK'
  BY <1>1, <1>2, <1>4, <1>5, <1>6 DEF ThreadInv, ThreadTypeOK
<1>8. Wakes({}, S, Op)
  BY <1>2, <1>3, <1>4, <1>5 DEF Wakes, ThreadInv, ThreadTypeOK
<1> QED
  BY <1>7, <1>8 DEF S, tick

\* A signal wakes a suspended thread; otherwise signals change only
\* thread->error of the thread that handles one.
LEMMA SignalKind ==
  ASSUME ThreadInv, NEW t \in Thread, SignalStep(t)
  PROVE  /\ ThreadTypeOK' /\ UNCHANGED <<exists, op, arg, lists>>
         /\ \/ rt_thread_kill(t) /\ pc[t] = "wait" /\ Wakes({}, {t}, {op[t]})
               /\ UNCHANGED error
            \/ /\ UNCHANGED <<pc, thread_timer, suspend_thread>>
               /\ \A u \in Thread \ {t} : error'[u] = error[u]
<1>1. CASE rt_thread_kill(t) /\ pc[t] = "wait"
  <2>1. Resume({t}, pc) /\ UNCHANGED <<exists, op, arg, error, rt_tick, timeout,
                                       tick_delta, budget, lists>>
    BY <1>1 DEF rt_thread_kill
  <2>2. /\ pc' \in [Thread -> PC]
        /\ \A u \in Thread : pc'[u] = IF u \in {t} THEN "woken" ELSE pc[u]
        /\ thread_timer' \in [Thread -> NoTimer .. TickMod - 1]
        /\ \A u \in {t} : thread_timer'[u] = NoTimer
        /\ \A u \in Thread \ {t} : thread_timer'[u] = thread_timer[u]
        /\ suspend_thread' \in [List -> Seq(Thread)] /\ Removed({t})
    <3>1. {t} \subseteq Thread /\ pc \in [Thread -> PC]
      BY DEF ThreadInv, ThreadTypeOK
    <3> QED
      BY <2>1, <3>1, ResumeFacts
  <2>3. ThreadTypeOK'
    BY <2>1, <2>2 DEF ThreadInv, ThreadTypeOK
  <2>4. Wakes({}, {t}, {op[t]})
    BY <1>1, <2>1, <2>2 DEF Wakes
  <2> QED
    BY <1>1, <2>1, <2>3, <2>4
<1>2. CASE rt_thread_kill(t) /\ pc[t] # "wait"
  BY <1>2 DEF rt_thread_kill, ThreadInv, ThreadTypeOK
<1>3. CASE _signal_entry(t)
  BY <1>3 DEF _signal_entry, ThreadInv, ThreadTypeOK, Error
<1>4. CASE Schedule(t)
  BY <1>4 DEF Schedule, threadVars, ThreadInv, ThreadTypeOK
<1>5. CASE ScheduleEnd(t)
  BY <1>5 DEF ScheduleEnd, ThreadInv, ThreadTypeOK, Error
<1>6. CASE KillSelf(t)
  BY <1>6 DEF KillSelf, ThreadInv, ThreadTypeOK, Error
<1> QED
  BY <1>1, <1>2, <1>3, <1>4, <1>5, <1>6 DEF SignalStep

-----------------------------------------------------------------------------
(***************************************************************************)
(* The invariant that every property below rests on.                       *)
(***************************************************************************)

\* What is being detached can be.
ArgInv ==
  /\ DOMAIN arg = Thread
  /\ \A t \in Thread : op[t] = "detach" => arg[t] \in Detachable

CoreInv == ThreadInv /\ EventType /\ NodesInv /\ ArgInv

\* A step of a thread keeps the invariant of the threads, within its calls.
LEMMA StepsFacts ==
  ASSUME ThreadInv, NEW t \in Thread, NEW P, Steps(t, P)
  PROVE  ThreadInv' /\ Frame(P) /\ op[t] \in P /\ op'[t] \in P
<1>1. CASE Sleeps(t, P)
  BY <1>1, SleepsKeeps, SleepsFrame DEF Steps, Sleeps
<1>2. ASSUME NEW S, Wakes({t}, S, P)
      PROVE  ThreadInv' /\ Frame(P) /\ op[t] \in P /\ op'[t] \in P
  <2>1. ThreadInv'
    BY <1>2, WakesKeeps DEF Steps
  <2>2. Frame(P)
    BY <1>2, WakesFrame
  <2> QED
    BY <1>2, <2>1, <2>2 DEF Wakes
<1> QED
  BY <1>1, <1>2 DEF Steps

\* Steps that are about other calls leave wait queues and detaches alone.
LEMMA NodesFrame ==
  ASSUME NodesInv, NEW P, Frame(P), "wqueue_wait" \notin P, UNCHANGED waiting_list,
         "wqueue" \in exists => "wqueue" \in exists'
  PROVE  NodesInv'
<1>1. \A u \in Thread :
        op[u] = "wqueue_wait" \/ op'[u] = "wqueue_wait" => op'[u] = op[u] /\ pc'[u] = pc[u]
  BY DEF Frame
<1> QED
  BY <1>1 DEF NodesInv, WaitNodesLive

\* Threads that are resumed leave their nodes valid.
LEMMA NodesWoken ==
  ASSUME NodesInv, UNCHANGED <<op, waiting_list, exists>>,
         \A u \in Thread : pc'[u] = "wait" => pc[u] = "wait"
  PROVE  NodesInv'
  BY DEF NodesInv, WaitNodesLive

\* A step that is no detach leaves the detaches that run alone.
LEMMA ArgFrame ==
  ASSUME ArgInv, NEW t \in Thread, NEW P, Frame(P), LocalsKept(t), op[t] \in P,
         "detach" \notin P
  PROVE  ArgInv'
<1>1. DOMAIN arg' = Thread /\ \A u \in Thread \ {t} : arg'[u] = arg[u]
  BY DEF LocalsKept, ArgInv
<1>2. \A u \in Thread : op'[u] = "detach" => op[u] = "detach" /\ u # t
  BY DEF Frame
<1> QED
  BY <1>1, <1>2 DEF ArgInv

\* A step on an object other than a wait queue.
LEMMA CoreObject ==
  ASSUME CoreInv, NEW t \in Thread, NEW P, Steps(t, P), "detach" \notin P,
         "wqueue_wait" \notin P, UNCHANGED waiting_list, EventType'
  PROVE  CoreInv'
<1>1. ThreadInv' /\ Frame(P) /\ op[t] \in P
  BY StepsFacts DEF CoreInv
<1>2. NodesInv'
  BY <1>1, NodesFrame DEF CoreInv, Steps
<1>3. ArgInv'
  BY <1>1, ArgFrame DEF CoreInv, Steps
<1> QED
  BY <1>1, <1>2, <1>3 DEF CoreInv

\* Failed waits and detaches keep the core invariant.
LEMMA CoreThread ==
  ASSUME CoreInv, NEW t \in Thread, ThreadStep(t), UNCHANGED objectVars
  PROVE  CoreInv'
<1>0. EventType' /\ UNCHANGED waiting_list
  BY DEF objectVars, eventVars, wqVars, CoreInv, EventType
<1>1. CASE WaitFailed(t)
  <2>1. Steps(t, {"none", op[t]})
    BY <1>1, WaitFailedKind DEF CoreInv
  <2>2. op[t] \in Blocking \ {"wqueue_wait"}
    BY <1>1, OpsAtFacts DEF WaitFailed, CoreInv, ThreadInv, CallFits
  <2>3. "detach" \notin {"none", op[t]} /\ "wqueue_wait" \notin {"none", op[t]}
    BY <2>2 DEF Blocking
  <2> QED
    BY <1>0, <2>1, <2>3, CoreObject
<1>2. ASSUME NEW o \in Detachable, DetachStart(t, o) PROVE CoreInv'
  <2>1. Steps(t, {"none", "detach"})
    BY <1>2, DetachStartKind DEF CoreInv
  <2>2. ThreadInv' /\ Frame({"none", "detach"})
    BY <2>1, StepsFacts DEF CoreInv
  <2>3. NodesInv'
    BY <1>0, <2>1, <2>2, NodesFrame DEF CoreInv, Steps
  <2>4. ArgInv'
    BY <1>2 DEF DetachStart, CoreInv, ArgInv, ThreadInv, ThreadTypeOK
  <2> QED
    BY <1>0, <2>2, <2>3, <2>4 DEF CoreInv
<1>3. CASE ResumeAllTest(t)
  <2>1. Steps(t, LoopOps)
    BY <1>3, ResumeAllTestKind DEF CoreInv
  <2>2. ThreadInv' /\ Frame(LoopOps)
    BY <2>1, StepsFacts DEF CoreInv
  <2>3. NodesInv'
    BY <1>0, <2>1, <2>2, NodesFrame DEF CoreInv, Steps, LoopOps
  <2>4. ArgInv'
    BY <1>3 DEF ResumeAllTest, CoreInv, ArgInv
  <2> QED
    BY <1>0, <2>2, <2>3, <2>4 DEF CoreInv
<1>4. CASE ResumeAllNext(t)
  <2> DEFINE P == LoopOps \cup {o \in Blocking : ListOf(o) = Head(lists[t])}
  <2>1. Head(lists[t]) \in List /\ Steps(t, P)
    <3>1. LoopOps \subseteq P /\ \A o \in Blocking : ListOf(o) = Head(lists[t]) => o \in P
      OBVIOUS
    <3> HIDE DEF P
    <3> QED
      BY <1>4, <3>1, ResumeAllNextKind DEF CoreInv
  <2>2. ThreadInv' /\ Frame(P)
    <3> HIDE DEF P
    <3> QED
      BY <2>1, StepsFacts DEF CoreInv
  <2>3. "wqueue_wait" \notin P
    BY <2>1, ListOfFacts DEF LoopOps
  <2>4. NodesInv'
    <3> HIDE DEF P
    <3> QED
      BY <1>0, <2>1, <2>2, <2>3, NodesFrame DEF CoreInv, Steps
  <2>5. ArgInv'
    BY <1>4 DEF ResumeAllNext, CoreInv, ArgInv
  <2> QED
    BY <1>0, <2>2, <2>4, <2>5 DEF CoreInv
<1>5. CASE DetachEnd(t)
  <2>1. ThreadTypeOK' /\ LocalsKept(t) /\ Wakes({t}, {}, {"none", "detach"})
    BY <1>5, DetachEndKind DEF CoreInv
  <2>2. ThreadInv'
    BY <2>1, WakesKeeps DEF CoreInv
  <2>3. Frame({"none", "detach"})
    BY <2>1, WakesFrame DEF CoreInv
  <2>4. "wqueue" \in exists => "wqueue" \in exists'
    BY <1>5 DEF DetachEnd, CoreInv, ArgInv, Detachable
  <2>5. NodesInv'
    BY <1>0, <2>3, <2>4, NodesFrame DEF CoreInv
  <2>6. ArgInv'
    <3>1. DOMAIN arg' = Thread /\ \A u \in Thread \ {t} : arg'[u] = arg[u]
      BY <2>1 DEF LocalsKept, CoreInv, ArgInv
    <3>2. op'[t] # "detach" /\ \A u \in Thread \ {t} : op'[u] = op[u]
      BY <1>5 DEF DetachEnd, Returned, CoreInv, ThreadInv, ThreadTypeOK
    <3> QED
      BY <3>1, <3>2 DEF CoreInv, ArgInv
  <2> QED
    BY <1>0, <2>2, <2>5, <2>6 DEF CoreInv
<1> QED
  BY <1>1, <1>2, <1>3, <1>4, <1>5 DEF ThreadStep

\* Every step of a thread keeps the core invariant.
LEMMA CoreOwn ==
  ASSUME CoreInv, NEW t \in Thread, OwnStep(t)
  PROVE  CoreInv'
<1>0. /\ ThreadInv /\ EventType /\ NodesInv /\ ArgInv
      /\ UNCHANGED eventVars => EventType'
  BY DEF CoreInv, EventType, eventVars
<1>1. CASE ThreadStep(t) /\ UNCHANGED objectVars
  BY <1>1, CoreThread
<1>2. CASE SemStep(t) /\ UNCHANGED <<eventVars, wqVars>>
  <2>1. "detach" \notin SemOps /\ "wqueue_wait" \notin SemOps
    BY DEF SemOps
  <2> QED
    BY <1>0, <1>2, <2>1, SemKind, CoreObject DEF wqVars
<1>3. CASE EventStep(t) /\ UNCHANGED wqVars
  <2>1. "detach" \notin EventOps /\ "wqueue_wait" \notin EventOps
    BY DEF EventOps
  <2> QED
    BY <1>0, <1>3, <2>1, EventKind, CoreObject DEF wqVars
<1>4. CASE MailboxStep(t) /\ UNCHANGED <<eventVars, wqVars>>
  <2>1. "detach" \notin MailboxOps /\ "wqueue_wait" \notin MailboxOps
    BY DEF MailboxOps
  <2> QED
    BY <1>0, <1>4, <2>1, MailboxKind, CoreObject DEF wqVars
<1>5. CASE MqStep(t) /\ UNCHANGED <<eventVars, wqVars>>
  <2>1. "detach" \notin MqOps /\ "wqueue_wait" \notin MqOps
    BY DEF MqOps
  <2> QED
    BY <1>0, <1>5, <2>1, MqKind, CoreObject DEF wqVars
<1>6. CASE MemPoolStep(t) /\ UNCHANGED <<eventVars, wqVars>>
  <2>1. "detach" \notin MemPoolOps /\ "wqueue_wait" \notin MemPoolOps
    BY DEF MemPoolOps
  <2> QED
    BY <1>0, <1>6, <2>1, MemPoolKind, CoreObject DEF wqVars
<1>7. CASE CompletionStep(t) /\ UNCHANGED <<eventVars, wqVars>>
  <2>1. "detach" \notin CompletionOps /\ "wqueue_wait" \notin CompletionOps
    BY DEF CompletionOps
  <2> QED
    BY <1>0, <1>7, <2>1, CompletionKind, CoreObject DEF wqVars
<1>8. CASE WaitQueueStep(t) /\ UNCHANGED eventVars
  <2>1. Steps(t, WaitQueueOps) /\ NodesInv'
    BY <1>0, <1>8, WaitQueueKind
  <2>2. ThreadInv' /\ Frame(WaitQueueOps) /\ op[t] \in WaitQueueOps
    BY <1>0, <2>1, StepsFacts
  <2>3. ArgInv'
    BY <1>0, <2>1, <2>2, ArgFrame DEF Steps, WaitQueueOps
  <2> QED
    BY <1>0, <1>8, <2>1, <2>2, <2>3 DEF CoreInv
<1>9. CASE DataQueueStep(t) /\ UNCHANGED <<eventVars, wqVars>>
  <2>1. "detach" \notin DataQueueOps /\ "wqueue_wait" \notin DataQueueOps
    BY DEF DataQueueOps
  <2> QED
    BY <1>0, <1>9, <2>1, DataQueueKind, CoreObject DEF wqVars
<1> QED
  BY <1>1, <1>2, <1>3, <1>4, <1>5, <1>6, <1>7, <1>8, <1>9 DEF OwnStep

\* Steps that leave every thread in the call it is in.
LEMMA CoreInterrupt ==
  ASSUME CoreInv, ThreadInv', UNCHANGED <<op, arg, exists, eventVars, wqVars>>,
         \A u \in Thread : pc'[u] = "wait" => pc[u] = "wait"
  PROVE  CoreInv'
<1>1. NodesInv'
  BY NodesWoken DEF CoreInv, wqVars
<1>2. ArgInv'
  BY DEF CoreInv, ArgInv
<1>3. EventType'
  BY DEF CoreInv, EventType, eventVars
<1> QED
  BY <1>1, <1>2, <1>3 DEF CoreInv

\* Every step of the kernel keeps the core invariant.
LEMMA CoreNext ==
  ASSUME CoreInv, [Next]_vars
  PROVE  CoreInv'
<1>1. CASE Tick /\ UNCHANGED <<objectVars, sigVars>>
  <2>1. ThreadTypeOK' /\ Wakes({}, Due((rt_tick + 1) % TickMod), Op)
    BY <1>1, TickKind DEF CoreInv
  <2>2. ThreadInv'
    BY <2>1, WakesKeeps DEF CoreInv
  <2>3. \A u \in Thread : pc'[u] = "wait" => pc[u] = "wait"
    BY <2>1 DEF Wakes
  <2>4. UNCHANGED <<op, arg, exists, eventVars, wqVars>>
    BY <1>1 DEF Tick, objectVars
  <2> QED
    BY <2>2, <2>3, <2>4, CoreInterrupt
<1>2. ASSUME NEW t \in Thread, OwnStep(t) PROVE CoreInv'
  BY <1>2, CoreOwn
<1>3. ASSUME NEW t \in Thread, SignalStep(t), UNCHANGED objectVars PROVE CoreInv'
  <2>1. ThreadTypeOK' /\ UNCHANGED <<exists, op, arg, lists>>
    BY <1>3, SignalKind DEF CoreInv
  <2>2. UNCHANGED <<eventVars, wqVars>>
    BY <1>3 DEF objectVars
  <2>3. CASE Wakes({}, {t}, {op[t]})
    <3>1. ThreadInv'
      BY <2>1, <2>3, WakesKeeps DEF CoreInv
    <3>2. \A u \in Thread : pc'[u] = "wait" => pc[u] = "wait"
      BY <2>3 DEF Wakes
    <3> QED
      BY <2>1, <2>2, <3>1, <3>2, CoreInterrupt
  <2>4. CASE UNCHANGED <<pc, thread_timer, suspend_thread>>
    <3>1. ThreadInv'
      BY <2>1, <2>4 DEF CoreInv, ThreadInv, CallFits, LoopFits, SuspendedListed, Waiters
    <3> QED
      BY <2>1, <2>2, <2>4, <3>1, CoreInterrupt
  <2> QED
    BY <1>3, <2>3, <2>4, SignalKind DEF CoreInv
<1>4. CASE UNCHANGED vars
  <2>1. UNCHANGED <<op, arg, exists, eventVars, wqVars, pc>> /\ ThreadInv'
    BY <1>4 DEF vars, threadVars, objectVars, CoreInv, ThreadInv, ThreadTypeOK, CallFits,
                LoopFits, SuspendedListed, Waiters
  <2> QED
    BY <2>1, CoreInterrupt
<1> QED
  BY <1>1, <1>2, <1>3, <1>4 DEF Next

\* The core invariant holds when the kernel starts.
LEMMA CoreInit == Init => CoreInv
<1> SUFFICES ASSUME Init PROVE CoreInv
  OBVIOUS
<1>1. ThreadTypeOK
  BY Constants DEF Init, ThreadInit, ThreadTypeOK, PC, Op, Error
<1>2. CallFits /\ LoopFits
  BY OpsAtFacts DEF Init, ThreadInit, CallFits, LoopFits
<1>3. SuspendedListed
  BY EmptyList DEF Init, ThreadInit, SuspendedListed, Waiters
<1>4. EventType
  BY DEF Init, EventInit, EventType, Option, NoOption
<1>5. NodesInv
  BY EmptyList DEF Init, ThreadInit, WaitQueueInit, NodesInv, WaitNodesLive
<1>6. ArgInv
  BY DEF Init, ThreadInit, ArgInv
<1> QED
  BY <1>1, <1>2, <1>3, <1>4, <1>5, <1>6 DEF CoreInv, ThreadInv

\* In every interleaving of calls, detaches, ticks and signals the threads stand
\* where their calls put them: suspended threads in the list of their call, nodes
\* of wait queues in live frames, detaches with the lists of their object.
THEOREM Core == Spec => []CoreInv
  BY CoreInit, CoreNext, PTL DEF Spec

\* However releases, resets, detaches, signals and timeouts interleave, a thread
\* is suspended exactly if it stands, once, in the list of its call, and only
\* then can its timer fire.
THEOREM SuspendedListedAlways == Spec => []SuspendedListed
<1>1. CoreInv => SuspendedListed
  BY DEF CoreInv, ThreadInv
<1> QED
  BY Core, <1>1, PTL

\* Every node of a wait queue lives in a stack frame that exists, and every
\* suspended waiter has its node there, in any order of wakeups and timeouts.
THEOREM WaitNodesLiveAlways == Spec => []WaitNodesLive
<1>1. CoreInv => WaitNodesLive
  BY DEF CoreInv, NodesInv
<1> QED
  BY Core, <1>1, PTL

-----------------------------------------------------------------------------
(***************************************************************************)
(* What a step on one object leaves alone of the others.                   *)
(***************************************************************************)

\* The threads in the calls Q, those that detach an object, and the lists of Q.
Apart(Q) ==
  /\ exists \subseteq exists'
  /\ \A u \in Thread : op[u] \in Q \cup {"detach"} \/ op'[u] \in Q \cup {"detach"} =>
       /\ op'[u] = op[u] /\ pc'[u] = pc[u] /\ error'[u] = error[u] /\ arg'[u] = arg[u]
       /\ thread_timer'[u] = thread_timer[u] /\ lists'[u] = lists[u]
  /\ \A o \in Q : ListOf(o) \in List => suspend_thread'[ListOf(o)] = suspend_thread[ListOf(o)]
  /\ "completion_wait" \in Q => \A u \in Thread : pc'[u] = "done" => pc[u] = "done"

\* No two calls wait in one list.
LEMMA ListOfInjective ==
  \A o, q \in Blocking : ListOf(o) = ListOf(q) => o = q
  BY ListOfFacts DEF Blocking

\* A step in the calls of P leaves the threads and lists of other calls alone.
LEMMA StepsApart ==
  ASSUME CoreInv, NEW t \in Thread, NEW P, Steps(t, P), "detach" \notin P,
         NEW Q, Q \subseteq Blocking, P \cap Q = {}
  PROVE  Apart(Q)
<1>1. Frame(P) /\ op[t] \in P
  BY StepsFacts DEF CoreInv
<1>2. \A u \in Thread \ {t} : arg'[u] = arg[u]
  BY DEF Steps, LocalsKept, CoreInv, ArgInv
<1>3. exists \subseteq exists'
  BY DEF Steps
<1>4. ASSUME NEW u \in Thread, op[u] \in Q \cup {"detach"} \/ op'[u] \in Q \cup {"detach"}
      PROVE  /\ op'[u] = op[u] /\ pc'[u] = pc[u] /\ error'[u] = error[u] /\ arg'[u] = arg[u]
             /\ thread_timer'[u] = thread_timer[u] /\ lists'[u] = lists[u]
  <2>1. op[u] \notin P \/ op'[u] \notin P
    BY <1>4
  <2> QED
    BY <1>1, <1>2, <2>1 DEF Frame
<1>5. ASSUME NEW o \in Q, ListOf(o) \in List
      PROVE  suspend_thread'[ListOf(o)] = suspend_thread[ListOf(o)]
  <2>1. \A q \in P \cap Blocking : ListOf(q) # ListOf(o)
    BY ListOfInjective
  <2> QED
    BY <1>1, <1>5, <2>1 DEF Frame
<1>6. ASSUME "completion_wait" \in Q, NEW u \in Thread, pc'[u] = "done"
      PROVE  pc[u] = "done"
  <2>1. CASE Sleeps(t, P)
    BY <1>6, <2>1 DEF Sleeps, Alone
  <2>2. ASSUME NEW S, Wakes({t}, S, P) PROVE pc[u] = "done"
    BY <1>6, <2>2 DEF Wakes
  <2> QED
    BY <2>1, <2>2 DEF Steps
<1> QED
  BY <1>3, <1>4, <1>5, <1>6 DEF Apart

SemWait        == {"sem_take"}
EventWait      == {"event_recv"}
MailboxWait    == {"mb_send", "mb_recv"}
MemPoolWait    == {"mp_alloc"}
CompletionWaits == {"completion_wait"}
WaitQueueWait  == {"wqueue_wait"}

\* A step of a thread is a step on the object, one that is about no object in
\* particular, or one that is apart from the object.
LEMMA OwnApart ==
  ASSUME CoreInv, NEW t \in Thread, OwnStep(t)
  PROVE  \/ ThreadStep(t) /\ UNCHANGED objectVars
         \/ /\ SemStep(t) \/ (UNCHANGED semVars /\ Apart(SemWait))
            /\ EventStep(t) \/ (UNCHANGED eventVars /\ Apart(EventWait))
            /\ MailboxStep(t) \/ (UNCHANGED mbVars /\ Apart(MailboxWait))
            /\ MemPoolStep(t) \/ (UNCHANGED mpVars /\ Apart(MemPoolWait))
            /\ CompletionStep(t) \/ (UNCHANGED completionVars /\ Apart(CompletionWaits))
            /\ WaitQueueStep(t) \/ (UNCHANGED wqVars /\ Apart(WaitQueueWait))
<1> USE DEF SemWait, EventWait, MailboxWait, MemPoolWait, CompletionWaits, WaitQueueWait
<1>0. ThreadInv /\ EventType /\ NodesInv
  BY DEF CoreInv
<1>q. /\ SemWait \subseteq Blocking /\ EventWait \subseteq Blocking
      /\ MailboxWait \subseteq Blocking /\ MemPoolWait \subseteq Blocking
      /\ CompletionWaits \subseteq Blocking /\ WaitQueueWait \subseteq Blocking
  BY DEF Blocking
<1>1. ASSUME NEW P, Steps(t, P), "detach" \notin P
      PROVE  /\ P \cap SemWait = {} => Apart(SemWait)
             /\ P \cap EventWait = {} => Apart(EventWait)
             /\ P \cap MailboxWait = {} => Apart(MailboxWait)
             /\ P \cap MemPoolWait = {} => Apart(MemPoolWait)
             /\ P \cap CompletionWaits = {} => Apart(CompletionWaits)
             /\ P \cap WaitQueueWait = {} => Apart(WaitQueueWait)
  <2> HIDE DEF SemWait, EventWait, MailboxWait, MemPoolWait, CompletionWaits, WaitQueueWait
  <2> QED
    BY <1>1, <1>q, StepsApart
<1>2. CASE SemStep(t) /\ UNCHANGED <<eventVars, mbVars, mpVars, completionVars, wqVars>>
  <2>1. Steps(t, SemOps)
    BY <1>0, <1>2, SemKind
  <2> QED
    BY <1>1, <1>2, <2>1 DEF SemOps
<1>3. CASE EventStep(t) /\ UNCHANGED <<semVars, mbVars, mpVars, completionVars, wqVars>>
  <2>1. Steps(t, EventOps)
    BY <1>0, <1>3, EventKind
  <2> QED
    BY <1>1, <1>3, <2>1 DEF EventOps
<1>4. CASE MailboxStep(t) /\ UNCHANGED <<semVars, eventVars, mpVars, completionVars, wqVars>>
  <2>1. Steps(t, MailboxOps)
    BY <1>0, <1>4, MailboxKind
  <2> QED
    BY <1>1, <1>4, <2>1 DEF MailboxOps
<1>5. CASE MqStep(t)
           /\ UNCHANGED <<semVars, eventVars, mbVars, mpVars, completionVars, wqVars>>
  <2>1. Steps(t, MqOps)
    BY <1>0, <1>5, MqKind
  <2> QED
    BY <1>1, <1>5, <2>1 DEF MqOps
<1>6. CASE MemPoolStep(t) /\ UNCHANGED <<semVars, eventVars, mbVars, completionVars, wqVars>>
  <2>1. Steps(t, MemPoolOps)
    BY <1>0, <1>6, MemPoolKind
  <2> QED
    BY <1>1, <1>6, <2>1 DEF MemPoolOps
<1>7. CASE CompletionStep(t) /\ UNCHANGED <<semVars, eventVars, mbVars, mpVars, wqVars>>
  <2>1. Steps(t, CompletionOps)
    BY <1>0, <1>7, CompletionKind
  <2> QED
    BY <1>1, <1>7, <2>1 DEF CompletionOps
<1>8. CASE WaitQueueStep(t)
           /\ UNCHANGED <<semVars, eventVars, mbVars, mpVars, completionVars>>
  <2>1. Steps(t, WaitQueueOps)
    BY <1>0, <1>8, WaitQueueKind
  <2> QED
    BY <1>1, <1>8, <2>1 DEF WaitQueueOps
<1>9. CASE DataQueueStep(t)
           /\ UNCHANGED <<semVars, eventVars, mbVars, mpVars, completionVars, wqVars>>
  <2>1. Steps(t, DataQueueOps)
    BY <1>0, <1>9, DataQueueKind
  <2> QED
    BY <1>1, <1>9, <2>1 DEF DataQueueOps
<1> QED
  BY <1>2, <1>3, <1>4, <1>5, <1>6, <1>7, <1>8, <1>9 DEF OwnStep

\* Steps about no object in particular, the tick and signals put no thread into
\* a list.
Shrinks ==
  \A l \in List : /\ ToSet(suspend_thread'[l]) \subseteq ToSet(suspend_thread[l])
                  /\ suspend_thread[l] = <<>> => suspend_thread'[l] = <<>>

\* Resuming threads makes no list longer.
LEMMA WakesShrinks ==
  ASSUME NEW A, NEW S, NEW P, Wakes(A, S, P)
  PROVE  Shrinks
<1>1. \A l \in List : ToSet(suspend_thread'[l]) = ToSet(suspend_thread[l]) \ S
  BY DEF Wakes, Removed
<1>2. \A l \in List : suspend_thread[l] = <<>> => suspend_thread'[l] = <<>>
  BY EmptyList DEF Wakes, Removed
<1> QED
  BY <1>1, <1>2 DEF Shrinks

\* Failed waits and detaches make no list longer.
LEMMA ThreadShrinks ==
  ASSUME ThreadInv, NEW t \in Thread, ThreadStep(t)
  PROVE  Shrinks
<1>1. CASE ResumeAllNext(t)
  <2> DEFINE P == LoopOps \cup Blocking
  <2>1. LoopOps \subseteq P /\ \A o \in Blocking : ListOf(o) = Head(lists[t]) => o \in P
    OBVIOUS
  <2> HIDE DEF P
  <2> QED
    BY <1>1, <2>1, ResumeAllNextKind, WakesShrinks
<1>2. CASE UNCHANGED suspend_thread
  BY <1>2 DEF Shrinks
<1> QED
  BY <1>1, <1>2 DEF ThreadStep, WaitFailed, DetachStart, ResumeAllTest, DetachEnd

\* Ticks and signals make no list longer.
LEMMA InterruptShrinks ==
  ASSUME ThreadInv,
         \/ Tick
         \/ \E t \in Thread : SignalStep(t)
         \/ UNCHANGED vars
  PROVE  Shrinks
<1>1. CASE Tick
  BY <1>1, TickKind, WakesShrinks
<1>2. ASSUME NEW t \in Thread, SignalStep(t) PROVE Shrinks
  <2>1. CASE Wakes({}, {t}, {op[t]})
    BY <2>1, WakesShrinks
  <2>2. CASE UNCHANGED suspend_thread
    BY <2>2 DEF Shrinks
  <2> QED
    BY <1>2, <2>1, <2>2, SignalKind
<1>3. CASE UNCHANGED vars
  BY <1>3 DEF Shrinks, vars, threadVars
<1> QED
  BY <1>1, <1>2, <1>3

-----------------------------------------------------------------------------
(***************************************************************************)
(* Events.                                                                 *)
(***************************************************************************)

\* Nobody waits for no bit at all.
EventInv == NoMissedEvent /\ \A t \in Waiters("event") : event_set[t] # {}

\* Fewer receivers of the same event miss no event either.
LEMMA EventShrinks ==
  ASSUME EventInv,
         ToSet(suspend_thread'["event"]) \subseteq ToSet(suspend_thread["event"]),
         UNCHANGED eventVars
  PROVE  EventInv'
  BY DEF EventInv, NoMissedEvent, Waiters, eventVars

\* Every step of the event keeps its invariant: rt_event_send looks at every
\* receiver, and a receiver tests the set before it suspends.
LEMMA EventOwn ==
  ASSUME CoreInv, EventInv, NEW t \in Thread, EventStep(t)
  PROVE  EventInv'
<1>0. ThreadInv /\ EventType /\ "event" \in List
  BY ListOps DEF CoreInv
<1> DEFINE s == suspend_thread["event"]
<1>s. s \in Seq(Thread) /\ IsInjective(s) /\ ToSet(s) = Waiters("event")
  BY <1>0 DEF ThreadInv, ThreadTypeOK, SuspendedListed, Waiters
<1>1. CASE rt_event_init(t)
  <2>1. suspend_thread' = suspend_thread /\ event_set' = event_set /\ set' = {}
    BY <1>1 DEF rt_event_init, threadVars
  <2> QED
    BY <2>1 DEF EventInv, NoMissedEvent, Waiters, Satisfied
<1>2. CASE RecvReturn(t)
  BY <1>2, EventShrinks DEF RecvReturn, eventVars
<1>3. CASE EventReset(t)
  <2>1. suspend_thread'["event"] = Kept(s, ToSet(s))
    BY <1>0, <1>3, <1>s DEF EventReset, Resume
  <2>2. ToSet(Kept(s, ToSet(s))) = ToSet(s) \ ToSet(s)
    BY <1>s, KeptFacts
  <2>3. ToSet(suspend_thread'["event"]) = {}
    BY <2>1, <2>2
  <2> QED
    BY <2>3 DEF EventInv, NoMissedEvent, Waiters
<1>4. ASSUME NEW b \in BitSet, rt_event_send(t, b) PROVE EventInv'
  <2> DEFINE c == set \cup b
             k == Scan(s, c)
  <2>1. c \in SUBSET Bit
    BY <1>0 DEF EventType, BitSet
  <2>2. /\ set' = k.set /\ event_set' = k.received /\ event_info' = event_info
        /\ suspend_thread'["event"] = Kept(s, k.woken)
    BY <1>0, <1>4 DEF rt_event_send, Resume
  <2> HIDE DEF s, c
  <2>3. /\ \A u \in Thread \ k.woken : k.received[u] = event_set[u]
        /\ \A u \in ToSet(s) \ k.woken :
             ~Satisfied(event_set[u], event_info[u].all, k.set)
    BY <1>0, <1>s, <2>1, ScanFacts
  <2> HIDE DEF k
  <2>4. ToSet(Kept(s, k.woken)) = ToSet(s) \ k.woken
    BY <1>s, KeptFacts
  <2>5. ToSet(s) \subseteq Thread
    BY <1>s DEF ToSet
  <2>6. \A u \in ToSet(s) \ k.woken : event_set'[u] = event_set[u]
    BY <2>2, <2>3, <2>5
  <2>7. Waiters("event")' = ToSet(s) \ k.woken
    BY <2>2, <2>4 DEF Waiters
  <2> QED
    BY <1>s, <2>2, <2>3, <2>6, <2>7 DEF EventInv, NoMissedEvent
<1>5. ASSUME NEW w \in BitSet, NEW o \in Option, RecvNow(t, w, o) PROVE EventInv'
  <2>1. pc[t] = "run"
    BY <1>5 DEF RecvNow, Calling
  <2>2. t \notin Waiters("event")
    BY <1>0, <2>1 DEF ThreadInv, SuspendedListed
  <2>3. /\ suspend_thread' = suspend_thread /\ set' \subseteq set
        /\ \A u \in Thread \ {t} : event_set'[u] = event_set[u] /\ event_info'[u] = event_info[u]
    BY <1>0, <1>5 DEF RecvNow, EventType
  <2>4. ToSet(s) \subseteq Thread /\ Waiters("event")' = Waiters("event")
    BY <1>s, <2>3 DEF ToSet, Waiters
  <2>5. ASSUME NEW u \in Waiters("event")
        PROVE  ~Satisfied(event_set'[u], event_info'[u].all, set') /\ event_set'[u] # {}
    <3>1. ~Satisfied(event_set[u], event_info[u].all, set) /\ event_set[u] # {}
      BY DEF EventInv, NoMissedEvent
    <3>2. event_set'[u] = event_set[u] /\ event_info'[u] = event_info[u]
      BY <1>s, <2>2, <2>3, <2>4
    <3>3. ~Satisfied(event_set[u], event_info[u].all, set')
      BY <2>3, <3>1, SatisfiedShrinks
    <3> QED
      BY <3>1, <3>2, <3>3
  <2> QED
    BY <2>4, <2>5 DEF EventInv, NoMissedEvent
<1>6. ASSUME NEW w \in BitSet, NEW o \in Option, NEW n \in Timeouts, RecvWait(t, w, o, n)
      PROVE  EventInv'
  <2>1. pc[t] = "run" /\ ~Satisfied(w, o.all, set) /\ w # {}
    BY <1>6 DEF RecvWait, Calling, BitSet
  <2>2. t \notin Waiters("event")
    BY <1>0, <2>1 DEF ThreadInv, SuspendedListed
  <2>3. /\ set' = set /\ event_set'[t] = w /\ event_info'[t] = o
        /\ \A u \in Thread \ {t} : event_set'[u] = event_set[u] /\ event_info'[u] = event_info[u]
    BY <1>0, <1>6 DEF RecvWait, EventType
  <2>4. Suspend(t, "event", n) /\ n \in -1 .. TickMod - 1
    BY <1>6, Constants DEF RecvWait, Wait
  <2>5. Queued(t, "event")
    BY <1>0, <2>1, <2>4, SuspendFacts
  <2>6. Waiters("event")' = Waiters("event") \cup {t}
    BY <1>0, <2>5 DEF Queued, Waiters
  <2>7. Waiters("event") \subseteq Thread
    BY <1>s DEF ToSet
  <2>8. ASSUME NEW u \in Waiters("event")
        PROVE  ~Satisfied(event_set'[u], event_info'[u].all, set') /\ event_set'[u] # {}
    <3>1. ~Satisfied(event_set[u], event_info[u].all, set) /\ event_set[u] # {}
      BY DEF EventInv, NoMissedEvent
    <3>2. event_set'[u] = event_set[u] /\ event_info'[u] = event_info[u]
      BY <2>2, <2>3, <2>7
    <3> QED
      BY <2>3, <3>1, <3>2
  <2>9. ~Satisfied(event_set'[t], event_info'[t].all, set') /\ event_set'[t] # {}
    BY <2>1, <2>3
  <2> QED
    BY <2>6, <2>8, <2>9 DEF EventInv, NoMissedEvent
<1> QED
  BY <1>1, <1>2, <1>3, <1>4, <1>5, <1>6 DEF EventStep

\* Every step of the kernel keeps the invariant of the event.
LEMMA EventNext ==
  ASSUME CoreInv, EventInv, [Next]_vars
  PROVE  EventInv'
<1>0. ThreadInv /\ "event" \in List
  BY ListOps DEF CoreInv
<1>1. ASSUME Shrinks, UNCHANGED eventVars PROVE EventInv'
  BY <1>0, <1>1, EventShrinks DEF Shrinks
<1>2. ASSUME NEW t \in Thread, OwnStep(t) PROVE EventInv'
  <2>1. CASE ThreadStep(t) /\ UNCHANGED objectVars
    BY <1>0, <1>1, <2>1, ThreadShrinks DEF objectVars
  <2>2. CASE EventStep(t)
    BY <2>2, EventOwn
  <2>3. CASE UNCHANGED eventVars /\ Apart(EventWait)
    <3>1. suspend_thread'["event"] = suspend_thread["event"]
      BY <1>0, <2>3, ListOfFacts DEF Apart, EventWait
    <3> QED
      BY <2>3, <3>1, EventShrinks
  <2> QED
    BY <1>2, <2>1, <2>2, <2>3, OwnApart
<1>3. CASE \/ Tick /\ UNCHANGED objectVars
           \/ \E t \in Thread : SignalStep(t) /\ UNCHANGED objectVars
           \/ UNCHANGED vars
  <2>1. Shrinks
    BY <1>0, <1>3, InterruptShrinks
  <2>2. UNCHANGED eventVars
    BY <1>3 DEF vars, objectVars
  <2> QED
    BY <1>1, <2>1, <2>2
<1> QED
  BY <1>2, <1>3 DEF Next

\* No thread waits for bits that are set: the scan of rt_event_send misses no
\* waiter, although those it wakes may clear bits and leave the list meanwhile.
THEOREM NoMissedEventAlways == Spec => []NoMissedEvent
<1>1. Init => EventInv
  BY EmptyList DEF Init, ThreadInit, EventInv, NoMissedEvent, Waiters, List
<1>2. CoreInv /\ EventInv /\ [Next]_vars => EventInv'
  BY EventNext
<1>3. EventInv => NoMissedEvent
  BY DEF EventInv
<1> QED
  BY Core, <1>1, <1>2, <1>3, PTL DEF Spec

-----------------------------------------------------------------------------
(***************************************************************************)
(* Semaphores.                                                             *)
(***************************************************************************)

\* NoIdleUnit is inductive only together with the fact that threads wait only
\* for a semaphore that exists: rt_sem_init sets the value without a look at
\* the list.  A detach forgets the semaphore only when its list is empty.
SemInv ==
  /\ NoIdleUnit
  /\ suspend_thread["sem"] # <<>> => "sem" \in exists
  /\ \A t \in Thread : op[t] = "detach" /\ arg[t] = "sem" =>
       lists[t] = <<"sem">> \/ (lists[t] = <<>> /\ suspend_thread["sem"] = <<>>)

\* Steps that start no wait for a semaphore and leave its value and detaches alone.
LEMMA SemShrinks ==
  ASSUME SemInv, value' = value, exists \subseteq exists',
         suspend_thread["sem"] = <<>> => suspend_thread'["sem"] = <<>>,
         \A u \in Thread : op'[u] = "detach" =>
           op[u] = "detach" /\ arg'[u] = arg[u] /\ lists'[u] = lists[u]
  PROVE  SemInv'
  BY DEF SemInv, NoIdleUnit

\* Every step of the semaphore keeps its invariant.
LEMMA SemOwn ==
  ASSUME CoreInv, SemInv, NEW t \in Thread, SemStep(t)
  PROVE  SemInv'
<1>0. ThreadInv /\ "sem" \in List /\ Steps(t, SemOps)
  BY SemKind, ListOps DEF CoreInv
<1>1. /\ exists \subseteq exists'
      /\ \A u \in Thread : op'[u] = "detach" =>
           op[u] = "detach" /\ arg'[u] = arg[u] /\ lists'[u] = lists[u]
  <2>1. "detach" \notin SemOps /\ {} \subseteq Blocking /\ SemOps \cap {} = {}
    BY DEF SemOps
  <2> QED
    BY <1>0, <2>1, StepsApart DEF Apart
<1>2. ASSUME NEW v, rt_sem_init(t, v) PROVE SemInv'
  <2>1. suspend_thread' = suspend_thread /\ suspend_thread["sem"] = <<>>
    BY <1>2 DEF rt_sem_init, Creating, threadVars, SemInv
  <2> QED
    BY <1>1, <2>1 DEF SemInv, NoIdleUnit
<1>3. CASE TakeNow(t)
  <2>1. suspend_thread' = suspend_thread /\ value > 0
    BY <1>3 DEF TakeNow, threadVars
  <2>2. suspend_thread["sem"] = <<>>
    BY <2>1 DEF SemInv, NoIdleUnit
  <2> QED
    BY <1>1, <2>1, <2>2 DEF SemInv, NoIdleUnit
<1>4. ASSUME NEW n \in Timeouts, TakeWait(t, n) PROVE SemInv'
  <2>1. value' = 0 /\ "sem" \in exists
        /\ \A u \in Thread : op[u] = "detach" => arg[u] # "sem"
    BY <1>4 DEF TakeWait, Calling
  <2> QED
    BY <1>1, <2>1 DEF SemInv, NoIdleUnit
<1>5. CASE TakeReturn(t)
  BY <1>1, <1>5, SemShrinks DEF TakeReturn
<1>6. CASE rt_sem_release(t)
  <2>1. suspend_thread'["sem"] = Kept(suspend_thread["sem"], First("sem"))
    BY <1>0, <1>6 DEF rt_sem_release, Resume
  <2>2. CASE suspend_thread["sem"] = <<>>
    <3>1. /\ <<>> \in Seq(Thread) /\ IsInjective(<<>>)
          /\ ToSet(<<>>) \cap First("sem") = {}
      BY EmptyList
    <3>2. Kept(<<>>, First("sem")) = <<>>
      BY <3>1, KeptFacts
    <3> QED
      BY <1>1, <2>1, <2>2, <3>2 DEF SemInv, NoIdleUnit
  <2>3. CASE suspend_thread["sem"] # <<>>
    <3>1. First("sem") # {}
      BY <1>0, <2>3, FirstFacts
    <3>2. value' = value
      BY <1>6, <3>1 DEF rt_sem_release
    <3> QED
      BY <1>1, <2>3, <3>2, SemShrinks
  <2> QED
    BY <2>2, <2>3
<1>7. ASSUME NEW v, SemReset(t, v) PROVE SemInv'
  <2> DEFINE s == suspend_thread["sem"]
  <2>1. suspend_thread'["sem"] = Kept(s, ToSet(s))
    BY <1>0, <1>7 DEF SemReset, Resume, Waiters
  <2>2. s \in Seq(Thread) /\ IsInjective(s)
    BY <1>0 DEF ThreadInv, ThreadTypeOK, SuspendedListed
  <2>3. /\ Kept(s, ToSet(s)) \in Seq(Thread)
        /\ ToSet(Kept(s, ToSet(s))) = ToSet(s) \ ToSet(s)
    BY <2>2, KeptFacts
  <2> HIDE DEF s
  <2>4. suspend_thread'["sem"] = <<>>
    BY <2>1, <2>3, HeadFacts
  <2> QED
    BY <1>1, <2>4 DEF SemInv, NoIdleUnit
<1> QED
  BY <1>2, <1>3, <1>4, <1>5, <1>6, <1>7 DEF SemStep

\* So do failed waits and detaches of any object.
LEMMA SemThread ==
  ASSUME CoreInv, SemInv, NEW t \in Thread, ThreadStep(t), UNCHANGED objectVars
  PROVE  SemInv'
<1>0. ThreadInv /\ ArgInv /\ "sem" \in List /\ value' = value
  BY ListOps DEF CoreInv, objectVars, semVars
<1>1. suspend_thread["sem"] = <<>> => suspend_thread'["sem"] = <<>>
  BY <1>0, ThreadShrinks DEF Shrinks
<1>2. CASE WaitFailed(t)
  BY <1>0, <1>1, <1>2, SemShrinks
     DEF WaitFailed, Returned, ArgInv, ThreadInv, ThreadTypeOK
<1>3. ASSUME NEW o \in Detachable, DetachStart(t, o) PROVE SemInv'
  <2>1. /\ UNCHANGED <<suspend_thread, exists>>
        /\ \A u \in Thread \ {t} : op'[u] = op[u] /\ arg'[u] = arg[u] /\ lists'[u] = lists[u]
        /\ arg'[t] = o /\ lists'[t] = ListsOf(o)
    BY <1>0, <1>3 DEF DetachStart, ArgInv, ThreadInv, ThreadTypeOK
  <2>2. ListsOf("sem") = <<"sem">>
    BY DEF ListsOf
  <2> QED
    BY <1>0, <2>1, <2>2 DEF SemInv, NoIdleUnit
<1>4. CASE ResumeAllTest(t)
  <2>1. UNCHANGED <<exists, op, arg, suspend_thread>> /\ lists[t] # <<>>
    BY <1>4 DEF ResumeAllTest
  <2>2. \A u \in Thread \ {t} : lists'[u] = lists[u]
    BY <1>0, <1>4 DEF ResumeAllTest, ThreadInv, ThreadTypeOK
  <2>3. ASSUME op[t] = "detach", arg[t] = "sem"
        PROVE  lists'[t] = <<"sem">> \/ (lists'[t] = <<>> /\ suspend_thread'["sem"] = <<>>)
    <3>1. lists[t] = <<"sem">>
      BY <2>1, <2>3 DEF SemInv
    <3>2. Head(<<"sem">>) = "sem" /\ Tail(<<"sem">>) = <<>>
      OBVIOUS
    <3>3. CASE suspend_thread["sem"] = <<>>
      BY <1>0, <1>4, <2>1, <3>1, <3>2, <3>3 DEF ResumeAllTest, ThreadInv, ThreadTypeOK
    <3>4. CASE suspend_thread["sem"] # <<>>
      BY <1>4, <3>1, <3>2, <3>4 DEF ResumeAllTest
    <3> QED
      BY <3>3, <3>4
  <2> QED
    BY <1>0, <2>1, <2>2, <2>3 DEF SemInv, NoIdleUnit
<1>5. CASE ResumeAllNext(t)
  BY <1>0, <1>1, <1>5, SemShrinks DEF ResumeAllNext
<1>6. CASE DetachEnd(t)
  <2>1. /\ UNCHANGED <<suspend_thread, lists>> /\ exists' = exists \ {arg[t]}
        /\ \A u \in Thread \ {t} : op'[u] = op[u] /\ arg'[u] = arg[u]
        /\ op'[t] = "none" /\ op[t] = "detach" /\ lists[t] = <<>>
    BY <1>0, <1>6 DEF DetachEnd, Returned, ArgInv, ThreadInv, ThreadTypeOK
  <2>2. arg[t] = "sem" => suspend_thread["sem"] = <<>>
    BY <2>1 DEF SemInv
  <2> QED
    BY <1>0, <2>1, <2>2 DEF SemInv, NoIdleUnit
<1> QED
  BY <1>2, <1>3, <1>4, <1>5, <1>6 DEF ThreadStep

\* Every step of the kernel keeps the invariant of the semaphore.
LEMMA SemNext ==
  ASSUME CoreInv, SemInv, [Next]_vars
  PROVE  SemInv'
<1>0. ThreadInv /\ "sem" \in List
  BY ListOps DEF CoreInv
<1>1. ASSUME NEW t \in Thread, OwnStep(t) PROVE SemInv'
  <2>1. CASE ThreadStep(t) /\ UNCHANGED objectVars
    BY <2>1, SemThread
  <2>2. CASE SemStep(t)
    BY <2>2, SemOwn
  <2>3. CASE UNCHANGED semVars /\ Apart(SemWait)
    <3>1. suspend_thread'["sem"] = suspend_thread["sem"]
      BY <1>0, <2>3, ListOfFacts DEF Apart, SemWait
    <3> QED
      BY <2>3, <3>1, SemShrinks DEF Apart, semVars
  <2> QED
    BY <1>1, <2>1, <2>2, <2>3, OwnApart
<1>2. CASE \/ Tick /\ UNCHANGED objectVars
           \/ \E t \in Thread : SignalStep(t) /\ UNCHANGED objectVars
           \/ UNCHANGED vars
  <2>1. suspend_thread["sem"] = <<>> => suspend_thread'["sem"] = <<>>
    BY <1>0, <1>2, InterruptShrinks DEF Shrinks
  <2>2. UNCHANGED <<exists, op, arg, lists>>
    BY <1>0, <1>2, SignalKind DEF vars, threadVars, Tick
  <2>3. value' = value
    BY <1>2 DEF vars, objectVars, semVars
  <2> QED
    BY <2>1, <2>2, <2>3, SemShrinks
<1> QED
  BY <1>1, <1>2 DEF Next

\* No unit of a semaphore lies idle while a thread waits for one.
THEOREM NoIdleUnitAlways == Spec => []NoIdleUnit
<1>1. Init => SemInv
  BY DEF Init, ThreadInit, SemInv, NoIdleUnit, List
<1>2. CoreInv /\ SemInv /\ [Next]_vars => SemInv'
  BY SemNext
<1>3. SemInv => NoIdleUnit
  BY DEF SemInv
<1> QED
  BY Core, <1>1, <1>2, <1>3, PTL DEF Spec

-----------------------------------------------------------------------------
(***************************************************************************)
(* Timeouts.                                                               *)
(***************************************************************************)

\* Every step of a thread is of one of the two kinds.
LEMMA OwnKind ==
  ASSUME CoreInv, NEW t \in Thread, OwnStep(t)
  PROVE  (\E P : Steps(t, P)) \/ DetachEnd(t)
<1>0. ThreadInv /\ EventType /\ NodesInv
  BY DEF CoreInv
<1>1. CASE ThreadStep(t)
  <2>1. CASE ResumeAllNext(t)
    <3> DEFINE P == LoopOps \cup Blocking
    <3>1. LoopOps \subseteq P /\ \A o \in Blocking : ListOf(o) = Head(lists[t]) => o \in P
      OBVIOUS
    <3> HIDE DEF P
    <3> QED
      BY <1>0, <2>1, <3>1, ResumeAllNextKind
  <2>2. ASSUME NEW o \in Detachable, DetachStart(t, o) PROVE \E P : Steps(t, P)
    BY <1>0, <2>2, DetachStartKind
  <2> QED
    BY <1>0, <1>1, <2>1, <2>2, WaitFailedKind, ResumeAllTestKind DEF ThreadStep
<1>2. CASE \/ SemStep(t) \/ EventStep(t) \/ MailboxStep(t) \/ MqStep(t) \/ MemPoolStep(t)
           \/ CompletionStep(t) \/ WaitQueueStep(t) \/ DataQueueStep(t)
  BY <1>0, <1>2, SemKind, EventKind, MailboxKind, MqKind, MemPoolKind, CompletionKind,
     WaitQueueKind, DataQueueKind
<1> QED
  BY <1>1, <1>2 DEF OwnStep

\* TimeLeft, of a timeout n that began at tick d.
Left(n, k, d) == IF n > 0 THEN Maximum(n - Minus(k, d), 0) ELSE n

\* The waits whose timer is set for the end of the caller's time: DeadlineKept
\* needs to know that a call that may wait again has not lost count of it, be it
\* suspended or woken and late.
DeadlineInv ==
  /\ DeadlineKept
  /\ \A t \in Thread : pc[t] \in {"wait", "woken"} /\ op[t] \in ChannelWaits =>
       timeout[t] # 0 /\ budget[t] = Left(timeout[t], rt_tick, tick_delta[t])
  /\ \A t \in Thread :
       /\ pc[t] = "wait" /\ op[t] \notin {"mp_alloc", "dq_push", "dq_pop"}
       /\ budget[t] # RT_WAITING_FOREVER
       => thread_timer[t] # NoTimer

\* A timer set for n ticks from now is due in n ticks.
LEMMA TimerDue ==
  ASSUME NEW m \in Nat, NEW k \in 0 .. m - 1, NEW n \in 1 .. m - 1
  PROVE  (((k + n) % m) - k) % m = n
<1>1. CASE k + n < m
  BY <1>1
<1>2. CASE k + n >= m
  <2>1. (k + n) % m = k + n - m
    BY <1>2
  <2>2. (n - m) % m = n
    OBVIOUS
  <2> QED
    BY <2>1, <2>2
<1> QED
  BY <1>1, <1>2

\* A tick brings a timer that is not due one tick nearer, and adds one to the time
\* waited unless that is more than a tick counter can tell.
LEMMA TickNearer ==
  ASSUME NEW m \in Nat, NEW k \in 0 .. m - 1, NEW d \in 0 .. m - 1
  PROVE  /\ (d - k) % m > 0 => (d - ((k + 1) % m)) % m = ((d - k) % m) - 1
         /\ (d - k) % m = 1 => d = (k + 1) % m
         /\ (k - d) % m < m - 1 => (((k + 1) % m) - d) % m = ((k - d) % m) + 1
<1>1. (k + 1) % m = IF k = m - 1 THEN 0 ELSE k + 1
  OBVIOUS
<1>2. \A x \in -(m - 1) .. m - 1 : x % m = IF x < 0 THEN x + m ELSE x
  OBVIOUS
<1> QED
  BY <1>1, <1>2

\* Threads that neither start a wait nor are touched by the clock.
LEMMA DeadlineOthers ==
  ASSUME DeadlineInv, rt_tick' = rt_tick, NEW u \in Thread,
         op'[u] = op[u], timeout'[u] = timeout[u], tick_delta'[u] = tick_delta[u],
         budget'[u] = budget[u],
         \/ pc'[u] = pc[u] /\ thread_timer'[u] = thread_timer[u]
         \/ pc[u] = "wait" /\ pc'[u] = "woken"
  PROVE  /\ pc'[u] \in {"wait", "woken"} /\ op'[u] \in ChannelWaits =>
              timeout'[u] # 0 /\ budget'[u] = Left(timeout'[u], rt_tick', tick_delta'[u])
         /\ pc'[u] = "wait" /\ op'[u] \notin {"mp_alloc", "dq_push", "dq_pop"} =>
              /\ budget'[u] # RT_WAITING_FOREVER => thread_timer'[u] # NoTimer
              /\ IF budget'[u] = RT_WAITING_FOREVER THEN thread_timer'[u] = NoTimer
                 ELSE Minus(thread_timer'[u], rt_tick') = budget'[u] /\ budget'[u] > 0
  BY DEF DeadlineInv, DeadlineKept

\* A step of a thread keeps the ticks that are left of every wait: who suspends
\* starts its timer with them, and who is resumed has no timer.
LEMMA DeadlineOwn ==
  ASSUME CoreInv, DeadlineInv, NEW t \in Thread, NEW P, LocalsKept(t), rt_tick' = rt_tick,
         (Sleeps(t, P) /\ Timed(t)) \/ (\E S : Wakes({t}, S, P))
  PROVE  DeadlineInv'
<1>0. /\ rt_tick \in 0 .. TickMod - 1 /\ TickMod \in Nat /\ RT_WAITING_FOREVER = -1
      /\ NoTimer = -1
  BY Constants DEF CoreInv, ThreadInv, ThreadTypeOK
<1> DEFINE
      Count(u) == pc'[u] \in {"wait", "woken"} /\ op'[u] \in ChannelWaits =>
                    timeout'[u] # 0 /\ budget'[u] = Left(timeout'[u], rt_tick', tick_delta'[u])
      Timer(u) == pc'[u] = "wait" /\ op'[u] \notin {"mp_alloc", "dq_push", "dq_pop"} =>
              /\ budget'[u] # RT_WAITING_FOREVER => thread_timer'[u] # NoTimer
              /\ IF budget'[u] = RT_WAITING_FOREVER THEN thread_timer'[u] = NoTimer
                 ELSE Minus(thread_timer'[u], rt_tick') = budget'[u] /\ budget'[u] > 0
<1>1. ASSUME NEW u \in Thread \ {t} PROVE Count(u) /\ Timer(u)
  <2>1. /\ timeout'[u] = timeout[u] /\ tick_delta'[u] = tick_delta[u]
        /\ budget'[u] = budget[u]
    BY DEF LocalsKept
  <2>2. CASE Sleeps(t, P)
    BY <2>1, <2>2, DeadlineOthers DEF Sleeps, Alone
  <2>3. ASSUME NEW S, Wakes({t}, S, P) PROVE Count(u) /\ Timer(u)
    <3>1. /\ op'[u] = op[u]
          /\ \/ pc'[u] = pc[u] /\ thread_timer'[u] = thread_timer[u]
             \/ pc[u] = "wait" /\ pc'[u] = "woken"
      BY <2>3 DEF Wakes
    <3> QED
      BY <2>1, <3>1, DeadlineOthers
  <2> QED
    BY <2>2, <2>3
<1>2. CASE Sleeps(t, P) /\ Timed(t) /\ op'[t] \notin {"mp_alloc", "dq_push", "dq_pop"}
  <2>1. pc'[t] = "wait"
    BY <1>2 DEF Sleeps
  <2>2. PICK n \in (-1 .. TickMod - 1) \ {0} :
           /\ thread_timer'[t] = IF n > 0 THEN (rt_tick + n) % TickMod ELSE NoTimer
           /\ timeout'[t] = n
           /\ n > 0 /\ op'[t] \in ChannelWaits => tick_delta'[t] = rt_tick
           /\ \/ budget'[t] = n
              \/ /\ pc[t] = "woken" /\ op[t] \in ChannelWaits
                 /\ n = TimeLeft(t) /\ budget'[t] = budget[t]
    BY <1>2 DEF Timed
  <2>3. budget'[t] = n
    BY <2>2 DEF DeadlineInv, TimeLeft, Left
  <2>4. ASSUME n = -1 PROVE Count(t) /\ Timer(t)
    <3>1. Timer(t)
      BY <1>0, <2>2, <2>3, <2>4
    <3>2. Left(n, rt_tick', tick_delta'[t]) = -1
      BY <2>4 DEF Left
    <3> QED
      BY <2>2, <2>3, <2>4, <3>1, <3>2
  <2>5. ASSUME n > 0 PROVE Count(t) /\ Timer(t)
    <3>1. n \in 1 .. TickMod - 1
      BY <1>0, <2>5
    <3>5. rt_tick + n \in Int
      BY <1>0
    <3>2. /\ ((rt_tick + n) % TickMod) \in 0 .. TickMod - 1
          /\ Minus((rt_tick + n) % TickMod, rt_tick) = n
      BY <1>0, <3>1, <3>5, TimerDue, ModRange DEF Minus
    <3>3. Timer(t)
      BY <1>0, <2>2, <2>3, <2>5, <3>2
    <3>4. ASSUME op'[t] \in ChannelWaits PROVE Left(n, rt_tick', tick_delta'[t]) = n
      <4>1. tick_delta'[t] = rt_tick' /\ timeout'[t] = n
        BY <2>2, <2>5, <3>4
      <4>2. (rt_tick - rt_tick) % TickMod = 0
        BY <1>0, Constants
      <4> QED
        BY <2>5, <4>1, <4>2 DEF Left, Minus, Maximum
    <3> QED
      BY <2>2, <2>3, <3>3, <3>4
  <2> QED
    BY <1>1, <2>4, <2>5 DEF DeadlineInv, DeadlineKept
<1>3. CASE (Sleeps(t, P) /\ op'[t] \in {"mp_alloc", "dq_push", "dq_pop"})
           \/ (\E S : Wakes({t}, S, P))
  <2>1. Count(t) /\ Timer(t)
    BY <1>3 DEF Wakes, ChannelWaits
  <2> QED
    BY <1>1, <2>1 DEF DeadlineInv, DeadlineKept
<1> QED
  BY <1>2, <1>3

\* A tick takes one off what is left and off the distance of every timer.
LEMMA DeadlineTick ==
  ASSUME CoreInv, DeadlineInv, Tick
  PROVE  DeadlineInv'
<1>0. /\ rt_tick \in 0 .. TickMod - 1 /\ TickMod \in Nat /\ MaxLag \in 1 .. TickMod - 1
      /\ RT_WAITING_FOREVER = -1 /\ NoTimer = -1
  BY Constants, TickAssumption DEF CoreInv, ThreadInv, ThreadTypeOK
<1> DEFINE tick == (rt_tick + 1) % TickMod
<1>1. /\ rt_tick' = tick /\ UNCHANGED <<op, timeout, tick_delta>> /\ LagBounded
      /\ budget' = [t \in Thread |-> IF budget[t] > 0 THEN budget[t] - 1 ELSE budget[t]]
  BY DEF Tick
<1>2. Wakes({}, Due(tick), Op)
  BY TickKind DEF CoreInv
<1>3. \A u \in Thread : pc'[u] \in {"wait", "woken"} => pc[u] \in {"wait", "woken"}
  BY <1>2 DEF Wakes
<1>4. \A u \in Thread : pc'[u] = "wait" =>
        pc[u] = "wait" /\ thread_timer'[u] = thread_timer[u] /\ thread_timer[u] # tick
  BY <1>2 DEF Wakes, Due
<1> HIDE DEF tick
<1>5. ASSUME NEW u \in Thread
      PROVE  /\ timeout[u] \in -1 .. TickMod - 1 /\ budget[u] \in -1 .. TickMod - 1
             /\ tick_delta[u] \in 0 .. TickMod - 1
             /\ thread_timer[u] \in -1 .. TickMod - 1
  BY <1>0 DEF CoreInv, ThreadInv, ThreadTypeOK
<1>6. ASSUME NEW u \in Thread, pc'[u] = "wait",
             op'[u] \notin {"mp_alloc", "dq_push", "dq_pop"}
      PROVE  /\ budget'[u] # RT_WAITING_FOREVER => thread_timer'[u] # NoTimer
             /\ IF budget'[u] = RT_WAITING_FOREVER THEN thread_timer'[u] = NoTimer
                ELSE Minus(thread_timer'[u], rt_tick') = budget'[u] /\ budget'[u] > 0
  <2>1. /\ pc[u] = "wait" /\ op[u] \notin {"mp_alloc", "dq_push", "dq_pop"}
        /\ thread_timer'[u] = thread_timer[u] /\ thread_timer[u] # tick
    BY <1>1, <1>4, <1>6
  <2>2. /\ budget[u] # -1 => thread_timer[u] # -1
        /\ IF budget[u] = -1 THEN thread_timer[u] = -1
           ELSE Minus(thread_timer[u], rt_tick) = budget[u] /\ budget[u] > 0
    BY <1>0, <2>1 DEF DeadlineInv, DeadlineKept
  <2>3. CASE budget[u] = -1
    BY <1>0, <1>1, <2>1, <2>2, <2>3
  <2>4. CASE budget[u] # -1
    <3>1. thread_timer[u] \in 0 .. TickMod - 1
      BY <1>5, <2>2, <2>4
    <3>2. budget[u] # 1 /\ Minus(thread_timer[u], tick) = budget[u] - 1
      BY <1>0, <2>1, <2>2, <2>4, <3>1, TickNearer DEF Minus, tick
    <3> QED
      BY <1>0, <1>1, <1>5, <2>1, <2>2, <2>4, <3>1, <3>2
  <2> QED
    BY <2>3, <2>4
<1>7. ASSUME NEW u \in Thread, pc'[u] \in {"wait", "woken"}, op'[u] \in ChannelWaits
      PROVE  timeout'[u] # 0 /\ budget'[u] = Left(timeout'[u], rt_tick', tick_delta'[u])
  <2> DEFINE waited == Minus(rt_tick, tick_delta[u])
  <2>1. /\ pc[u] \in {"wait", "woken"} /\ op[u] \in ChannelWaits
        /\ timeout'[u] = timeout[u] /\ tick_delta'[u] = tick_delta[u]
    BY <1>1, <1>3, <1>7
  <2>2. timeout[u] # 0 /\ budget[u] = Left(timeout[u], rt_tick, tick_delta[u])
    BY <2>1 DEF DeadlineInv
  <2>3. CASE timeout[u] = -1
    <3>1. \A k, d : Left(timeout[u], k, d) = -1
      BY <2>3 DEF Left
    <3> QED
      BY <1>1, <2>1, <2>2, <3>1
  <2>4. CASE timeout[u] > 0
    <3>1. budget[u] = Maximum(timeout[u] - waited, 0) /\ waited \in 0 .. TickMod - 1
      BY <1>0, <1>5, <2>2, <2>4, ModRange DEF Left, Minus
    <3>2. waited < TickMod - 1
      <4>1. CASE pc[u] = "wait"
        <5>1. op[u] \notin {"mp_alloc", "dq_push", "dq_pop"}
          BY <2>1 DEF ChannelWaits
        <5>2. budget[u] > 0 \/ budget[u] = -1
          BY <1>0, <4>1, <5>1 DEF DeadlineInv, DeadlineKept
        <5> HIDE DEF waited
        <5> QED
          BY <1>0, <1>5, <3>1, <5>2 DEF Maximum
      <4>2. CASE pc[u] = "woken"
        <5>1. op[u] \in Recomputing
          BY <2>1 DEF ChannelWaits, Recomputing
        <5>2. waited < MaxLag
          BY <1>1, <2>4, <4>2, <5>1 DEF LagBounded
        <5> HIDE DEF waited
        <5> QED
          BY <1>0, <3>1, <5>2
      <4> QED
        BY <2>1, <4>1, <4>2
    <3>3. Minus(tick, tick_delta[u]) = waited + 1
      BY <1>0, <1>5, <3>2, TickNearer DEF Minus, tick
    <3>4. Left(timeout[u], tick, tick_delta[u]) =
            Maximum(timeout[u] - Minus(tick, tick_delta[u]), 0)
      BY <2>4 DEF Left
    <3>5. budget'[u] = IF budget[u] > 0 THEN budget[u] - 1 ELSE budget[u]
      BY <1>1
    <3> HIDE DEF waited
    <3> QED
      BY <1>0, <1>1, <1>5, <2>1, <2>4, <3>1, <3>3, <3>4, <3>5 DEF Maximum
  <2> QED
    BY <1>5, <2>2, <2>3, <2>4
<1> QED
  BY <1>6, <1>7 DEF DeadlineInv, DeadlineKept

\* Every step of the kernel keeps the deadlines.
LEMMA DeadlineNext ==
  ASSUME CoreInv, DeadlineInv, [Next]_vars
  PROVE  DeadlineInv'
<1>1. ASSUME NEW t \in Thread, OwnStep(t) PROVE DeadlineInv'
  <2>1. ASSUME NEW P, Steps(t, P) PROVE DeadlineInv'
    BY <2>1, DeadlineOwn DEF Steps
  <2>2. CASE DetachEnd(t)
    <3>1. LocalsKept(t) /\ Wakes({t}, {}, {"none", "detach"}) /\ rt_tick' = rt_tick
      BY <2>2, DetachEndKind DEF CoreInv, DetachEnd
    <3> QED
      BY <3>1, DeadlineOwn
  <2> QED
    BY <1>1, <2>1, <2>2, OwnKind
<1>2. ASSUME UNCHANGED <<op, rt_tick, timeout, tick_delta, budget>>,
             \A u \in Thread : \/ pc'[u] = pc[u] /\ thread_timer'[u] = thread_timer[u]
                               \/ pc[u] = "wait" /\ pc'[u] = "woken"
      PROVE  DeadlineInv'
  <2>1. \A u \in Thread :
         /\ pc'[u] \in {"wait", "woken"} /\ op'[u] \in ChannelWaits =>
              timeout'[u] # 0 /\ budget'[u] = Left(timeout'[u], rt_tick', tick_delta'[u])
         /\ pc'[u] = "wait" /\ op'[u] \notin {"mp_alloc", "dq_push", "dq_pop"} =>
              /\ budget'[u] # RT_WAITING_FOREVER => thread_timer'[u] # NoTimer
              /\ IF budget'[u] = RT_WAITING_FOREVER THEN thread_timer'[u] = NoTimer
                 ELSE Minus(thread_timer'[u], rt_tick') = budget'[u] /\ budget'[u] > 0
    BY <1>2, DeadlineOthers
  <2> QED
    BY <2>1 DEF DeadlineInv, DeadlineKept
<1>3. ASSUME NEW t \in Thread, SignalStep(t) PROVE DeadlineInv'
  <2>1. UNCHANGED <<op, rt_tick, timeout, tick_delta, budget>>
    BY <1>3
       DEF SignalStep, rt_thread_kill, KillSelf, _signal_entry, Schedule, ScheduleEnd, threadVars
  <2>2. \A u \in Thread : \/ pc'[u] = pc[u] /\ thread_timer'[u] = thread_timer[u]
                          \/ pc[u] = "wait" /\ pc'[u] = "woken"
    BY <1>3, SignalKind DEF CoreInv, Wakes
  <2> QED
    BY <1>2, <2>1, <2>2
<1>4. CASE UNCHANGED vars
  BY <1>2, <1>4 DEF vars, threadVars
<1> QED
  BY <1>1, <1>3, <1>4, DeadlineTick DEF Next

\* A call on a semaphore, event, mailbox, message queue, completion or wait queue
\* takes no longer than its timeout, although it may be woken and have to wait
\* again: its timer is always set for the end of the caller's time.
THEOREM DeadlineKeptAlways == Spec => []DeadlineKept
<1>1. Init => DeadlineInv
  BY DEF Init, ThreadInit, DeadlineInv, DeadlineKept
<1>2. CoreInv /\ DeadlineInv /\ [Next]_vars => DeadlineInv'
  BY DeadlineNext
<1>3. DeadlineInv => DeadlineKept
  BY DEF DeadlineInv
<1> QED
  BY Core, <1>1, <1>2, <1>3, PTL DEF Spec

-----------------------------------------------------------------------------
(***************************************************************************)
(* Signals, and what a thread finds after its wait for a semaphore.        *)
(***************************************************************************)

\* A thread is only woken by the others, from a wait.
LEMMA OwnOthers ==
  ASSUME CoreInv, NEW t \in Thread, OwnStep(t), NEW u \in Thread \ {t}
  PROVE  /\ op'[u] = op[u]
         /\ \/ pc'[u] = pc[u] /\ error'[u] = error[u]
            \/ pc[u] = "wait" /\ pc'[u] = "woken"
<1>1. ASSUME NEW S, NEW P, Wakes({t}, S, P)
      PROVE  /\ op'[u] = op[u]
             /\ \/ pc'[u] = pc[u] /\ error'[u] = error[u]
                \/ pc[u] = "wait" /\ pc'[u] = "woken"
  BY <1>1 DEF Wakes
<1>2. ASSUME NEW P, Sleeps(t, P)
      PROVE  op'[u] = op[u] /\ pc'[u] = pc[u] /\ error'[u] = error[u]
  BY <1>2 DEF Sleeps, Alone
<1>3. CASE DetachEnd(t)
  BY <1>1, <1>3, DetachEndKind DEF CoreInv
<1> QED
  BY <1>1, <1>2, <1>3, OwnKind DEF Steps

\* Where a signal can find a thread if signals are polite.
SigInv ==
  /\ sig \in [Thread -> {"none", "pending", "entry", "left"}]
  /\ at \in [Thread -> {"before", "out", "back"}]
  /\ \A t \in Thread : sig[t] = "entry" => pc[t] = "run"
  /\ \A t \in Thread : sig[t] = "pending" => pc[t] = "woken" /\ at[t] = "out"

\* With polite signals, every step keeps what is known of the signals.
LEMMA SigNext ==
  ASSUME Polite, CoreInv, SigInv, [Next]_vars
  PROVE  SigInv'
<1>0. ThreadInv
  BY DEF CoreInv
<1>1. CASE Tick /\ UNCHANGED sigVars
  <2>1. \A u \in Thread : pc[u] # "wait" => pc'[u] = pc[u]
    BY <1>0, <1>1, TickKind DEF Wakes
  <2> QED
    BY <1>1, <2>1 DEF SigInv, sigVars
<1>2. ASSUME NEW t \in Thread, OwnStep(t) PROVE SigInv'
  <2>1. /\ at[t] = "back" /\ sig[t] # "entry" /\ sig' = sig
        /\ at' = [u \in Thread |-> IF pc'[u] = "wait" /\ pc[u] # "wait" /\ exists \cap Signals # {}
                                   THEN "before" ELSE at[u]]
    BY <1>2 DEF OwnStep, Free, Enter
  <2>2. \A u \in Thread \ {t} : pc[u] # "wait" => pc'[u] = pc[u]
    BY <1>2, OwnOthers
  <2> QED
    BY <2>1, <2>2 DEF SigInv
<1>3. ASSUME NEW t \in Thread, rt_thread_kill(t) PROVE SigInv'
  <2>1. /\ sig[t] = "none" /\ at' = at
        /\ pc[t] = "run" \/ (pc[t] = "wait" /\ at[t] = "out")
    BY <1>3 DEF rt_thread_kill, Killable
  <2>2. CASE pc[t] = "wait"
    <3>1. /\ sig' = [sig EXCEPT ![t] = "pending"]
          /\ pc' = [u \in Thread |-> IF u \in {t} THEN "woken" ELSE pc[u]]
      BY <1>3, <2>2 DEF rt_thread_kill, Resume
    <3> QED
      BY <2>1, <2>2, <3>1 DEF SigInv
  <2>3. CASE pc[t] # "wait"
    <3>1. pc' = pc /\ \E s \in {"entry", "left"} : sig' = [sig EXCEPT ![t] = s]
      BY <1>3, <2>3 DEF rt_thread_kill
    <3> QED
      BY <2>1, <2>3, <3>1 DEF SigInv
  <2> QED
    BY <2>2, <2>3
<1>4. ASSUME NEW t \in Thread, _signal_entry(t) PROVE SigInv'
  BY <1>4 DEF _signal_entry, SigInv
<1>5. ASSUME NEW t \in Thread, Schedule(t) PROVE SigInv'
  BY <1>5 DEF Schedule, threadVars, SigInv
<1>8. ASSUME NEW t \in Thread, KillSelf(t) PROVE SigInv'
  BY <1>8 DEF KillSelf, SigInv
<1>6. ASSUME NEW t \in Thread, ScheduleEnd(t) PROVE SigInv'
  BY <1>6 DEF ScheduleEnd, SigInv
<1>7. CASE UNCHANGED vars
  BY <1>7 DEF vars, threadVars, sigVars, SigInv
<1> QED
  BY <1>1, <1>2, <1>3, <1>4, <1>5, <1>6, <1>7, <1>8 DEF Next, SignalStep

\* A thread that has got a unit, and only such a thread, finds RT_EOK: a waiter
\* has RT_EOK in thread->error all the time it waits, and whoever wakes it without
\* a unit leaves an error there, a signal when the thread runs again.
HandInv ==
  /\ \A t \in granted : t \in Thread /\ pc[t] = "woken" /\ op[t] = "sem_take"
  /\ \A t \in Thread : pc[t] = "wait" /\ op[t] = "sem_take" => error[t] = "EOK"
  /\ \A t \in Thread : pc[t] = "woken" /\ op[t] = "sem_take" =>
       IF sig[t] = "pending" THEN t \notin granted ELSE error[t] = "EOK" <=> t \in granted

\* Every step of the semaphore keeps the account of the units handed over.
LEMMA HandOwn ==
  ASSUME CoreInv, SigInv, HandInv, NEW t \in Thread, SemStep(t), sig' = sig
  PROVE  HandInv'
<1>0. ThreadInv /\ "sem" \in List /\ Steps(t, SemOps)
  BY SemKind, ListOps DEF CoreInv
<1>1. \A u \in Waiters("sem") : u \in Thread /\ pc[u] = "wait" /\ op[u] = "sem_take"
  <2>1. \A o \in Blocking : ListOf(o) = "sem" => o \in {"sem_take"}
    BY ListOfFacts DEF Blocking
  <2>2. \A u \in Waiters("sem") : u \in Thread /\ pc[u] = "wait" /\ op[u] \in {"sem_take"}
    BY <1>0, <2>1, WaitersIn
  <2> QED
    BY <2>2
<1>2. First("sem") \subseteq Waiters("sem")
  BY <1>0, FirstFacts
<1>3. ASSUME NEW v, rt_sem_init(t, v) PROVE HandInv'
  BY <1>3 DEF rt_sem_init, threadVars, HandInv
<1>4. CASE TakeNow(t)
  BY <1>4 DEF TakeNow, threadVars, HandInv
<1>5. ASSUME NEW n \in Timeouts, TakeWait(t, n) PROVE HandInv'
  <2>1. /\ pc[t] = "run" /\ granted' = granted
        /\ pc' = [pc EXCEPT ![t] = "wait"] /\ error' = [error EXCEPT ![t] = "EOK"]
        /\ op' = [op EXCEPT ![t] = "sem_take"]
    BY <1>5 DEF TakeWait, Calling, Wait, Suspend
  <2> QED
    BY <1>0, <2>1 DEF HandInv, ThreadInv, ThreadTypeOK
<1>6. CASE TakeReturn(t)
  BY <1>0, <1>6 DEF TakeReturn, Returned, HandInv, ThreadInv, ThreadTypeOK
<1>7. CASE rt_sem_release(t)
  <2>1. /\ granted' = granted \cup First("sem") /\ UNCHANGED <<op, error>>
        /\ pc' = [u \in Thread |-> IF u \in First("sem") THEN "woken" ELSE pc[u]]
    BY <1>7 DEF rt_sem_release, Resume
  <2>2. \A u \in First("sem") : u \in Thread /\ pc[u] = "wait" /\ op[u] = "sem_take"
    BY <1>1, <1>2
  <2> QED
    BY <2>1, <2>2 DEF HandInv, SigInv
<1>8. ASSUME NEW v, SemReset(t, v) PROVE HandInv'
  <2>1. /\ granted' = granted /\ op' = op
        /\ error' = [u \in Thread |-> IF u \in Waiters("sem") THEN "ERROR" ELSE error[u]]
        /\ pc' = [u \in Thread |-> IF u \in Waiters("sem") THEN "woken" ELSE pc[u]]
    BY <1>8 DEF SemReset, Resume, SetError
  <2> QED
    BY <1>1, <2>1 DEF HandInv
<1> QED
  BY <1>3, <1>4, <1>5, <1>6, <1>7, <1>8 DEF SemStep

\* A step that wakes the threads in S with an error, if any, and hands over nothing.
LEMMA HandWoken ==
  ASSUME HandInv, sig' = sig, granted' = granted, NEW S, S \subseteq Thread,
         \A u \in S : pc[u] = "wait" /\ op'[u] = op[u] /\ pc'[u] = "woken" /\ error'[u] # "EOK",
         \A u \in Thread \ S :
           \/ op'[u] = op[u] /\ pc'[u] = pc[u] /\ error'[u] = error[u]
           \/ pc[u] \notin {"wait", "woken"} /\ pc'[u] \notin {"wait", "woken"}
  PROVE  HandInv'
  BY DEF HandInv

\* So do failed waits and detaches.
LEMMA HandThread ==
  ASSUME CoreInv, SigInv, HandInv, NEW t \in Thread, Free(t), ThreadStep(t),
         granted' = granted, sig' = sig
  PROVE  HandInv'
<1>0. ThreadInv
  BY DEF CoreInv
<1>1. CASE WaitFailed(t)
  <2>1. /\ pc[t] = "woken" /\ error[t] # "EOK" /\ error' = error
        /\ pc'[t] = "run" /\ op'[t] = "none"
        /\ \A u \in Thread \ {t} : pc'[u] = pc[u] /\ op'[u] = op[u]
    BY <1>0, <1>1 DEF WaitFailed, Returned, ThreadInv, ThreadTypeOK
  <2>2. sig[t] # "pending"
    BY DEF Free, SigInv
  <2>3. t \notin granted
    BY <2>1, <2>2 DEF HandInv
  <2> QED
    BY <2>1, <2>3 DEF HandInv
<1>2. ASSUME NEW o \in Detachable, DetachStart(t, o) PROVE HandInv'
  <2>1. /\ pc[t] = "run" /\ pc'[t] = "test" /\ error' = error
        /\ \A u \in Thread \ {t} : pc'[u] = pc[u] /\ op'[u] = op[u]
    BY <1>0, <1>2 DEF DetachStart, Calling, ThreadInv, ThreadTypeOK
  <2> QED
    BY <2>1 DEF HandInv
<1>3. CASE ResumeAllTest(t)
  <2>1. /\ pc[t] = "test" /\ pc'[t] \in {"test", "resume"} /\ UNCHANGED <<error, op>>
        /\ \A u \in Thread \ {t} : pc'[u] = pc[u]
    BY <1>0, <1>3 DEF ResumeAllTest, ThreadInv, ThreadTypeOK
  <2> QED
    BY <2>1 DEF HandInv
<1>4. CASE ResumeAllNext(t)
  <2> DEFINE S == First(Head(lists[t]))
  <2>1. /\ pc[t] = "resume" /\ op' = op
        /\ error' = [u \in Thread |-> IF u \in S THEN "ERROR" ELSE error[u]]
        /\ pc' = [u \in Thread |-> IF u \in S THEN "woken" ELSE [pc EXCEPT ![t] = "test"][u]]
    BY <1>4 DEF ResumeAllNext, Resume, SetError
  <2>2. Head(lists[t]) \in List
    BY <1>0, <1>4 DEF ResumeAllNext, ThreadInv, LoopFits, ThreadTypeOK, DetachList
  <2>3. S \subseteq Thread /\ \A u \in S : pc[u] = "wait"
    BY <1>0, <2>2, FirstFacts
  <2> HIDE DEF S
  <2>4. \A u \in S : pc'[u] = "woken" /\ error'[u] = "ERROR"
    BY <2>1, <2>3
  <2>5. \A u \in Thread \ S : error'[u] = error[u] /\ IF u = t THEN pc'[u] = "test" ELSE pc'[u] = pc[u]
    BY <1>0, <2>1 DEF ThreadInv, ThreadTypeOK
  <2> QED
    BY <2>1, <2>3, <2>4, <2>5, HandWoken
<1>5. CASE DetachEnd(t)
  <2>1. /\ pc[t] = "test" /\ pc'[t] = "run" /\ error' = error
        /\ \A u \in Thread \ {t} : pc'[u] = pc[u] /\ op'[u] = op[u]
    BY <1>0, <1>5 DEF DetachEnd, Returned, ThreadInv, ThreadTypeOK
  <2> QED
    BY <2>1 DEF HandInv
<1> QED
  BY <1>1, <1>2, <1>3, <1>4, <1>5 DEF ThreadStep

\* So do signals that leave waiting threads alone.
LEMMA HandSignal ==
  ASSUME Polite, CoreInv, SigInv, HandInv, NEW t \in Thread, SignalStep(t),
         granted' = granted
  PROVE  HandInv'
<1>0. ThreadInv
  BY DEF CoreInv
<1>1. CASE rt_thread_kill(t)
  <2>1. /\ sig[t] = "none" /\ UNCHANGED <<op, error>>
        /\ pc[t] = "run" \/ (pc[t] = "wait" /\ at[t] = "out")
    BY <1>1 DEF rt_thread_kill, Killable
  <2>2. CASE pc[t] = "wait"
    <3>1. sig' = [sig EXCEPT ![t] = "pending"]
          /\ pc' = [u \in Thread |-> IF u \in {t} THEN "woken" ELSE pc[u]]
      BY <1>1, <2>2 DEF rt_thread_kill, Resume
    <3> QED
      BY <2>1, <2>2, <3>1 DEF HandInv, SigInv
  <2>3. CASE pc[t] # "wait"
    <3>1. pc' = pc /\ \E s \in {"entry", "left"} : sig' = [sig EXCEPT ![t] = s]
      BY <1>1, <2>3 DEF rt_thread_kill
    <3> QED
      BY <2>1, <2>3, <3>1 DEF HandInv, SigInv
  <2> QED
    BY <2>2, <2>3
<1>2. CASE _signal_entry(t)
  BY <1>0, <1>2 DEF _signal_entry, HandInv, SigInv, ThreadInv, ThreadTypeOK
<1>3. CASE Schedule(t)
  BY <1>3 DEF Schedule, threadVars, HandInv
<1>4. CASE ScheduleEnd(t)
  <2>1. /\ pc[t] # "wait" /\ UNCHANGED <<pc, op>>
        /\ sig' = [sig EXCEPT ![t] = IF @ = "pending" THEN "none" ELSE @]
        /\ error' = IF sig[t] = "pending" THEN [error EXCEPT ![t] = "EINTR"] ELSE error
    BY <1>4 DEF ScheduleEnd, SigInv
  <2> QED
    BY <1>0, <2>1 DEF HandInv, SigInv, ThreadInv, ThreadTypeOK
<1>5. CASE KillSelf(t)
  BY <1>0, <1>5 DEF KillSelf, HandInv, ThreadInv, ThreadTypeOK
<1> QED
  BY <1>1, <1>2, <1>3, <1>4, <1>5 DEF SignalStep

\* Every step of the kernel keeps the account of the units handed over.
LEMMA HandNext ==
  ASSUME Polite, CoreInv, SigInv, HandInv, [Next]_vars
  PROVE  HandInv'
<1>0. ThreadInv
  BY DEF CoreInv
<1>1. CASE Tick /\ UNCHANGED <<objectVars, sigVars>>
  <2> DEFINE S == Due((rt_tick + 1) % TickMod)
  <2>1. /\ sig' = sig /\ granted' = granted /\ op' = op
        /\ error' = [u \in Thread |-> IF u \in S THEN "ETIMEOUT" ELSE error[u]]
    BY <1>1 DEF Tick, SetError, objectVars, semVars, sigVars
  <2>2. Wakes({}, S, Op)
    BY <1>0, <1>1, TickKind
  <2> HIDE DEF S
  <2>3. /\ S \subseteq Thread /\ \A u \in S : pc[u] = "wait" /\ pc'[u] = "woken"
        /\ \A u \in Thread \ S : pc'[u] = pc[u]
    BY <2>2 DEF Wakes
  <2>4. \A u \in S : error'[u] # "EOK"
    BY <2>1, <2>3
  <2> QED
    BY <2>1, <2>3, <2>4, HandWoken
<1>2. ASSUME NEW t \in Thread, OwnStep(t) PROVE HandInv'
  <2>1. sig' = sig /\ Free(t)
    BY <1>2 DEF OwnStep, Enter
  <2>2. CASE ThreadStep(t) /\ UNCHANGED objectVars
    BY <2>1, <2>2, HandThread DEF objectVars, semVars
  <2>3. CASE SemStep(t)
    BY <2>1, <2>3, HandOwn
  <2>4. CASE UNCHANGED semVars /\ Apart(SemWait)
    <3>1. \A u \in Thread : op[u] = "sem_take" \/ op'[u] = "sem_take" =>
            op'[u] = op[u] /\ pc'[u] = pc[u] /\ error'[u] = error[u]
      BY <2>4 DEF Apart, SemWait
    <3> QED
      BY <2>1, <2>4, <3>1 DEF HandInv, semVars
  <2> QED
    BY <1>2, <2>2, <2>3, <2>4, OwnApart
<1>3. ASSUME NEW t \in Thread, SignalStep(t), UNCHANGED objectVars PROVE HandInv'
  BY <1>3, HandSignal DEF objectVars, semVars
<1>4. CASE UNCHANGED vars
  BY <1>4 DEF vars, threadVars, objectVars, semVars, sigVars, HandInv
<1> QED
  BY <1>1, <1>2, <1>3, <1>4 DEF Next

\* rt_sem_take returns RT_EOK if and only if a release has handed the thread a
\* unit, as long as signals spare threads that enter or leave a wait.
THEOREM SemHandOverAlways == Polite => (Spec => []SemHandOver)
<1> SUFFICES ASSUME Polite PROVE Spec => []SemHandOver
  OBVIOUS
<1>1. Init => SigInv /\ HandInv
  BY DEF Init, ThreadInit, SignalInit, SemInit, SigInv, HandInv
<1>2. CoreInv /\ SigInv /\ HandInv /\ [Next]_vars => SigInv' /\ HandInv'
  BY SigNext, HandNext
<1>3. SigInv /\ HandInv => SemHandOver
  BY DEF SigInv, HandInv, SemHandOver, Free
<1> QED
  BY Core, <1>1, <1>2, <1>3, PTL DEF Spec

-----------------------------------------------------------------------------
(***************************************************************************)
(* Completions and wait queues, without signals.                           *)
(***************************************************************************)

\* Nobody gets a signal.
StillInv == \A t \in Thread : sig[t] = "none" /\ at[t] = "back"

\* Without signals nobody ever gets one.
LEMMA StillNext ==
  ASSUME Signals = {}, StillInv, [Next]_vars
  PROVE  StillInv' /\ \A t \in Thread : ~SignalStep(t)
<1>1. \A t \in Thread : ~SignalStep(t)
  BY DEF StillInv, SignalStep, rt_thread_kill, KillSelf, Killable, _signal_entry, Schedule, ScheduleEnd
<1>2. ASSUME NEW t \in Thread, OwnStep(t) PROVE StillInv'
  BY <1>2 DEF OwnStep, Enter, StillInv
<1>3. ASSUME UNCHANGED sigVars PROVE StillInv'
  BY <1>3 DEF StillInv, sigVars
<1> QED
  BY <1>1, <1>2, <1>3 DEF Next, vars

\* Detaches, and calls of ipc.c that fail, leave completions and wait queues alone.
LEMMA ThreadAside ==
  ASSUME CoreInv, NEW t \in Thread, ThreadStep(t)
  PROVE  /\ \A u \in Thread :
              op[u] \in {"completion_wait", "wqueue_wait"}
                \/ op'[u] \in {"completion_wait", "wqueue_wait"} =>
              op'[u] = op[u] /\ pc'[u] = pc[u] /\ error'[u] = error[u]
         /\ \A u \in Thread : pc'[u] = "done" => pc[u] = "done"
         /\ suspend_thread'["completion"] = suspend_thread["completion"]
         /\ "completion" \in exists => "completion" \in exists'
<1>0. ThreadInv /\ ArgInv /\ "completion" \in List
  BY ListOps DEF CoreInv
<1>1. ASSUME NEW P, "completion_wait" \notin P, "wqueue_wait" \notin P, Frame(P)
      PROVE  /\ \A u \in Thread :
                  op[u] \in {"completion_wait", "wqueue_wait"}
                    \/ op'[u] \in {"completion_wait", "wqueue_wait"} =>
                  op'[u] = op[u] /\ pc'[u] = pc[u] /\ error'[u] = error[u]
             /\ suspend_thread'["completion"] = suspend_thread["completion"]
  <2>1. \A o \in P \cap Blocking : ListOf(o) # "completion"
    BY <1>1, ListOfFacts DEF Blocking
  <2> QED
    BY <1>0, <1>1, <2>1 DEF Frame
<1>2. ASSUME NEW P, NEW S, "completion_wait" \notin P, Wakes({t}, S, P)
      PROVE  \A u \in Thread : pc'[u] = "done" => pc[u] = "done"
  BY <1>2 DEF Wakes
<1>3. ASSUME NEW P, "completion_wait" \notin P, Steps(t, P)
      PROVE  /\ \A u \in Thread : pc'[u] = "done" => pc[u] = "done"
             /\ "completion" \in exists => "completion" \in exists'
  <2>1. CASE Sleeps(t, P)
    BY <1>3, <2>1 DEF Steps, Sleeps, Alone
  <2>2. ASSUME NEW S, Wakes({t}, S, P)
        PROVE  \A u \in Thread : pc'[u] = "done" => pc[u] = "done"
    BY <1>2, <1>3, <2>2
  <2> QED
    BY <1>3, <2>1, <2>2 DEF Steps
<1>4. ASSUME NEW P, "completion_wait" \notin P, "wqueue_wait" \notin P, Steps(t, P)
      PROVE  Frame(P)
  BY <1>0, <1>4, StepsFacts
<1>5. CASE WaitFailed(t)
  <2>1. Steps(t, {"none", op[t]})
    BY <1>0, <1>5, WaitFailedKind
  <2>2. "completion_wait" \notin {"none", op[t]} /\ "wqueue_wait" \notin {"none", op[t]}
    BY <1>5 DEF WaitFailed
  <2> QED
    BY <1>1, <1>3, <1>4, <2>1, <2>2
<1>6. ASSUME NEW o \in Detachable, DetachStart(t, o)
      PROVE  Steps(t, {"none", "detach"})
  BY <1>0, <1>6, DetachStartKind
<1>7. CASE Steps(t, {"none", "detach"})
  BY <1>1, <1>3, <1>4, <1>7
<1>8. CASE ResumeAllTest(t)
  <2>1. Steps(t, LoopOps)
    BY <1>0, <1>8, ResumeAllTestKind
  <2>2. "completion_wait" \notin LoopOps /\ "wqueue_wait" \notin LoopOps
    BY DEF LoopOps
  <2> QED
    BY <1>1, <1>3, <1>4, <2>1, <2>2
<1>9. CASE ResumeAllNext(t)
  <2> DEFINE P == LoopOps \cup {o \in Blocking : ListOf(o) = Head(lists[t])}
  <2>1. LoopOps \subseteq P /\ \A o \in Blocking : ListOf(o) = Head(lists[t]) => o \in P
    OBVIOUS
  <2>2. Head(lists[t]) \in DetachList
    BY <1>0, <1>9 DEF ResumeAllNext, ThreadInv, LoopFits, ThreadTypeOK
  <2>3. "completion_wait" \notin P /\ "wqueue_wait" \notin P
    BY <2>2, ListOfFacts DEF LoopOps, DetachList
  <2> HIDE DEF P
  <2>4. Steps(t, P)
    BY <1>0, <1>9, <2>1, ResumeAllNextKind
  <2> QED
    BY <1>1, <1>3, <1>4, <2>3, <2>4
<1>10. CASE DetachEnd(t)
  <2>1. Wakes({t}, {}, {"none", "detach"})
    BY <1>0, <1>10, DetachEndKind
  <2>2. Frame({"none", "detach"})
    BY <1>0, <2>1, WakesFrame
  <2>3. "completion" \in exists => "completion" \in exists'
    BY <1>0, <1>10 DEF DetachEnd, ArgInv, Detachable
  <2> QED
    BY <1>1, <1>2, <2>1, <2>2, <2>3
<1> QED
  BY <1>5, <1>6, <1>7, <1>8, <1>9, <1>10 DEF ThreadStep

\* A waiter has RT_EOK in thread->error until it times out, and then no done can
\* be pending that it would wipe out unnoticed.  At most one thread waits, so that
\* rt_completion_done leaves nobody behind when it sets the flag.
CompletionInv ==
  /\ \A t \in notified : t \in Thread /\ pc[t] = "woken" /\ op[t] = "completion_wait"
  /\ \A t \in Thread : pc[t] = "wait" /\ op[t] = "completion_wait" => error[t] = "EOK"
  /\ \A t \in Thread : pc[t] = "woken" /\ op[t] = "completion_wait" =>
       /\ error[t] \in {"EOK", "ETIMEOUT"}
       /\ error[t] = "EOK" <=> t \in notified
       /\ error[t] = "ETIMEOUT" /\ posted => late
  /\ posted /\ ~late => completed
  /\ suspend_thread["completion"] # <<>> => ~completed
  /\ \A t, u \in Waiters("completion") : t = u
  /\ posted => "completion" \in exists
  /\ \A t \in Thread : pc[t] = "done" => "completion" \in exists

\* Every step of the completion keeps its invariant.
LEMMA CompletionOwn ==
  ASSUME CoreInv, CompletionInv, NEW t \in Thread, CompletionStep(t)
  PROVE  CompletionInv'
<1>0. ThreadInv /\ "completion" \in List
  BY ListOps DEF CoreInv
<1> DEFINE s == suspend_thread["completion"]
<1>s. s \in Seq(Thread) /\ IsInjective(s) /\ ToSet(s) = Waiters("completion")
  BY <1>0 DEF ThreadInv, ThreadTypeOK, SuspendedListed, Waiters
<1>1. CASE rt_completion_init(t)
  <2>1. ~posted
    BY <1>1 DEF rt_completion_init, Creating, CompletionInv
  <2>2. /\ UNCHANGED <<pc, op, error, suspend_thread, notified, posted, late>>
        /\ completed' = FALSE /\ "completion" \in exists'
    BY <1>1 DEF rt_completion_init, Creating, threadVars
  <2> QED
    BY <2>1, <2>2 DEF CompletionInv, Waiters
<1>2. CASE CompletionTake(t)
  <2>1. /\ UNCHANGED <<pc, op, error, suspend_thread, notified, late, exists>>
        /\ completed' = FALSE /\ posted' = FALSE
    BY <1>2 DEF CompletionTake, threadVars
  <2> QED
    BY <2>1 DEF CompletionInv, Waiters
<1>3. ASSUME NEW n \in Timeouts, CompletionWait(t, n) PROVE CompletionInv'
  <2>1. /\ pc[t] = "run" /\ ~completed /\ s = <<>>
        /\ UNCHANGED <<completed, notified, posted, late, exists>>
        /\ op' = [op EXCEPT ![t] = "completion_wait"] /\ Suspend(t, "completion", n)
    BY <1>3 DEF CompletionWait, Calling, Wait, completionVars
  <2>2. pc' = [pc EXCEPT ![t] = "wait"] /\ error' = [error EXCEPT ![t] = "EOK"]
    BY <2>1 DEF Suspend
  <2>3. n \in -1 .. TickMod - 1
    BY Constants
  <2>4. Queued(t, "completion")
    BY <1>0, <2>1, <2>3, SuspendFacts
  <2>5. Waiters("completion")' = Waiters("completion") \cup {t}
    BY <1>0, <2>4 DEF Queued, Waiters
  <2>6. Waiters("completion") = {}
    BY <2>1, EmptyList DEF Waiters
  <2> HIDE DEF s
  <2> QED
    BY <1>0, <2>1, <2>2, <2>5, <2>6 DEF CompletionInv, ThreadInv, ThreadTypeOK
<1>4. CASE CompletionReturn(t)
  <2>1. /\ pc[t] = "woken" /\ op[t] = "completion_wait"
        /\ completed' = FALSE /\ posted' = (posted /\ error[t] # "EOK")
        /\ notified' = notified \ {t} /\ UNCHANGED <<error, late, exists, suspend_thread>>
        /\ pc'[t] = "run" /\ op'[t] = "none"
        /\ \A u \in Thread \ {t} : pc'[u] = pc[u] /\ op'[u] = op[u]
    BY <1>0, <1>4 DEF CompletionReturn, Returned, ThreadInv, ThreadTypeOK
  <2>2. error[t] # "EOK" /\ posted => late
    BY <2>1 DEF CompletionInv
  <2> QED
    BY <2>1, <2>2 DEF CompletionInv, Waiters
<1>5. CASE DoneTest(t)
  <2>1. /\ pc[t] = "run" /\ "completion" \in exists /\ pc' = [pc EXCEPT ![t] = "done"]
        /\ UNCHANGED <<exists, op, error, suspend_thread, completed, notified, posted, late>>
    BY <1>5 DEF DoneTest, Calling, completionVars
  <2> QED
    BY <1>0, <2>1 DEF CompletionInv, Waiters, ThreadInv, ThreadTypeOK
<1>6. CASE DoneAct(t)
  <2> DEFINE S == First("completion")
  <2>1. /\ pc[t] = "done" /\ completed' = TRUE /\ posted' = TRUE
        /\ late' = (late \/ TimedOut("completion_wait") # {}) /\ notified' = notified \cup S
        /\ UNCHANGED <<exists, op, error>>
        /\ pc' = [u \in Thread |-> IF u \in S THEN "woken" ELSE [pc EXCEPT ![t] = "run"][u]]
        /\ suspend_thread'["completion"] = Kept(s, S)
    BY <1>0, <1>6 DEF DoneAct, Resume
  <2>2. \A u \in S : u \in Thread /\ pc[u] = "wait" /\ op[u] = "completion_wait"
    <3>1. \A o \in Blocking : ListOf(o) = "completion" => o \in {"completion_wait"}
      BY ListOfFacts DEF Blocking
    <3>2. \A u \in Waiters("completion") :
             u \in Thread /\ pc[u] = "wait" /\ op[u] \in {"completion_wait"}
      BY <1>0, <3>1, WaitersIn
    <3>3. S \subseteq Waiters("completion")
      BY <1>0, FirstFacts
    <3> QED
      BY <3>2, <3>3
  <2>3. suspend_thread'["completion"] = <<>>
    <3>1. Kept(s, S) \in Seq(Thread) /\ ToSet(Kept(s, S)) = ToSet(s) \ S
      <4> HIDE DEF S, s
      <4> QED
        BY <1>s, KeptFacts
    <3>2. ToSet(s) \ S = {}
      <4>1. S \subseteq ToSet(s) /\ (S = {} => s = <<>>)
        BY <1>0, <1>s, FirstFacts
      <4>2. s = <<>> => ToSet(s) = {}
        BY EmptyList
      <4> HIDE DEF S, s
      <4> QED
        BY <1>s, <4>1, <4>2 DEF CompletionInv
    <3> HIDE DEF S, s
    <3> QED
      BY <2>1, <3>1, <3>2, HeadFacts
  <2>4. Waiters("completion")' = {}
    BY <2>3, EmptyList DEF Waiters
  <2> HIDE DEF S, s
  <2>5. /\ \A u \in S : pc'[u] = "woken"
        /\ \A u \in Thread \ S : IF u = t THEN pc'[u] = "run" ELSE pc'[u] = pc[u]
    BY <1>0, <2>1, <2>2 DEF ThreadInv, ThreadTypeOK
  <2>6. \A u \in Thread : pc[u] = "woken" /\ op[u] = "completion_wait" /\ error[u] = "ETIMEOUT" =>
          late'
    BY <2>1 DEF TimedOut
  <2>7. "completion" \in exists'
    BY <2>1 DEF CompletionInv
  <2>8. t \notin S /\ t \notin notified
    BY <2>1, <2>2 DEF CompletionInv
  <2>9. \A u \in notified' : u \in Thread /\ pc'[u] = "woken" /\ op'[u] = "completion_wait"
    BY <2>1, <2>2, <2>5, <2>8 DEF CompletionInv
  <2>10. \A u \in Thread : pc'[u] = "wait" /\ op'[u] = "completion_wait" => error'[u] = "EOK"
    BY <2>1, <2>5 DEF CompletionInv
  <2>11. \A u \in Thread : pc'[u] = "woken" /\ op'[u] = "completion_wait" =>
           /\ error'[u] \in {"EOK", "ETIMEOUT"}
           /\ error'[u] = "EOK" <=> u \in notified'
           /\ error'[u] = "ETIMEOUT" /\ posted' => late'
    BY <2>1, <2>2, <2>5, <2>6 DEF CompletionInv
  <2> QED
    BY <2>1, <2>3, <2>4, <2>7, <2>9, <2>10, <2>11 DEF CompletionInv
<1> QED
  BY <1>1, <1>2, <1>3, <1>4, <1>5, <1>6 DEF CompletionStep

\* Without signals, every step of the kernel keeps the invariant of the completion.
LEMMA CompletionNext ==
  ASSUME Signals = {}, CoreInv, StillInv, CompletionInv, [Next]_vars
  PROVE  CompletionInv'
<1>0. ThreadInv /\ "completion" \in List
  BY ListOps DEF CoreInv
<1>1. CASE Tick /\ UNCHANGED <<objectVars, sigVars>>
  <2> DEFINE S == Due((rt_tick + 1) % TickMod)
  <2>1. /\ UNCHANGED <<completed, notified, posted, late, op, exists>>
        /\ error' = [u \in Thread |-> IF u \in S THEN "ETIMEOUT" ELSE error[u]]
    BY <1>1 DEF Tick, SetError, objectVars, completionVars
  <2>2. Wakes({}, S, Op)
    BY <1>0, <1>1, TickKind
  <2> HIDE DEF S
  <2>3. /\ S \subseteq Thread /\ \A u \in S : pc[u] = "wait" /\ pc'[u] = "woken"
        /\ \A u \in Thread \ S : pc'[u] = pc[u]
    BY <2>2 DEF Wakes
  <2>4. Shrinks
    BY <2>2, WakesShrinks
  <2>5. /\ Waiters("completion")' \subseteq Waiters("completion")
        /\ suspend_thread'["completion"] # <<>> => suspend_thread["completion"] # <<>>
    BY <1>0, <2>4 DEF Shrinks, Waiters
  <2>6. \A u \in Thread : pc[u] = "wait" /\ op[u] = "completion_wait" => (posted => late)
    <3>1. SUFFICES ASSUME NEW u \in Thread, pc[u] = "wait", op[u] = "completion_wait"
                   PROVE  posted => late
      OBVIOUS
    <3>2. u \in ToSet(suspend_thread["completion"])
      BY <1>0, <3>1, ListOfFacts DEF ThreadInv, SuspendedListed, Waiters
    <3>3. suspend_thread["completion"] # <<>>
      BY <3>2, EmptyList
    <3> QED
      BY <3>3 DEF CompletionInv
  <2> QED
    BY <2>1, <2>3, <2>5, <2>6 DEF CompletionInv
<1>2. ASSUME NEW t \in Thread, OwnStep(t) PROVE CompletionInv'
  <2>1. ASSUME \A u \in Thread : op[u] = "completion_wait" \/ op'[u] = "completion_wait" =>
                 op'[u] = op[u] /\ pc'[u] = pc[u] /\ error'[u] = error[u],
               \A u \in Thread : pc'[u] = "done" => pc[u] = "done",
               suspend_thread'["completion"] = suspend_thread["completion"],
               "completion" \in exists => "completion" \in exists',
               UNCHANGED completionVars
        PROVE  CompletionInv'
    BY <2>1 DEF CompletionInv, Waiters, completionVars
  <2>2. CASE ThreadStep(t) /\ UNCHANGED objectVars
    BY <2>1, <2>2, ThreadAside DEF objectVars
  <2>3. CASE CompletionStep(t)
    BY <2>3, CompletionOwn
  <2>4. CASE UNCHANGED completionVars /\ Apart(CompletionWaits)
    <3>1. suspend_thread'["completion"] = suspend_thread["completion"]
      BY <1>0, <2>4, ListOfFacts DEF Apart, CompletionWaits
    <3> QED
      BY <2>1, <2>4, <3>1 DEF Apart, CompletionWaits
  <2> QED
    BY <1>2, <2>2, <2>3, <2>4, OwnApart
<1>3. CASE UNCHANGED vars
  BY <1>3 DEF vars, threadVars, objectVars, completionVars, CompletionInv, Waiters
<1> QED
  BY <1>1, <1>2, <1>3, StillNext DEF Next

\* A woken waiter of a completion finds RT_EOK exactly if a done has resumed it,
\* and no done is forgotten, unless it comes between the timeout of a waiter and
\* its return.
THEOREM CompletionKeptAlways == Signals = {} => (Spec => []CompletionKept)
<1> SUFFICES ASSUME Signals = {} PROVE Spec => []CompletionKept
  OBVIOUS
<1>1. Init => StillInv /\ CompletionInv
  BY EmptyList DEF Init, ThreadInit, SignalInit, CompletionInit, StillInv, CompletionInv,
                   Waiters, List
<1>2. CoreInv /\ StillInv /\ CompletionInv /\ [Next]_vars => StillInv' /\ CompletionInv'
  BY StillNext, CompletionNext
<1>3. CompletionInv => CompletionKept
  BY DEF CompletionInv, CompletionKept
<1> QED
  BY Core, <1>1, <1>2, <1>3, PTL DEF Spec

\* A thread whose node is linked although it does not wait has timed out.
WakeInv ==
  /\ WakeupDelivered
  /\ \A t \in Thread : pc[t] = "wait" /\ op[t] = "wqueue_wait" => error[t] = "EOK"
  /\ \A t \in ToSet(waiting_list) : pc[t] # "wait" => error[t] = "ETIMEOUT"

\* Every step of the wait queue keeps its invariant.
LEMMA WakeOwn ==
  ASSUME CoreInv, WakeInv, NEW t \in Thread, WaitQueueStep(t)
  PROVE  WakeInv'
<1>0. ThreadInv /\ NodesInv
  BY DEF CoreInv
<1> DEFINE s == waiting_list
<1>s. /\ s \in Seq(Thread) /\ IsInjective(s)
      /\ \A u \in ToSet(s) : u \in Thread /\ op[u] = "wqueue_wait"
  BY <1>0 DEF NodesInv, WaitNodesLive
<1>1. CASE rt_wqueue_init(t)
  <2>1. waiting_list' = <<>> /\ wq_flag' = FALSE /\ UNCHANGED <<pc, op, error>>
    BY <1>1 DEF rt_wqueue_init, threadVars
  <2> QED
    BY <2>1, EmptyList DEF WakeInv, WakeupDelivered
<1>2. CASE WqueuePass(t)
  <2>1. wq_flag' = FALSE /\ UNCHANGED <<waiting_list, pc, op, error>>
    BY <1>2 DEF WqueuePass, threadVars
  <2> QED
    BY <2>1 DEF WakeInv, WakeupDelivered
<1>3. ASSUME NEW n \in Timeouts, WqueueWait(t, n) PROVE WakeInv'
  <2>1. /\ pc[t] = "run" /\ ~wq_flag /\ wq_flag' = wq_flag /\ waiting_list' = Append(s, t)
        /\ pc'[t] = "wait" /\ error'[t] = "EOK"
        /\ \A u \in Thread \ {t} : pc'[u] = pc[u] /\ op'[u] = op[u] /\ error'[u] = error[u]
    BY <1>0, <1>3 DEF WqueueWait, Calling, ThreadInv, ThreadTypeOK
  <2>2. op[t] = "none"
    BY <1>0, <2>1, OpsAtFacts DEF ThreadInv, CallFits
  <2>3. ToSet(Append(s, t)) = ToSet(s) \cup {t}
    <3>1. t \notin ToSet(s)
      BY <1>s, <2>2
    <3> HIDE DEF s
    <3> QED
      BY <1>s, <3>1, AppendFacts
  <2> HIDE DEF s
  <2>4. \A u \in ToSet(waiting_list') : pc'[u] # "wait" => error'[u] = "ETIMEOUT"
    BY <1>s, <2>1, <2>3 DEF WakeInv, s
  <2> QED
    BY <2>1, <2>4 DEF WakeInv, WakeupDelivered
<1>4. CASE WqueueWoken(t)
  <2>1. /\ wq_flag' = FALSE /\ UNCHANGED <<waiting_list, op, error>>
        /\ pc[t] = "woken" /\ pc' = [pc EXCEPT ![t] = "remove"]
    BY <1>4 DEF WqueueWoken
  <2> QED
    BY <1>0, <1>s, <2>1 DEF WakeInv, WakeupDelivered, ThreadInv, ThreadTypeOK
<1>5. CASE WqueueReturn(t)
  <2>1. /\ UNCHANGED <<wq_flag, absorbed, error>> /\ waiting_list' = RemoveFirst(s, t)
        /\ pc[t] = "remove" /\ pc'[t] = "run"
        /\ \A u \in Thread \ {t} : pc'[u] = pc[u] /\ op'[u] = op[u]
    BY <1>0, <1>5 DEF WqueueReturn, Returned, ThreadInv, ThreadTypeOK
  <2> HIDE DEF s
  <2>2. ToSet(waiting_list') = ToSet(s) \ {t}
    BY <1>s, <2>1, RemoveFirstFacts
  <2>3. \A u \in ToSet(waiting_list') : u \in Thread \ {t} /\ u \in ToSet(waiting_list)
    BY <1>s, <2>2 DEF s
  <2> QED
    BY <2>1, <2>3 DEF WakeInv, WakeupDelivered
<1>6. CASE rt_wqueue_wakeup(t)
  <2>1. CASE s = <<>>
    <3>1. /\ waiting_list' = <<>> /\ Resume({u \in {} : pc[u] = "wait"}, pc)
          /\ UNCHANGED <<op, error>>
      BY <1>6, <2>1 DEF rt_wqueue_wakeup
    <3>2. \A u \in Thread : pc'[u] = pc[u]
      BY <3>1 DEF Resume
    <3> QED
      BY <3>1, <3>2, EmptyList DEF WakeInv, WakeupDelivered
  <2>2. CASE s # <<>>
    <3> DEFINE h == Head(s)
    <3>1. h \in ToSet(s) /\ h \in Thread /\ op[h] = "wqueue_wait"
      BY <1>s, <2>2, HeadFacts
    <3>2. ToSet(Tail(s)) = ToSet(s) \ {h}
      BY <1>s, <2>2, TailFacts
    <3>3. /\ waiting_list' = Tail(s) /\ UNCHANGED <<op, error>>
          /\ Resume({u \in {h} : pc[u] = "wait"}, pc)
          /\ absorbed' = (absorbed \/ error[h] = "ETIMEOUT")
      BY <1>6, <2>2 DEF rt_wqueue_wakeup
    <3> HIDE DEF s, h
    <3>4. \A u \in Thread : pc'[u] = IF u = h /\ pc[u] = "wait" THEN "woken" ELSE pc[u]
      BY <3>3 DEF Resume
    <3>5. \A u \in ToSet(waiting_list') : u \in Thread /\ u # h /\ u \in ToSet(waiting_list)
      BY <1>s, <3>2, <3>3 DEF s
    <3>6. \A u \in ToSet(waiting_list') : pc'[u] # "wait" => error'[u] = "ETIMEOUT"
      BY <3>3, <3>4, <3>5 DEF WakeInv
    <3>7. \A u \in Thread : pc'[u] = "wait" /\ op'[u] = "wqueue_wait" => error'[u] = "EOK"
      BY <3>3, <3>4 DEF WakeInv
    <3>8. CASE pc[h] = "wait"
      <4>1. pc'[h] = "woken" /\ op'[h] = "wqueue_wait" /\ error'[h] = "EOK"
        BY <3>1, <3>3, <3>4, <3>8 DEF WakeInv
      <4> QED
        BY <3>1, <3>6, <3>7, <4>1 DEF WakeInv, WakeupDelivered
    <3>9. CASE pc[h] # "wait"
      <4>1. absorbed'
        BY <3>1, <3>3, <3>9 DEF WakeInv, s
      <4> QED
        BY <3>6, <3>7, <4>1 DEF WakeInv, WakeupDelivered
    <3> QED
      BY <3>8, <3>9
  <2> QED
    BY <2>1, <2>2
<1> QED
  BY <1>1, <1>2, <1>3, <1>4, <1>5, <1>6 DEF WaitQueueStep

\* Without signals, every step of the kernel keeps the invariant of the wait queue.
LEMMA WakeNext ==
  ASSUME Signals = {}, CoreInv, StillInv, WakeInv, [Next]_vars
  PROVE  WakeInv'
<1>0. ThreadInv
  BY DEF CoreInv
<1>s. \A u \in ToSet(waiting_list) : u \in Thread /\ op[u] = "wqueue_wait"
  BY DEF CoreInv, NodesInv, WaitNodesLive
<1>1. CASE Tick /\ UNCHANGED <<objectVars, sigVars>>
  <2> DEFINE S == Due((rt_tick + 1) % TickMod)
  <2>1. /\ UNCHANGED <<wq_flag, waiting_list, absorbed, op>>
        /\ error' = [u \in Thread |-> IF u \in S THEN "ETIMEOUT" ELSE error[u]]
    BY <1>1 DEF Tick, SetError, objectVars, wqVars
  <2>2. Wakes({}, S, Op)
    BY <1>0, <1>1, TickKind
  <2> HIDE DEF S
  <2>3. /\ S \subseteq Thread /\ \A u \in S : pc[u] = "wait" /\ pc'[u] = "woken"
        /\ \A u \in Thread \ S : pc'[u] = pc[u]
    BY <2>2 DEF Wakes
  <2> QED
    BY <1>s, <2>1, <2>3 DEF WakeInv, WakeupDelivered
<1>2. ASSUME NEW t \in Thread, OwnStep(t) PROVE WakeInv'
  <2>1. ASSUME \A u \in Thread : op[u] = "wqueue_wait" \/ op'[u] = "wqueue_wait" =>
                 op'[u] = op[u] /\ pc'[u] = pc[u] /\ error'[u] = error[u],
               UNCHANGED wqVars
        PROVE  WakeInv'
    BY <1>s, <2>1 DEF WakeInv, WakeupDelivered, wqVars
  <2>2. CASE ThreadStep(t) /\ UNCHANGED objectVars
    BY <2>1, <2>2, ThreadAside DEF objectVars
  <2>3. CASE WaitQueueStep(t)
    BY <2>3, WakeOwn
  <2>4. CASE UNCHANGED wqVars /\ Apart(WaitQueueWait)
    BY <2>1, <2>4 DEF Apart, WaitQueueWait
  <2> QED
    BY <1>2, <2>2, <2>3, <2>4, OwnApart
<1>3. CASE UNCHANGED vars
  BY <1>3 DEF vars, threadVars, objectVars, wqVars, WakeInv, WakeupDelivered
<1> QED
  BY <1>1, <1>2, <1>3, StillNext DEF Next

\* A wakeup of a wait queue with suspended threads has woken one of them, unless
\* it was spent on a node whose thread had timed out.
THEOREM WakeupDeliveredAlways == Signals = {} => (Spec => []WakeupDelivered)
<1> SUFFICES ASSUME Signals = {} PROVE Spec => []WakeupDelivered
  OBVIOUS
<1>1. Init => StillInv /\ WakeInv
  BY EmptyList
     DEF Init, ThreadInit, SignalInit, WaitQueueInit, StillInv, WakeInv, WakeupDelivered
<1>2. CoreInv /\ StillInv /\ WakeInv /\ [Next]_vars => StillInv' /\ WakeInv'
  BY StillNext, WakeNext
<1>3. WakeInv => WakeupDelivered
  BY DEF WakeInv
<1> QED
  BY Core, <1>1, <1>2, <1>3, PTL DEF Spec

=============================================================================
