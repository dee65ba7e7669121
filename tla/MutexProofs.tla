----------------------------- MODULE MutexProofs -----------------------------
(***************************************************************************)
(* Proofs about Mutex for any threads, mutexes and priorities.             *)
(***************************************************************************)
EXTENDS Mutex, ListLemmas

-----------------------------------------------------------------------------
(***************************************************************************)
(* The inductive invariant, whatever the threads do.                       *)
(***************************************************************************)

\* A thread inside rt_mutex_detach.
Detacher(t) == pc[t] \in {"detach", "resume"}

\* A mutex is detached by one thread, which owns it or has found it free, and
\* no timer can take a waiter from the list between the test and the body.
DetachersAlone ==
  \A t \in Thread : Detacher(t) =>
    /\ wanted[t] \in inited
    /\ owner[wanted[t]] \in {t, NULL}
    /\ \A u \in Thread : Detacher(u) /\ wanted[u] = wanted[t] => u = t
    /\ \A u \in ToSet(suspend_thread[wanted[t]]) : ~thread_timer[u]
    /\ pc[t] = "resume" => suspend_thread[wanted[t]] # <<>>

\* rt_mutex_take resets thread->error before it suspends the thread.
WaitNoError == \A t \in Thread : pc[t] = "wait" => error[t] = "EOK"

\* There is a priority to restore as long as there is an owner.
OwnerPriority == \A m \in inited : owner[m] # NULL => original_priority[m] \in Priority

SafetyInv ==
  /\ TypeOK /\ FreeOrOwned /\ WaitersExact /\ HandOverExact
  /\ DetachersAlone /\ WaitNoError /\ OwnerPriority

USE DEF PC, Error

\* A mutex that may be taken or released is not the one of a detacher.
LEMMA NotDetaching ==
  ASSUME NEW m, m \notin Detaching
  PROVE  \A u \in Thread : Detacher(u) => wanted[u] # m
  BY DEF Detaching, Detacher

\* What the wait list of a mutex is, and what it is without one thread.
LEMMA WaitList ==
  ASSUME SafetyInv, NEW m \in inited
  PROVE  /\ m \in Mutex
         /\ suspend_thread[m] \in Seq(Thread) /\ IsInjective(suspend_thread[m])
         /\ \A u : /\ RemoveFirst(suspend_thread[m], u) \in Seq(Thread)
                   /\ IsInjective(RemoveFirst(suspend_thread[m], u))
                   /\ ToSet(RemoveFirst(suspend_thread[m], u)) = ToSet(suspend_thread[m]) \ {u}
         /\ \A u : u \in ToSet(suspend_thread[m]) <=> u \in Thread /\ pc[u] = "wait" /\ wanted[u] = m
         /\ owner[m] \notin ToSet(suspend_thread[m])
<1>1. m \in Mutex /\ suspend_thread[m] \in Seq(Thread) /\ IsInjective(suspend_thread[m])
  BY DEF SafetyInv, TypeOK, WaitersExact
<1>2. \A u : /\ RemoveFirst(suspend_thread[m], u) \in Seq(Thread)
             /\ IsInjective(RemoveFirst(suspend_thread[m], u))
             /\ ToSet(RemoveFirst(suspend_thread[m], u)) = ToSet(suspend_thread[m]) \ {u}
  BY <1>1, RemoveFirstFacts
<1>3. /\ \A u : u \in ToSet(suspend_thread[m]) <=> u \in Thread /\ pc[u] = "wait" /\ wanted[u] = m
      /\ owner[m] \notin ToSet(suspend_thread[m])
  BY DEF SafetyInv, WaitersExact
<1> QED
  BY <1>1, <1>2, <1>3

\* _ipc_list_suspend: the wait list with one more thread.
LEMMA SuspendedFacts ==
  ASSUME NEW s \in Seq(Thread), NEW t \in Thread,
         current_priority \in [Thread -> Priority]
  PROVE  /\ Suspended(s, t) \in Seq(Thread) /\ Suspended(s, t) # <<>>
         /\ ToSet(Suspended(s, t)) = ToSet(s) \cup {t}
         /\ IsInjective(s) /\ t \notin ToSet(s) => IsInjective(Suspended(s, t))
         /\ OrderedBy(s, current_priority) => OrderedBy(Suspended(s, t), current_priority)
<1> DEFINE I == {i \in 1 .. Len(s) : current_priority[t] < current_priority[s[i]]}
           r == IF I = {} THEN Append(s, t) ELSE InsertAt(s, Min(I), t)
<1>1. current_priority \in [Thread -> Int]
  BY PriorityAssumption DEF Priority
<1>3. I # {} => Min(I) # 0
  <2>1. I \subseteq Nat /\ 0 \notin I
    OBVIOUS
  <2> QED
    BY <2>1, MinFacts
<1>4. SelectInSeq(s, LAMBDA u : current_priority[t] < current_priority[u])
        = IF I # {} THEN Min(I) ELSE 0
  BY DEF SelectInSeq
<1>5. Suspended(s, t) = r
  BY <1>3, <1>4 DEF Suspended
<1>6. \A i : i \in I <=> i \in 1 .. Len(s) /\ current_priority[t] < current_priority[s[i]]
  OBVIOUS
<1> HIDE DEF I
<1>2. /\ r \in Seq(Thread) /\ r # <<>>
      /\ ToSet(r) = ToSet(s) \cup {t}
      /\ IsInjective(s) /\ t \notin ToSet(s) => IsInjective(r)
      /\ OrderedBy(s, current_priority) => OrderedBy(r, current_priority)
  BY <1>1, <1>6, InsertByRank
<1> QED
  BY <1>2, <1>5

\* rt_mutex_init makes an object nobody waits for and nobody detaches.
LEMMA InitSafe ==
  ASSUME SafetyInv, NEW t \in Thread, NEW m \in Mutex, rt_mutex_init(t, m)
  PROVE  SafetyInv'
<1>1. TypeOK'
  BY HoldAssumption DEF SafetyInv, TypeOK, rt_mutex_init
<1>2. FreeOrOwned'
  BY DEF SafetyInv, FreeOrOwned, TypeOK, rt_mutex_init
<1>3. WaitersExact'
  BY EmptyList DEF SafetyInv, WaitersExact, TypeOK, rt_mutex_init
<1>4. HandOverExact'
  BY NullAssumption DEF SafetyInv, HandOverExact, TypeOK, rt_mutex_init
<1>5. DetachersAlone'
  BY DEF SafetyInv, DetachersAlone, Detacher, rt_mutex_init
<1>6. WaitNoError'
  BY DEF SafetyInv, WaitNoError, rt_mutex_init
<1>7. OwnerPriority'
  BY DEF SafetyInv, OwnerPriority, TypeOK, rt_mutex_init
<1> QED
  BY <1>1, <1>2, <1>3, <1>4, <1>5, <1>6, <1>7 DEF SafetyInv

\* The owner takes its mutex once more.
LEMMA TakeAgainSafe ==
  ASSUME SafetyInv, NEW t \in Thread, NEW m \in Mutex, TakeAgain(t, m)
  PROVE  SafetyInv'
<1>0. m \in inited /\ \A u \in Thread : Detacher(u) => wanted[u] # m
  BY NotDetaching DEF TakeAgain, Taking
<1>1. TypeOK'
  BY HoldAssumption DEF SafetyInv, TypeOK, TakeAgain
<1>2. FreeOrOwned'
  BY NullAssumption DEF SafetyInv, FreeOrOwned, TypeOK, TakeAgain
<1>3. WaitersExact'
  BY DEF SafetyInv, WaitersExact, TakeAgain
<1>4. HandOverExact'
  BY DEF SafetyInv, HandOverExact, TakeAgain, Taking
<1>5. DetachersAlone'
  BY DEF SafetyInv, DetachersAlone, Detacher, TakeAgain
<1>6. WaitNoError'
  BY DEF SafetyInv, WaitNoError, TakeAgain
<1>7. OwnerPriority'
  BY DEF SafetyInv, OwnerPriority, TakeAgain
<1> QED
  BY <1>1, <1>2, <1>3, <1>4, <1>5, <1>6, <1>7 DEF SafetyInv

\* A free mutex gets an owner; no woken thread takes it for its own.
LEMMA TakeFreeSafe ==
  ASSUME SafetyInv, NEW t \in Thread, NEW m \in Mutex, TakeFree(t, m)
  PROVE  SafetyInv'
<1>0. m \in inited /\ \A u \in Thread : Detacher(u) => wanted[u] # m
  BY NotDetaching DEF TakeFree, Taking
<1>1. TypeOK'
  BY HoldAssumption DEF SafetyInv, TypeOK, TakeFree
<1>2. FreeOrOwned'
  BY HoldAssumption DEF SafetyInv, FreeOrOwned, TypeOK, TakeFree
<1>3. WaitersExact'
  BY DEF SafetyInv, WaitersExact, TakeFree, Taking
<1>4. HandOverExact'
  <2>1. owner[m] = NULL
    BY <1>0 DEF SafetyInv, FreeOrOwned, TakeFree
  <2>2. ASSUME NEW u \in Thread, pc'[u] = "return"
        PROVE  error'[u] = "EOK" <=> wanted'[u] \in inited' /\ owner'[wanted'[u]] = u
    <3>1. u # t /\ pc[u] = "return" /\ error'[u] = error[u]
      BY <2>2 DEF TakeFree, Taking
    <3>2. owner'[wanted'[u]] = u <=> owner[wanted[u]] = u
      BY <2>1, <3>1, NullAssumption DEF TakeFree
    <3> QED
      BY <3>1, <3>2 DEF SafetyInv, HandOverExact, TakeFree
  <2> QED
    BY <2>2 DEF HandOverExact
<1>5. DetachersAlone'
  BY <1>0 DEF SafetyInv, DetachersAlone, Detacher, TakeFree
<1>6. WaitNoError'
  BY DEF SafetyInv, WaitNoError, TakeFree
<1>7. OwnerPriority'
  BY DEF SafetyInv, OwnerPriority, TypeOK, TakeFree
<1> QED
  BY <1>1, <1>2, <1>3, <1>4, <1>5, <1>6, <1>7 DEF SafetyInv

\* A take without waiting fails.
LEMMA TakeFailsSafe ==
  ASSUME SafetyInv, NEW t \in Thread, NEW m \in Mutex, TakeFails(t, m)
  PROVE  SafetyInv'
<1>0. m \in inited /\ \A u \in Thread : Detacher(u) => wanted[u] # m
  BY NotDetaching DEF TakeFails, Taking
<1>1. TypeOK'
  BY DEF SafetyInv, TypeOK, TakeFails
<1>2. FreeOrOwned'
  BY DEF SafetyInv, FreeOrOwned, TakeFails
<1>3. WaitersExact'
  BY DEF SafetyInv, WaitersExact, TakeFails
<1>4. HandOverExact'
  BY DEF SafetyInv, HandOverExact, TakeFails, Taking
<1>5. DetachersAlone'
  BY DEF SafetyInv, DetachersAlone, Detacher, TakeFails
<1>6. WaitNoError'
  BY DEF SafetyInv, WaitNoError, TakeFails, Taking
<1>7. OwnerPriority'
  BY DEF SafetyInv, OwnerPriority, TakeFails
<1> QED
  BY <1>1, <1>2, <1>3, <1>4, <1>5, <1>6, <1>7 DEF SafetyInv

\* A woken thread returns from rt_mutex_take.
LEMMA TakeReturnSafe ==
  ASSUME SafetyInv, NEW t \in Thread, TakeReturn(t)
  PROVE  SafetyInv'
<1>1. TypeOK'
  BY DEF SafetyInv, TypeOK, TakeReturn
<1>2. FreeOrOwned'
  BY DEF SafetyInv, FreeOrOwned, TakeReturn
<1>3. WaitersExact'
  BY DEF SafetyInv, WaitersExact, TakeReturn
<1>4. HandOverExact'
  BY DEF SafetyInv, HandOverExact, TakeReturn
<1>5. DetachersAlone'
  BY DEF SafetyInv, DetachersAlone, Detacher, TakeReturn
<1>6. WaitNoError'
  BY DEF SafetyInv, WaitNoError, TakeReturn
<1>7. OwnerPriority'
  BY DEF SafetyInv, OwnerPriority, TakeReturn
<1> QED
  BY <1>1, <1>2, <1>3, <1>4, <1>5, <1>6, <1>7 DEF SafetyInv

\* A release by a thread that is not the owner fails.
LEMMA ReleaseFailsSafe ==
  ASSUME SafetyInv, NEW t \in Thread, NEW m \in Mutex, ReleaseFails(t, m)
  PROVE  SafetyInv'
<1>0. m \in inited /\ \A u \in Thread : Detacher(u) => wanted[u] # m
  BY NotDetaching DEF ReleaseFails, Releasing
<1>1. TypeOK'
  BY DEF SafetyInv, TypeOK, ReleaseFails
<1>2. FreeOrOwned'
  BY DEF SafetyInv, FreeOrOwned, ReleaseFails
<1>3. WaitersExact'
  BY DEF SafetyInv, WaitersExact, ReleaseFails
<1>4. HandOverExact'
  BY DEF SafetyInv, HandOverExact, ReleaseFails, Releasing
<1>5. DetachersAlone'
  BY DEF SafetyInv, DetachersAlone, Detacher, ReleaseFails
<1>6. WaitNoError'
  BY DEF SafetyInv, WaitNoError, ReleaseFails, Releasing
<1>7. OwnerPriority'
  BY DEF SafetyInv, OwnerPriority, ReleaseFails
<1> QED
  BY <1>1, <1>2, <1>3, <1>4, <1>5, <1>6, <1>7 DEF SafetyInv

\* The owner gives back one of several holds.
LEMMA ReleaseInnerSafe ==
  ASSUME SafetyInv, NEW t \in Thread, NEW m \in Mutex, ReleaseInner(t, m)
  PROVE  SafetyInv'
<1>0. m \in inited /\ \A u \in Thread : Detacher(u) => wanted[u] # m
  BY NotDetaching DEF ReleaseInner, Releasing
<1>1. TypeOK'
  BY HoldAssumption DEF SafetyInv, TypeOK, ReleaseInner
<1>2. FreeOrOwned'
  BY DEF SafetyInv, FreeOrOwned, TypeOK, ReleaseInner
<1>3. WaitersExact'
  BY DEF SafetyInv, WaitersExact, ReleaseInner
<1>4. HandOverExact'
  BY DEF SafetyInv, HandOverExact, ReleaseInner
<1>5. DetachersAlone'
  BY DEF SafetyInv, DetachersAlone, Detacher, ReleaseInner
<1>6. WaitNoError'
  BY DEF SafetyInv, WaitNoError, ReleaseInner
<1>7. OwnerPriority'
  BY DEF SafetyInv, OwnerPriority, ReleaseInner
<1> QED
  BY <1>1, <1>2, <1>3, <1>4, <1>5, <1>6, <1>7 DEF SafetyInv

\* The last release without waiters frees the mutex.
LEMMA ReleaseFreeSafe ==
  ASSUME SafetyInv, NEW t \in Thread, NEW m \in Mutex, ReleaseFree(t, m)
  PROVE  SafetyInv'
<1>0. m \in inited /\ \A u \in Thread : Detacher(u) => wanted[u] # m
  BY NotDetaching DEF ReleaseFree, Releasing
<1>1. TypeOK'
  BY HoldAssumption
     DEF SafetyInv, TypeOK, FreeOrOwned, OwnerPriority, ReleaseFree, Releasing, Restored
<1>2. FreeOrOwned'
  BY DEF SafetyInv, FreeOrOwned, TypeOK, ReleaseFree
<1>3. WaitersExact'
  BY NullAssumption DEF SafetyInv, WaitersExact, ReleaseFree
<1>4. HandOverExact'
  BY NullAssumption DEF SafetyInv, HandOverExact, ReleaseFree, Releasing
<1>5. DetachersAlone'
  BY <1>0, NullAssumption DEF SafetyInv, DetachersAlone, Detacher, ReleaseFree
<1>6. WaitNoError'
  BY DEF SafetyInv, WaitNoError, ReleaseFree
<1>7. OwnerPriority'
  BY DEF SafetyInv, OwnerPriority, TypeOK, ReleaseFree
<1> QED
  BY <1>1, <1>2, <1>3, <1>4, <1>5, <1>6, <1>7 DEF SafetyInv

\* rt_mutex_detach begins: the caller is alone with the mutex from here on.
LEMMA DetachStartSafe ==
  ASSUME SafetyInv, NEW t \in Thread, NEW m \in Mutex, DetachStart(t, m)
  PROVE  SafetyInv'
<1>0. m \in inited /\ \A u \in Thread : Detacher(u) => wanted[u] # m
  BY NotDetaching DEF DetachStart, Releasing
<1>1. TypeOK'
  BY DEF SafetyInv, TypeOK, DetachStart
<1>2. FreeOrOwned'
  BY DEF SafetyInv, FreeOrOwned, DetachStart
<1>3. WaitersExact'
  BY DEF SafetyInv, WaitersExact, DetachStart, Releasing
<1>4. HandOverExact'
  BY DEF SafetyInv, HandOverExact, DetachStart, Releasing
<1>5. DetachersAlone'
  BY <1>0 DEF SafetyInv, DetachersAlone, Detacher, TypeOK, DetachStart
<1>6. WaitNoError'
  BY DEF SafetyInv, WaitNoError, DetachStart
<1>7. OwnerPriority'
  BY DEF SafetyInv, OwnerPriority, DetachStart
<1> QED
  BY <1>1, <1>2, <1>3, <1>4, <1>5, <1>6, <1>7 DEF SafetyInv

\* rt_mutex_detach has found a waiter.
LEMMA DetachTestSafe ==
  ASSUME SafetyInv, NEW t \in Thread, DetachTest(t)
  PROVE  SafetyInv'
<1>1. TypeOK'
  BY DEF SafetyInv, TypeOK, DetachTest
<1>2. FreeOrOwned'
  BY DEF SafetyInv, FreeOrOwned, DetachTest
<1>3. WaitersExact'
  BY DEF SafetyInv, WaitersExact, DetachTest
<1>4. HandOverExact'
  BY DEF SafetyInv, HandOverExact, DetachTest
<1>5. DetachersAlone'
  BY NullAssumption, HoldAssumption, PriorityAssumption
     DEF SafetyInv, DetachersAlone, Detacher, TypeOK, WaitersExact, DetachTest
<1>6. WaitNoError'
  BY DEF SafetyInv, WaitNoError, DetachTest
<1>7. OwnerPriority'
  BY DEF SafetyInv, OwnerPriority, DetachTest
<1> QED
  BY <1>1, <1>2, <1>3, <1>4, <1>5, <1>6, <1>7 DEF SafetyInv

\* rt_mutex_detach is over: nobody waits for what is no mutex any more.
LEMMA DetachEndSafe ==
  ASSUME SafetyInv, NEW t \in Thread, DetachEnd(t)
  PROVE  SafetyInv'
<1>1. TypeOK'
  BY DEF SafetyInv, TypeOK, DetachEnd
<1>2. FreeOrOwned'
  BY DEF SafetyInv, FreeOrOwned, DetachEnd
<1>3. WaitersExact'
  BY EmptyList DEF SafetyInv, WaitersExact, DetachEnd
<1>4. HandOverExact'
  BY NullAssumption DEF SafetyInv, HandOverExact, DetachersAlone, Detacher, DetachEnd
<1>5. DetachersAlone'
  BY DEF SafetyInv, DetachersAlone, Detacher, TypeOK, DetachEnd
<1>6. WaitNoError'
  BY DEF SafetyInv, WaitNoError, DetachEnd
<1>7. OwnerPriority'
  BY DEF SafetyInv, OwnerPriority, DetachEnd
<1> QED
  BY <1>1, <1>2, <1>3, <1>4, <1>5, <1>6, <1>7 DEF SafetyInv

\* A thread is suspended in the wait list of a mutex that has an owner.
LEMMA TakeWaitSafe ==
  ASSUME SafetyInv, NEW t \in Thread, NEW m \in Mutex, NEW timed \in BOOLEAN,
         TakeWait(t, m, timed)
  PROVE  SafetyInv'
<1> DEFINE s == suspend_thread[m]
           r == Suspended(s, t)
<1>0. m \in inited /\ \A u \in Thread : Detacher(u) => wanted[u] # m
  BY NotDetaching DEF TakeWait, Taking
<1>a. /\ s \in Seq(Thread) /\ IsInjective(s) /\ owner[m] \notin ToSet(s)
      /\ \A u : u \in ToSet(s) <=> u \in Thread /\ pc[u] = "wait" /\ wanted[u] = m
  BY <1>0, WaitList
<1>b. pc[t] = "run" /\ t \notin ToSet(s) /\ owner[m] # t
  BY <1>a DEF TakeWait, Taking
<1>c. r \in Seq(Thread) /\ r # <<>> /\ IsInjective(r) /\ ToSet(r) = ToSet(s) \cup {t}
  BY <1>a, <1>b, SuspendedFacts DEF SafetyInv, TypeOK
<1>d. /\ suspend_thread' = [suspend_thread EXCEPT ![m] = r]
      /\ thread_timer' = [thread_timer EXCEPT ![t] = timed]
      /\ error' = [error EXCEPT ![t] = "EOK"]
      /\ pc' = [pc EXCEPT ![t] = "wait"]
      /\ wanted' = [wanted EXCEPT ![t] = m]
      /\ UNCHANGED <<inited, value, owner, original_priority, hold>>
  BY DEF TakeWait
<1>e. owner[m] # NULL /\ value[m] = 0 /\ hold[m] > 0
  BY <1>0 DEF SafetyInv, FreeOrOwned, TakeWait
<1> HIDE DEF s, r
<1>1. TypeOK'
  <2>1. current_priority' \in [Thread -> Priority]
    BY DEF TakeWait, SafetyInv, TypeOK
  <2> QED
    BY <1>c, <1>d, <2>1 DEF SafetyInv, TypeOK
<1>2. FreeOrOwned'
  BY <1>d, <1>e DEF SafetyInv, FreeOrOwned
<1>3. WaitersExact'
  <2>1. ASSUME NEW n \in inited
        PROVE  /\ IsInjective(suspend_thread'[n])
               /\ ToSet(suspend_thread'[n]) = {u \in Thread : pc'[u] = "wait" /\ wanted'[u] = n}
               /\ owner[n] \notin ToSet(suspend_thread'[n])
    <3>1. CASE n = m
      BY <1>a, <1>b, <1>c, <1>d, <3>1 DEF SafetyInv, TypeOK
    <3>2. CASE n # m
      BY <1>b, <1>d, <3>2 DEF SafetyInv, TypeOK, WaitersExact
    <3> QED
      BY <3>1, <3>2
  <2>2. \A u \in Thread : pc'[u] = "wait" => wanted'[u] \in inited'
    BY <1>0, <1>d DEF SafetyInv, TypeOK, WaitersExact
  <2>3. \A u \in Thread : thread_timer'[u] => pc'[u] = "wait"
    BY <1>d DEF SafetyInv, TypeOK, WaitersExact
  <2> QED
    BY <1>d, <2>1, <2>2, <2>3 DEF WaitersExact
<1>4. HandOverExact'
  BY <1>d DEF SafetyInv, HandOverExact, TypeOK
<1>5. DetachersAlone'
  BY <1>0, <1>b, <1>d DEF SafetyInv, DetachersAlone, Detacher, WaitersExact
<1>6. WaitNoError'
  BY <1>d DEF SafetyInv, WaitNoError, TypeOK
<1>7. OwnerPriority'
  BY <1>d DEF SafetyInv, OwnerPriority
<1> QED
  BY <1>1, <1>2, <1>3, <1>4, <1>5, <1>6, <1>7 DEF SafetyInv

\* rt_thread_resume of a waiter u of m that does not get m, by its timer or by a
\* detach: it is gone from the list, and keeps nothing that points there.
LEMMA WaiterGivesUp ==
  ASSUME SafetyInv, NEW u \in Thread, pc[u] = "wait",
         NEW e \in {"ETIMEOUT", "ERROR"}, Resumed(u, wanted[u], e),
         UNCHANGED <<current_priority, wanted, inited, value, owner, original_priority,
                     hold>>,
         pc' \in [Thread -> PC], pc'[u] = "return",
         \A v \in Thread \ {u} : pc'[v] = pc[v] \/ (pc[v] = "resume" /\ pc'[v] = "detach"),
         \A v \in Thread : pc'[v] = "resume" => wanted[v] # wanted[u]
  PROVE  SafetyInv'
<1> DEFINE m == wanted[u]
           s == suspend_thread[m]
           r == RemoveFirst(s, u)
<1>0. m \in inited
  BY DEF SafetyInv, WaitersExact
<1>a. /\ s \in Seq(Thread) /\ IsInjective(s) /\ owner[m] \notin ToSet(s)
      /\ r \in Seq(Thread) /\ IsInjective(r) /\ ToSet(r) = ToSet(s) \ {u}
      /\ \A v : v \in ToSet(s) <=> v \in Thread /\ pc[v] = "wait" /\ wanted[v] = m
  BY <1>0, WaitList
<1>b. owner[m] # u
  BY <1>a
<1>d. /\ suspend_thread' = [suspend_thread EXCEPT ![m] = r]
      /\ thread_timer' = [thread_timer EXCEPT ![u] = FALSE]
      /\ error' = [error EXCEPT ![u] = e]
  BY DEF Resumed
<1> HIDE DEF m, s, r
<1>m. m = wanted[u] /\ m \in Mutex
  BY DEF SafetyInv, TypeOK, m
<1>p. \A v \in Thread : pc'[v] = "wait" <=> pc[v] = "wait" /\ v # u
  OBVIOUS
<1>1. TypeOK'
  BY <1>a, <1>d DEF SafetyInv, TypeOK
<1>2. FreeOrOwned'
  <2>1. owner[m] = NULL => FALSE
    BY <1>0, <1>a, <1>m, EmptyList DEF SafetyInv, FreeOrOwned, s
  <2> QED
    BY <1>d, <2>1 DEF SafetyInv, FreeOrOwned
<1>3. WaitersExact'
  <2>1. ASSUME NEW n \in inited
        PROVE  /\ IsInjective(suspend_thread'[n])
               /\ ToSet(suspend_thread'[n]) = {v \in Thread : pc'[v] = "wait" /\ wanted'[v] = n}
               /\ owner[n] \notin ToSet(suspend_thread'[n])
    <3>1. CASE n = m
      BY <1>a, <1>d, <3>1 DEF SafetyInv, TypeOK
    <3>2. CASE n # m
      BY <1>d, <1>m, <3>2 DEF SafetyInv, TypeOK, WaitersExact
    <3> QED
      BY <3>1, <3>2
  <2>2. \A v \in Thread : pc'[v] = "wait" => wanted'[v] \in inited'
    BY DEF SafetyInv, WaitersExact
  <2>3. \A v \in Thread : thread_timer'[v] => pc'[v] = "wait"
    BY <1>d DEF SafetyInv, TypeOK, WaitersExact
  <2> QED
    BY <2>1, <2>2, <2>3 DEF WaitersExact
<1>4. HandOverExact'
  BY <1>b, <1>d, <1>m DEF SafetyInv, HandOverExact, TypeOK
<1>5. DetachersAlone'
  BY <1>a, <1>d, <1>m DEF SafetyInv, DetachersAlone, Detacher, s
<1>6. WaitNoError'
  BY <1>d DEF SafetyInv, WaitNoError
<1>7. OwnerPriority'
  BY DEF SafetyInv, OwnerPriority
<1> QED
  BY <1>1, <1>2, <1>3, <1>4, <1>5, <1>6, <1>7 DEF SafetyInv

\* _thread_timeout, which finds its thread in the list it waits in.
LEMMA TimeoutSafe ==
  ASSUME SafetyInv, NEW t \in Thread, _thread_timeout(t)
  PROVE  SafetyInv'
<1>1. pc[t] = "wait" /\ wanted[t] \in inited /\ thread_timer[t]
  BY DEF _thread_timeout, SafetyInv, WaitersExact
<1>2. t \in ToSet(suspend_thread[wanted[t]])
  BY <1>1, WaitList
<1>3. \A v \in Thread : pc[v] = "resume" => wanted[v] # wanted[t]
  BY <1>1, <1>2 DEF SafetyInv, DetachersAlone, Detacher
<1>4. Resumed(t, wanted[t], "ETIMEOUT") /\ pc' = [pc EXCEPT ![t] = "return"]
  BY DEF _thread_timeout
<1>5. /\ pc' \in [Thread -> PC] /\ pc'[t] = "return"
      /\ \A v \in Thread \ {t} : pc'[v] = pc[v]
  BY <1>4 DEF SafetyInv, TypeOK
<1>6. \A v \in Thread : pc'[v] = "resume" => wanted[v] # wanted[t]
  BY <1>3, <1>5
<1>7. UNCHANGED <<current_priority, wanted, inited, value, owner, original_priority,
                  hold>>
  BY DEF _thread_timeout
<1> QED
  BY <1>1, <1>4, <1>5, <1>6, <1>7, WaiterGivesUp

\* The last release hands the mutex to the first waiter, which has no error.
LEMMA HandOverSafe ==
  ASSUME SafetyInv, NEW t \in Thread, NEW m \in Mutex, ReleaseHandOver(t, m)
  PROVE  SafetyInv'
<1> DEFINE s == suspend_thread[m]
           u == Head(s)
           r == RemoveFirst(s, u)
<1>0. m \in inited /\ \A v \in Thread : Detacher(v) => wanted[v] # m
  BY NotDetaching DEF ReleaseHandOver, Releasing
<1>a. /\ s \in Seq(Thread) /\ IsInjective(s) /\ owner[m] \notin ToSet(s)
      /\ r \in Seq(Thread) /\ IsInjective(r) /\ ToSet(r) = ToSet(s) \ {u}
      /\ \A v : v \in ToSet(s) <=> v \in Thread /\ pc[v] = "wait" /\ wanted[v] = m
  BY <1>0, WaitList
<1>b. pc[t] = "run" /\ owner[m] = t /\ hold[m] = 1 /\ s # <<>>
  BY DEF ReleaseHandOver, Releasing
<1>c. u \in ToSet(s) /\ u \in Thread /\ u # t /\ pc[u] = "wait" /\ wanted[u] = m
  BY <1>a, <1>b, HeadFacts
<1>d. /\ owner' = [owner EXCEPT ![m] = u]
      /\ original_priority' = [original_priority EXCEPT ![m] = current_priority[u]]
      /\ suspend_thread' = [suspend_thread EXCEPT ![m] = r]
      /\ thread_timer' = [thread_timer EXCEPT ![u] = FALSE]
      /\ error' = [error EXCEPT ![u] = error[u]]
      /\ pc' = [pc EXCEPT ![u] = "return"]
      /\ current_priority' = [current_priority EXCEPT ![t] = original_priority[m]]
      /\ UNCHANGED <<wanted, inited, value, hold>>
  BY DEF ReleaseHandOver, Resumed, Restored
<1> HIDE DEF s, u, r
<1>e. error' = error /\ error[u] = "EOK"
  BY <1>c, <1>d DEF SafetyInv, TypeOK, WaitNoError
<1>1. TypeOK'
  <2>1. original_priority[m] \in Priority /\ current_priority[u] \in Priority
    BY <1>0, <1>b, <1>c, NullAssumption DEF SafetyInv, TypeOK, OwnerPriority
  <2> QED
    BY <1>a, <1>c, <1>d, <2>1 DEF SafetyInv, TypeOK
<1>2. FreeOrOwned'
  BY <1>b, <1>c, <1>d, NullAssumption DEF SafetyInv, FreeOrOwned
<1>3. WaitersExact'
  <2>1. ASSUME NEW n \in inited
        PROVE  /\ IsInjective(suspend_thread'[n])
               /\ ToSet(suspend_thread'[n]) = {v \in Thread : pc'[v] = "wait" /\ wanted'[v] = n}
               /\ owner'[n] \notin ToSet(suspend_thread'[n])
    <3>1. CASE n = m
      BY <1>a, <1>d, <3>1 DEF SafetyInv, TypeOK
    <3>2. CASE n # m
      BY <1>c, <1>d, <3>2 DEF SafetyInv, WaitersExact
    <3> QED
      BY <3>1, <3>2
  <2>2. \A v \in Thread : pc'[v] = "wait" => wanted'[v] \in inited'
    BY <1>d DEF SafetyInv, WaitersExact
  <2>3. \A v \in Thread : thread_timer'[v] => pc'[v] = "wait"
    BY <1>d DEF SafetyInv, TypeOK, WaitersExact
  <2> QED
    BY <1>d, <2>1, <2>2, <2>3 DEF WaitersExact
<1>4. HandOverExact'
  <2>1. ASSUME NEW v \in Thread, pc'[v] = "return"
        PROVE  error'[v] = "EOK" <=> wanted'[v] \in inited' /\ owner'[wanted'[v]] = v
    <3>1. CASE v = u
      BY <1>0, <1>c, <1>d, <1>e, <3>1 DEF SafetyInv, TypeOK
    <3>2. CASE v # u
      <4>1. pc[v] = "return" /\ v # t
        BY <1>b, <1>d, <2>1, <3>2
      <4>2. owner'[wanted[v]] = v <=> owner[wanted[v]] = v
        BY <1>b, <1>d, <3>2, <4>1
      <4> QED
        BY <1>d, <4>1, <4>2 DEF SafetyInv, HandOverExact
    <3> QED
      BY <3>1, <3>2
  <2> QED
    BY <2>1 DEF HandOverExact
<1>5. DetachersAlone'
  BY <1>0, <1>d DEF SafetyInv, DetachersAlone, Detacher
<1>6. WaitNoError'
  BY <1>d DEF SafetyInv, WaitNoError
<1>7. OwnerPriority'
  BY <1>c, <1>d DEF SafetyInv, OwnerPriority, TypeOK
<1> QED
  BY <1>1, <1>2, <1>3, <1>4, <1>5, <1>6, <1>7 DEF SafetyInv

\* rt_mutex_detach resumes the first waiter, which is there because no timer runs.
LEMMA DetachResumeSafe ==
  ASSUME SafetyInv, NEW t \in Thread, DetachResume(t)
  PROVE  SafetyInv'
<1> DEFINE u == Head(suspend_thread[wanted[t]])
<1>1. /\ pc[t] = "resume" /\ wanted[t] \in inited /\ suspend_thread[wanted[t]] # <<>>
      /\ \A v \in Thread : Detacher(v) /\ wanted[v] = wanted[t] => v = t
  BY DEF DetachResume, SafetyInv, DetachersAlone, Detacher
<1>2. u \in Thread /\ pc[u] = "wait" /\ wanted[u] = wanted[t]
  <2>1. u \in ToSet(suspend_thread[wanted[t]])
    BY <1>1, WaitList, HeadFacts
  <2> QED
    BY <1>1, <2>1, WaitList
<1>3. /\ Resumed(u, wanted[u], "ERROR")
      /\ pc' = [pc EXCEPT ![u] = "return", ![t] = "detach"]
      /\ UNCHANGED <<current_priority, wanted, inited, value, owner, original_priority, hold>>
  BY <1>2 DEF DetachResume
<1> HIDE DEF u
<1>4. /\ pc' \in [Thread -> PC] /\ pc'[u] = "return" /\ pc'[t] = "detach"
      /\ \A v \in Thread \ {u} : pc'[v] = pc[v] \/ (pc[v] = "resume" /\ pc'[v] = "detach")
      /\ \A v \in Thread \ {t} : pc'[v] = "resume" => pc[v] = "resume"
  BY <1>1, <1>2, <1>3 DEF SafetyInv, TypeOK
<1>5. \A v \in Thread : pc'[v] = "resume" => wanted[v] # wanted[u]
  BY <1>1, <1>2, <1>4 DEF Detacher
<1> QED
  BY <1>2, <1>3, <1>4, <1>5, WaiterGivesUp

-----------------------------------------------------------------------------

\* The invariant holds before any call.
LEMMA InitSafety == Init => SafetyInv
<1> SUFFICES ASSUME Init PROVE SafetyInv
  OBVIOUS
<1>1. TypeOK
  BY InitPriorityAssumption, HoldAssumption DEF Init, TypeOK
<1> QED
  BY <1>1
     DEF Init, SafetyInv, FreeOrOwned, WaitersExact, HandOverExact, DetachersAlone,
         Detacher, WaitNoError, OwnerPriority

\* Every step of every thread and of the tick interrupt keeps it.
LEMMA NextSafety ==
  ASSUME SafetyInv, [Next]_vars
  PROVE  SafetyInv'
<1>1. ASSUME NEW t \in Thread, NEW m \in Mutex,
             rt_mutex_init(t, m) \/ Take(t, m) \/ Release(t, m) \/ DetachStart(t, m)
      PROVE  SafetyInv'
  BY <1>1, InitSafe, TakeAgainSafe, TakeFreeSafe, TakeFailsSafe, TakeWaitSafe,
     ReleaseFailsSafe, ReleaseInnerSafe, ReleaseFreeSafe, HandOverSafe, DetachStartSafe
     DEF Take, Release, LastRelease
<1>2. ASSUME NEW t \in Thread,
             \/ _thread_timeout(t) \/ TakeReturn(t)
             \/ DetachTest(t) \/ DetachResume(t) \/ DetachEnd(t)
      PROVE  SafetyInv'
  BY <1>2, TimeoutSafe, TakeReturnSafe, DetachTestSafe, DetachResumeSafe, DetachEndSafe
<1>3. CASE UNCHANGED vars
  BY <1>3
     DEF vars, SafetyInv, TypeOK, FreeOrOwned, WaitersExact, HandOverExact,
         DetachersAlone, Detacher, WaitNoError, OwnerPriority
<1> QED
  BY <1>1, <1>2, <1>3 DEF Next

\* The inductive invariant holds in every state.
THEOREM Safety == Spec => []SafetyInv
  BY InitSafety, NextSafety, PTL DEF Spec

\* Every field of a mutex and of a thread keeps its type: above all, hold does
\* not pass its limit, and a priority is never restored to that of a free mutex.
THEOREM TypeCorrect == Spec => []TypeOK
<1>1. SafetyInv => TypeOK
  BY DEF SafetyInv
<1> QED
  BY <1>1, Safety, PTL

\* A mutex without owner is free and nobody waits for it, whatever releases,
\* timeouts and detaches do.
THEOREM FreeOrOwnedAlways == Spec => []FreeOrOwned
<1>1. SafetyInv => FreeOrOwned
  BY DEF SafetyInv
<1> QED
  BY <1>1, Safety, PTL

\* The wait list of a mutex holds exactly the threads suspended in
\* rt_mutex_take, each once.
THEOREM WaitersExactAlways == Spec => []WaitersExact
<1>1. SafetyInv => WaitersExact
  BY DEF SafetyInv
<1> QED
  BY <1>1, Safety, PTL

\* A waiter returns RT_EOK from rt_mutex_take if and only if rt_mutex_release
\* has handed it the mutex.
THEOREM HandOverExactAlways == Spec => []HandOverExact
<1>1. SafetyInv => HandOverExact
  BY DEF SafetyInv
<1> QED
  BY <1>1, Safety, PTL

-----------------------------------------------------------------------------
(***************************************************************************)
(* Priority inheritance, when no thread asks for a mutex while it owns     *)
(* another one.                                                            *)
(***************************************************************************)

\* A thread owns one mutex at most, and none while it waits.
OneMutex ==
  \A m \in inited : owner[m] # NULL =>
    /\ pc[owner[m]] # "wait"
    /\ \A n \in inited : owner[n] = owner[m] => n = m

\* The wait lists are in the order of the priorities the waiters have now.
ListsOrdered == \A m \in inited : OrderedBy(suspend_thread[m], current_priority)

InheritInv == OneMutex /\ ListsOrdered /\ Inherited

\* A step that changes no priority, no owner and no list.
LEMMA InheritQuiet ==
  ASSUME SafetyInv, InheritInv, UNCHANGED <<current_priority, owner, suspend_thread>>,
         inited' \subseteq inited, \A t \in Thread : pc'[t] = "wait" => pc[t] = "wait"
  PROVE  InheritInv'
<1>1. \A m \in inited : owner[m] # NULL => owner[m] \in Thread
  BY DEF SafetyInv, TypeOK
<1> QED
  BY <1>1 DEF InheritInv, OneMutex, ListsOrdered, Inherited

\* A new mutex has neither owner nor waiters.
LEMMA InheritInit ==
  ASSUME SafetyInv, InheritInv, NEW t \in Thread, NEW m \in Mutex, rt_mutex_init(t, m)
  PROVE  InheritInv'
<1>1. OneMutex'
  BY DEF InheritInv, OneMutex, rt_mutex_init, SafetyInv, TypeOK
<1>2. ListsOrdered'
  BY DEF InheritInv, ListsOrdered, OrderedBy, rt_mutex_init, SafetyInv, TypeOK
<1>3. Inherited'
  BY EmptyList DEF InheritInv, Inherited, rt_mutex_init, SafetyInv, TypeOK
<1> QED
  BY <1>1, <1>2, <1>3 DEF InheritInv

\* A thread that asks for a mutex it does not own owns none.
LEMMA TakerOwnsNothing ==
  ASSUME ~Nested, NEW t, NEW m, Taking(t, m), owner[m] # t
  PROVE  m \in inited /\ \A n \in inited : owner[n] # t
  BY DEF Taking, Owned

\* A thread that owns nothing gets a mutex nobody waits for.
LEMMA InheritTakeFree ==
  ASSUME ~Nested, SafetyInv, InheritInv, NEW t \in Thread, NEW m \in Mutex, TakeFree(t, m)
  PROVE  InheritInv'
<1>1. m \in inited /\ \A n \in inited : owner[n] # t
  BY TakerOwnsNothing DEF TakeFree
<1>2. pc[t] = "run" /\ suspend_thread[m] = <<>>
  BY DEF TakeFree, Taking, SafetyInv, FreeOrOwned
<1>3. OneMutex'
  BY <1>1, <1>2 DEF InheritInv, OneMutex, TakeFree
<1>4. ListsOrdered'
  BY DEF InheritInv, ListsOrdered, TakeFree
<1>5. Inherited'
  BY <1>2, EmptyList DEF InheritInv, Inherited, TakeFree
<1> QED
  BY <1>3, <1>4, <1>5 DEF InheritInv

\* The owner inherits before the thread is queued behind those as urgent as itself.
LEMMA InheritTakeWait ==
  ASSUME ~Nested, SafetyInv, InheritInv, NEW t \in Thread, NEW m \in Mutex,
         NEW timed \in BOOLEAN, TakeWait(t, m, timed)
  PROVE  InheritInv'
<1> DEFINE s == suspend_thread[m]
           o == owner[m]
<1>1. m \in inited /\ \A n \in inited : owner[n] # t
  BY TakerOwnsNothing DEF TakeWait
<1>2. o \in Thread /\ o # t /\ pc[o] # "wait" /\ \A n \in inited : owner[n] = o => n = m
  BY <1>1 DEF TakeWait, SafetyInv, TypeOK, FreeOrOwned, InheritInv, OneMutex
<1>3. s \in Seq(Thread) /\ Suspended(s, t) \in Seq(Thread)
      /\ ToSet(Suspended(s, t)) = ToSet(s) \cup {t}
      /\ OrderedBy(Suspended(s, t), current_priority)
  <2>1. s \in Seq(Thread) /\ OrderedBy(s, current_priority)
    BY <1>1, WaitList DEF InheritInv, ListsOrdered
  <2> QED
    BY <2>1, SuspendedFacts DEF SafetyInv, TypeOK
<1>4. /\ current_priority' \in [Thread -> Priority]
      /\ \A u \in Thread \ {o} : current_priority'[u] = current_priority[u]
      /\ current_priority'[o] <= current_priority[t]
      /\ current_priority'[o] <= current_priority[o]
  BY <1>2 DEF TakeWait, SafetyInv, TypeOK, Priority
<1>5. /\ suspend_thread' = [suspend_thread EXCEPT ![m] = Suspended(s, t)]
      /\ pc' = [pc EXCEPT ![t] = "wait"]
      /\ UNCHANGED <<inited, owner>>
  BY DEF TakeWait
<1>6. \A n \in inited : o \notin ToSet(suspend_thread[n])
  BY <1>2, WaitList
<1> HIDE DEF s, o
<1>7. OneMutex'
  BY <1>1, <1>5 DEF InheritInv, OneMutex
<1>8. ListsOrdered'
  <2>1. ASSUME NEW n \in inited
        PROVE  /\ suspend_thread'[n] \in Seq(Thread)
               /\ OrderedBy(suspend_thread'[n], current_priority)
               /\ o \notin ToSet(suspend_thread'[n])
    <3>1. CASE n = m
      BY <1>2, <1>3, <1>5, <1>6, <3>1 DEF SafetyInv, TypeOK, s
    <3>2. CASE n # m
      BY <1>5, <1>6, <3>2 DEF SafetyInv, TypeOK, InheritInv, ListsOrdered
    <3> QED
      BY <3>1, <3>2
  <2>2. ASSUME NEW n \in inited
        PROVE  OrderedBy(suspend_thread'[n], current_priority')
    <3>1. ToSet(suspend_thread'[n]) \subseteq Thread
      BY <2>1 DEF ToSet
    <3>2. \A e \in ToSet(suspend_thread'[n]) : current_priority'[e] = current_priority[e]
      BY <1>4, <2>1, <3>1
    <3> QED
      BY <2>1, <3>2, OrderedSame
  <2> QED
    BY <1>5, <2>2 DEF ListsOrdered
<1>9. Inherited'
  <2>1. ASSUME NEW n \in inited, NEW u \in ToSet(suspend_thread'[n])
        PROVE  current_priority'[owner[n]] <= current_priority'[u]
    <3>1. CASE n = m
      <4>1. u \in ToSet(s) \cup {t}
        BY <1>3, <1>5, <3>1 DEF SafetyInv, TypeOK
      <4>2. CASE u = t
        BY <1>2, <1>4, <3>1, <4>2 DEF o
      <4>3. CASE u \in ToSet(s)
        <5>1. u \in Thread /\ u # o /\ current_priority[o] <= current_priority[u]
          BY <1>1, <4>3, WaitList DEF InheritInv, Inherited, s, o
        <5>2. current_priority'[o] <= current_priority[u]
          BY <1>2, <1>4, <5>1 DEF SafetyInv, TypeOK, Priority
        <5> QED
          BY <1>4, <3>1, <5>1, <5>2 DEF o
      <4> QED
        BY <4>1, <4>2, <4>3
    <3>2. CASE n # m
      <4>1. u \in ToSet(suspend_thread[n])
        BY <1>5, <3>2
      <4>2. u \in Thread /\ u # o
        BY <1>6, <4>1, WaitList
      <4>3. owner[n] \in Thread /\ owner[n] # o
        BY <1>2, <3>2, <4>1, EmptyList DEF SafetyInv, TypeOK, FreeOrOwned
      <4> QED
        BY <1>4, <4>1, <4>2, <4>3 DEF InheritInv, Inherited
    <3> QED
      BY <3>1, <3>2
  <2> QED
    BY <1>5, <2>1 DEF Inherited
<1> QED
  BY <1>7, <1>8, <1>9 DEF InheritInv

\* A waiter that gives up leaves the list in order.
LEMMA InheritGivesUp ==
  ASSUME SafetyInv, InheritInv, NEW u, NEW m \in inited,
         suspend_thread' = [suspend_thread EXCEPT ![m] = RemoveFirst(@, u)],
         UNCHANGED <<current_priority, owner, inited>>,
         \A t \in Thread : pc'[t] = "wait" => pc[t] = "wait"
  PROVE  InheritInv'
<1> DEFINE s == suspend_thread[m]
           r == RemoveFirst(s, u)
<1>1. /\ m \in Mutex /\ s \in Seq(Thread) /\ IsInjective(s)
      /\ ToSet(r) = ToSet(s) \ {u} /\ OrderedBy(s, current_priority)
  BY WaitList DEF InheritInv, ListsOrdered
<1>2. OrderedBy(r, current_priority)
  BY <1>1, RemoveFirstOrdered
<1>3. suspend_thread' = [suspend_thread EXCEPT ![m] = r]
  OBVIOUS
<1> HIDE DEF r
<1>4. OneMutex'
  BY DEF InheritInv, OneMutex, SafetyInv, TypeOK
<1>5. ListsOrdered'
  BY <1>2, <1>3 DEF InheritInv, ListsOrdered
<1>6. Inherited'
  BY <1>1, <1>3 DEF InheritInv, Inherited
<1> QED
  BY <1>4, <1>5, <1>6 DEF InheritInv

\* The owner gets its priority back and no waiter depends on it.
LEMMA InheritReleaseFree ==
  ASSUME SafetyInv, InheritInv, NEW t \in Thread, NEW m \in Mutex, ReleaseFree(t, m)
  PROVE  InheritInv'
<1>1. m \in inited /\ owner[m] = t /\ pc[t] = "run" /\ suspend_thread[m] = <<>>
  BY DEF ReleaseFree, Releasing
<1>2. /\ owner' = [owner EXCEPT ![m] = NULL] /\ UNCHANGED <<pc, inited, suspend_thread>>
      /\ current_priority' = [current_priority EXCEPT ![t] = original_priority[m]]
  BY DEF ReleaseFree, Restored
<1>3. \A n \in inited : n # m => owner[n] # t
  BY <1>1, NullAssumption DEF InheritInv, OneMutex
<1>4. \A n \in inited : \A u \in ToSet(suspend_thread[n]) :
        u \in Thread /\ u # t /\ current_priority'[u] = current_priority[u]
  BY <1>1, <1>2, WaitList
<1>5. OneMutex'
  BY <1>2 DEF InheritInv, OneMutex
<1>6. ListsOrdered'
  <2>1. ASSUME NEW n \in inited PROVE OrderedBy(suspend_thread[n], current_priority')
    BY <1>4, WaitList, OrderedSame DEF InheritInv, ListsOrdered
  <2> QED
    BY <1>2, <2>1 DEF ListsOrdered
<1>7. Inherited'
  <2>1. ASSUME NEW n \in inited, NEW u \in ToSet(suspend_thread[n])
        PROVE  current_priority'[owner'[n]] <= current_priority'[u]
    <3>1. n # m
      BY <1>1, EmptyList
    <3>2. owner'[n] = owner[n] /\ owner[n] \in Thread /\ owner[n] # t
      BY <1>2, <1>3, <3>1, EmptyList DEF SafetyInv, TypeOK, FreeOrOwned
    <3> QED
      BY <1>2, <1>4, <3>2 DEF InheritInv, Inherited
  <2> QED
    BY <1>2, <2>1 DEF Inherited
<1> QED
  BY <1>5, <1>6, <1>7 DEF InheritInv

\* The first waiter gets the mutex: nobody that still waits is more urgent.
LEMMA InheritHandOver ==
  ASSUME SafetyInv, InheritInv, NEW t \in Thread, NEW m \in Mutex, ReleaseHandOver(t, m)
  PROVE  InheritInv'
<1> DEFINE s == suspend_thread[m]
           u == Head(s)
           r == RemoveFirst(s, u)
<1>1. m \in inited /\ owner[m] = t /\ pc[t] = "run" /\ s # <<>>
  BY DEF ReleaseHandOver, Releasing
<1>2. /\ s \in Seq(Thread) /\ IsInjective(s) /\ OrderedBy(s, current_priority)
      /\ r \in Seq(Thread) /\ ToSet(r) = ToSet(s) \ {u}
  BY <1>1, WaitList DEF InheritInv, ListsOrdered
<1>3. u \in ToSet(s) /\ u \in Thread
  BY <1>1, <1>2, HeadFacts
<1>4. pc[u] = "wait" /\ wanted[u] = m /\ u # t
  BY <1>1, <1>3, WaitList
<1>5. \A v \in ToSet(s) : current_priority[u] <= current_priority[v]
  BY <1>1, <1>2, HeadLeast
<1>6. OrderedBy(r, current_priority)
  BY <1>2, RemoveFirstOrdered
<1>7. /\ owner' = [owner EXCEPT ![m] = u]
      /\ suspend_thread' = [suspend_thread EXCEPT ![m] = r]
      /\ pc' = [pc EXCEPT ![u] = "return"]
      /\ current_priority' = [current_priority EXCEPT ![t] = original_priority[m]]
      /\ UNCHANGED inited
  BY DEF ReleaseHandOver, Resumed, Restored
<1>8. \A n \in inited : n # m => owner[n] # t
  BY <1>1, NullAssumption DEF InheritInv, OneMutex
<1>9. \A n \in inited : owner[n] # u
  BY <1>3, <1>4, NullAssumption DEF InheritInv, OneMutex
<1> HIDE DEF s, u, r
<1>10. ASSUME NEW n \in inited
       PROVE  /\ suspend_thread'[n] \in Seq(Thread)
              /\ ToSet(suspend_thread'[n]) \subseteq ToSet(suspend_thread[n])
              /\ OrderedBy(suspend_thread'[n], current_priority)
  <2>1. CASE n = m
    BY <1>2, <1>6, <1>7, <2>1 DEF s
  <2>2. CASE n # m
    BY <1>7, <2>2 DEF SafetyInv, TypeOK, InheritInv, ListsOrdered
  <2> QED
    BY <2>1, <2>2
<1>11. ASSUME NEW n \in inited, NEW v \in ToSet(suspend_thread'[n])
       PROVE  v \in Thread /\ v # t /\ current_priority'[v] = current_priority[v]
  <2>1. v \in Thread /\ v # t
    BY <1>1, <1>10, WaitList
  <2> QED
    BY <1>7, <2>1
<1>12. OneMutex'
  BY <1>3, <1>7, <1>9 DEF InheritInv, OneMutex, SafetyInv, TypeOK
<1>13. ListsOrdered'
  <2>1. ASSUME NEW n \in inited PROVE OrderedBy(suspend_thread'[n], current_priority')
    BY <1>10, <1>11, OrderedSame
  <2> QED
    BY <1>7, <2>1 DEF ListsOrdered
<1>14. Inherited'
  <2>1. ASSUME NEW n \in inited, NEW v \in ToSet(suspend_thread'[n])
        PROVE  current_priority'[owner'[n]] <= current_priority'[v]
    <3>1. v \in ToSet(suspend_thread[n]) /\ current_priority'[v] = current_priority[v]
      BY <1>10, <1>11
    <3>2. CASE n = m
      <4>1. owner'[n] = u /\ current_priority'[u] = current_priority[u]
        BY <1>4, <1>7, <3>2 DEF SafetyInv, TypeOK
      <4> QED
        BY <1>5, <3>1, <3>2, <4>1 DEF s
    <3>3. CASE n # m
      <4>1. owner'[n] = owner[n] /\ owner[n] \in Thread /\ owner[n] # t
        BY <1>7, <1>8, <3>3, EmptyList DEF SafetyInv, TypeOK, FreeOrOwned
      <4>2. current_priority'[owner[n]] = current_priority[owner[n]]
        BY <1>7, <4>1
      <4> QED
        BY <3>1, <4>1, <4>2 DEF InheritInv, Inherited
    <3> QED
      BY <3>2, <3>3
  <2> QED
    BY <1>7, <2>1 DEF Inherited
<1> QED
  BY <1>12, <1>13, <1>14 DEF InheritInv

\* Every step keeps owners at least as urgent as their waiters.
LEMMA NextInherit ==
  ASSUME ~Nested, SafetyInv, InheritInv, [Next]_vars
  PROVE  InheritInv'
<1>0. pc \in [Thread -> PC]
  BY DEF SafetyInv, TypeOK
<1>1. ASSUME NEW t \in Thread, NEW m \in Mutex,
             rt_mutex_init(t, m) \/ Take(t, m) \/ Release(t, m) \/ DetachStart(t, m)
      PROVE  InheritInv'
  <2>1. CASE \/ TakeAgain(t, m) \/ TakeFails(t, m) \/ ReleaseFails(t, m)
             \/ ReleaseInner(t, m) \/ DetachStart(t, m)
    BY <1>0, <2>1, InheritQuiet
       DEF TakeAgain, TakeFails, ReleaseFails, ReleaseInner, DetachStart
  <2>2. CASE rt_mutex_init(t, m) \/ TakeFree(t, m) \/ \E timed \in BOOLEAN : TakeWait(t, m, timed)
    BY <2>2, InheritInit, InheritTakeFree, InheritTakeWait
  <2>3. CASE ReleaseFree(t, m) \/ ReleaseHandOver(t, m)
    BY <2>3, InheritReleaseFree, InheritHandOver
  <2> QED
    BY <1>1, <2>1, <2>2, <2>3 DEF Take, Release, LastRelease
<1>2. ASSUME NEW t \in Thread,
             \/ _thread_timeout(t) \/ TakeReturn(t)
             \/ DetachTest(t) \/ DetachResume(t) \/ DetachEnd(t)
      PROVE  InheritInv'
  <2>1. CASE TakeReturn(t) \/ DetachTest(t) \/ DetachEnd(t)
    BY <1>0, <2>1, InheritQuiet DEF TakeReturn, DetachTest, DetachEnd
  <2>2. CASE _thread_timeout(t)
    <3>1. wanted[t] \in inited
      BY <2>2 DEF _thread_timeout, SafetyInv, WaitersExact
    <3> QED
      BY <2>2, <3>1, InheritGivesUp DEF _thread_timeout, Resumed, SafetyInv, TypeOK
  <2>3. CASE DetachResume(t)
    <3>1. wanted[t] \in inited
      BY <2>3 DEF DetachResume, SafetyInv, DetachersAlone, Detacher
    <3> QED
      BY <2>3, <3>1, InheritGivesUp DEF DetachResume, Resumed, SafetyInv, TypeOK
  <2> QED
    BY <1>2, <2>1, <2>2, <2>3
<1>3. CASE UNCHANGED vars
  BY <1>3, InheritQuiet DEF vars
<1> QED
  BY <1>1, <1>2, <1>3 DEF Next

\* Without nested takes the owner of a mutex is at least as urgent as all its
\* waiters, detaches by the owner and timeouts of waiters included.
THEOREM InheritedAlways == ~Nested => (Spec => []Inherited)
<1> SUFFICES ASSUME ~Nested PROVE Spec => []Inherited
  OBVIOUS
<1>1. Init => InheritInv
  BY DEF Init, InheritInv, OneMutex, ListsOrdered, Inherited
<1>2. SafetyInv /\ InheritInv /\ [Next]_vars => InheritInv'
  BY NextInherit
<1>3. InheritInv => Inherited
  BY DEF InheritInv
<1> QED
  BY <1>1, <1>2, <1>3, Safety, PTL DEF Spec

-----------------------------------------------------------------------------
(***************************************************************************)
(* The inherited priority is given back, when no thread asks for a mutex   *)
(* while it owns another one and no mutex is detached by its owner.        *)
(***************************************************************************)

NoDetacher == \A t \in Thread : ~Detacher(t)

\* What rt_mutex_release will restore is the owner's own priority.
OriginalOwn ==
  \A m \in inited : owner[m] # NULL => original_priority[m] = InitPriority[owner[m]]

RestoreInv == NoDetacher /\ OriginalOwn /\ PriorityRestored

\* Every step keeps the owners' own priorities at hand.
LEMMA NextRestore ==
  ASSUME ~Nested, ~Detaches, SafetyInv, InheritInv, RestoreInv, [Next]_vars
  PROVE  RestoreInv'
<1> USE DEF RestoreInv
<1>0. \A t \in Thread : (\A m \in inited : owner[m] # t) => current_priority[t] = InitPriority[t]
  BY DEF PriorityRestored, Owned
<1>q. ASSUME UNCHANGED <<current_priority, owner, original_priority, inited>>, NoDetacher'
      PROVE  RestoreInv'
  BY <1>q DEF OriginalOwn, PriorityRestored, Owned
<1>1. ASSUME NEW t \in Thread, NEW m \in Mutex, rt_mutex_init(t, m)
      PROVE  RestoreInv'
  <2>1. NoDetacher'
    BY <1>1 DEF NoDetacher, Detacher, rt_mutex_init
  <2>2. OriginalOwn'
    BY <1>1 DEF OriginalOwn, rt_mutex_init, SafetyInv, TypeOK
  <2>3. PriorityRestored'
    BY <1>1 DEF PriorityRestored, Owned, rt_mutex_init
  <2> QED
    BY <2>1, <2>2, <2>3
<1>2. ASSUME NEW t \in Thread, NEW m \in Mutex, TakeFree(t, m)
      PROVE  RestoreInv'
  <2>0. m \in inited /\ current_priority[t] = InitPriority[t]
    BY <1>0, <1>2, TakerOwnsNothing DEF TakeFree
  <2>1. NoDetacher'
    BY <1>2 DEF NoDetacher, Detacher, TakeFree
  <2>2. OriginalOwn'
    BY <1>2, <2>0 DEF OriginalOwn, TakeFree, SafetyInv, TypeOK
  <2>3. PriorityRestored'
    <3>1. ASSUME NEW u \in Thread, \A n \in inited : owner'[n] # u
          PROVE  current_priority[u] = InitPriority[u]
      BY <1>0, <1>2, <2>0, <3>1, NullAssumption DEF TakeFree, SafetyInv, FreeOrOwned
    <3> QED
      BY <1>2, <3>1 DEF PriorityRestored, Owned, TakeFree
  <2> QED
    BY <2>1, <2>2, <2>3
<1>3. ASSUME NEW t \in Thread, NEW m \in Mutex, NEW timed \in BOOLEAN,
             TakeWait(t, m, timed)
      PROVE  RestoreInv'
  <2>1. NoDetacher'
    BY <1>3 DEF NoDetacher, Detacher, TakeWait
  <2>2. OriginalOwn'
    BY <1>3 DEF OriginalOwn, TakeWait
  <2>3. PriorityRestored'
    <3>1. m \in inited
      BY <1>3 DEF TakeWait, Taking
    <3>2. ASSUME NEW u \in Thread, \A n \in inited : owner[n] # u
          PROVE  current_priority'[u] = InitPriority[u]
      BY <1>0, <1>3, <3>1, <3>2 DEF TakeWait
    <3> QED
      BY <1>3, <3>2 DEF PriorityRestored, Owned, TakeWait
  <2> QED
    BY <2>1, <2>2, <2>3
<1>4. ASSUME NEW t \in Thread, NEW m \in Mutex, ReleaseFree(t, m)
      PROVE  RestoreInv'
  <2>0. m \in inited /\ owner[m] = t /\ original_priority[m] = InitPriority[t]
    BY <1>4, NullAssumption DEF ReleaseFree, Releasing, OriginalOwn
  <2>1. NoDetacher'
    BY <1>4 DEF NoDetacher, Detacher, ReleaseFree
  <2>2. OriginalOwn'
    BY <1>4 DEF OriginalOwn, ReleaseFree, SafetyInv, TypeOK
  <2>3. PriorityRestored'
    <3>1. ASSUME NEW u \in Thread, \A n \in inited : owner'[n] # u
          PROVE  current_priority'[u] = InitPriority[u]
      BY <1>0, <1>4, <2>0, <3>1 DEF ReleaseFree, Restored, SafetyInv, TypeOK
    <3> QED
      BY <1>4, <3>1 DEF PriorityRestored, Owned, ReleaseFree
  <2> QED
    BY <2>1, <2>2, <2>3
<1>5. ASSUME NEW t \in Thread, NEW m \in Mutex, ReleaseHandOver(t, m)
      PROVE  RestoreInv'
  <2> DEFINE u == Head(suspend_thread[m])
  <2>0. m \in inited /\ owner[m] = t /\ original_priority[m] = InitPriority[t]
    BY <1>5, NullAssumption DEF ReleaseHandOver, Releasing, OriginalOwn
  <2>1. u \in Thread /\ pc[u] = "wait"
    <3>1. u \in ToSet(suspend_thread[m])
      BY <1>5, <2>0, WaitList, HeadFacts DEF ReleaseHandOver
    <3> QED
      BY <2>0, <3>1, WaitList
  <2>2. current_priority[u] = InitPriority[u]
    BY <1>0, <2>1, NullAssumption DEF InheritInv, OneMutex
  <2>3. /\ owner' = [owner EXCEPT ![m] = u] /\ pc' = [pc EXCEPT ![u] = "return"]
        /\ original_priority' = [original_priority EXCEPT ![m] = current_priority[u]]
        /\ current_priority' = [current_priority EXCEPT ![t] = original_priority[m]]
        /\ UNCHANGED inited
    BY <1>5 DEF ReleaseHandOver, Restored
  <2> HIDE DEF u
  <2>4. NoDetacher'
    BY <2>3 DEF NoDetacher, Detacher
  <2>5. OriginalOwn'
    BY <2>2, <2>3 DEF OriginalOwn, SafetyInv, TypeOK
  <2>6. PriorityRestored'
    <3>1. ASSUME NEW v \in Thread, \A n \in inited : owner'[n] # v
          PROVE  current_priority'[v] = InitPriority[v]
      BY <1>0, <2>0, <2>3, <3>1 DEF SafetyInv, TypeOK
    <3> QED
      BY <2>3, <3>1 DEF PriorityRestored, Owned
  <2> QED
    BY <2>4, <2>5, <2>6
<1>6. ASSUME NEW t \in Thread, NEW m \in Mutex,
             \/ TakeAgain(t, m) \/ TakeFails(t, m) \/ ReleaseFails(t, m)
             \/ ReleaseInner(t, m) \/ DetachStart(t, m)
      PROVE  RestoreInv'
  BY <1>6, <1>q
     DEF TakeAgain, TakeFails, ReleaseFails, ReleaseInner, DetachStart, NoDetacher,
         Detacher
<1>7. ASSUME NEW t \in Thread, _thread_timeout(t) \/ TakeReturn(t)
      PROVE  RestoreInv'
  <2>1. NoDetacher'
    BY <1>7 DEF _thread_timeout, TakeReturn, NoDetacher, Detacher, SafetyInv, TypeOK
  <2> QED
    BY <1>7, <1>q, <2>1 DEF _thread_timeout, TakeReturn
<1>8. ASSUME NEW t \in Thread, DetachTest(t) \/ DetachResume(t) \/ DetachEnd(t)
      PROVE  FALSE
  BY <1>8 DEF DetachTest, DetachResume, DetachEnd, NoDetacher, Detacher
<1>9. CASE UNCHANGED vars
  BY <1>9, <1>q DEF vars, NoDetacher, Detacher
<1> QED
  BY <1>1, <1>2, <1>3, <1>4, <1>5, <1>6, <1>7, <1>8, <1>9
     DEF Next, Take, Release, LastRelease

\* Without nested takes and detaches a thread that owns no mutex has its own
\* priority, although a timeout of a waiter takes nothing back from the owner.
THEOREM PriorityRestoredAlways == ~Nested /\ ~Detaches => (Spec => []PriorityRestored)
<1> SUFFICES ASSUME ~Nested, ~Detaches PROVE Spec => []PriorityRestored
  OBVIOUS
<1>1. Init => InheritInv
  BY DEF Init, InheritInv, OneMutex, ListsOrdered, Inherited
<1>2. Init => RestoreInv
  BY DEF Init, RestoreInv, NoDetacher, Detacher, OriginalOwn, PriorityRestored
<1>3. SafetyInv /\ InheritInv /\ [Next]_vars => InheritInv'
  BY NextInherit
<1>4. SafetyInv /\ InheritInv /\ RestoreInv /\ [Next]_vars => RestoreInv'
  BY NextRestore
<1>5. RestoreInv => PriorityRestored
  BY DEF RestoreInv
<1> QED
  BY <1>1, <1>2, <1>3, <1>4, <1>5, Safety, PTL DEF Spec

=============================================================================
