--------------------------- MODULE SchedulerProofs ---------------------------
(***************************************************************************)
(* Proofs about Scheduler for any set of threads, any number of priorities *)
(* and any time slices.                                                    *)
(***************************************************************************)
EXTENDS Scheduler, ListLemmas

-----------------------------------------------------------------------------
(***************************************************************************)
(* Facts about the kernel's functions, stated on the snapshot k they read. *)
(***************************************************************************)

KType(k) ==
  k \in [stat : [Thread -> Stat], yield : [Thread -> BOOLEAN],
         table : [Priority -> Seq(Thread)], group : SUBSET Priority,
         defunct : Seq(Thread), waiting : SUBSET Thread, current : Thread]

\* No node is twice in a list.
KLists(k) == IsInjective(k.defunct) /\ \A p \in Priority : IsInjective(k.table[p])

\* rt_list_remove takes t out of every list and touches nothing else.
LEMMA UnlinkFacts ==
  ASSUME NEW STATE k, NEW STATE t, t \in Thread, KType(k), KLists(k)
  PROVE  LET u == Unlink(k, t) IN
         /\ KType(u) /\ KLists(u)
         /\ u.stat = k.stat /\ u.yield = k.yield /\ u.group = k.group
         /\ u.current = k.current
         /\ \A p \in Priority : ToSet(u.table[p]) = ToSet(k.table[p]) \ {t}
         /\ ToSet(u.defunct) = ToSet(k.defunct) \ {t}
         /\ u.waiting = k.waiting \ {t}
<1> DEFINE u == Unlink(k, t)
<1>1. /\ RemoveFirst(k.defunct, t) \in Seq(Thread)
      /\ IsInjective(RemoveFirst(k.defunct, t))
      /\ ToSet(RemoveFirst(k.defunct, t)) = ToSet(k.defunct) \ {t}
  <2>1. k.defunct \in Seq(Thread) /\ IsInjective(k.defunct)
    BY DEF KType, KLists
  <2> QED
    BY <2>1, RemoveFirstFacts
<1>2. ASSUME NEW p \in Priority
      PROVE  /\ RemoveFirst(k.table[p], t) \in Seq(Thread)
             /\ IsInjective(RemoveFirst(k.table[p], t))
             /\ ToSet(RemoveFirst(k.table[p], t)) = ToSet(k.table[p]) \ {t}
  <2>1. k.table[p] \in Seq(Thread) /\ IsInjective(k.table[p])
    BY DEF KType, KLists
  <2> QED
    BY <2>1, RemoveFirstFacts
<1>3. /\ u.stat = k.stat /\ u.yield = k.yield /\ u.group = k.group
      /\ u.current = k.current /\ u.defunct = RemoveFirst(k.defunct, t)
      /\ u.waiting = k.waiting \ {t}
      /\ u.table = [p \in Priority |-> RemoveFirst(k.table[p], t)]
      /\ DOMAIN u = DOMAIN k
  BY DEF Unlink, KType
<1>4. KType(u)
  BY <1>1, <1>2, <1>3 DEF KType, Unlink
<1> HIDE DEF u
<1> QED
  BY <1>1, <1>2, <1>3, <1>4 DEF KLists, u

\* rt_schedule_remove_thread also clears the bit of a list it empties.
LEMMA RemoveThreadFacts ==
  ASSUME NEW STATE k, NEW STATE t, t \in Thread, KType(k), KLists(k),
         current_priority \in [Thread -> Priority]
  PROVE  LET u == rt_schedule_remove_thread(k, t)
             p == current_priority[t]
         IN
         /\ KType(u) /\ KLists(u)
         /\ u.stat = k.stat /\ u.yield = k.yield /\ u.current = k.current
         /\ u.group = IF ToSet(k.table[p]) \ {t} = {} THEN k.group \ {p} ELSE k.group
         /\ \A q \in Priority : ToSet(u.table[q]) = ToSet(k.table[q]) \ {t}
         /\ ToSet(u.defunct) = ToSet(k.defunct) \ {t}
         /\ u.waiting = k.waiting \ {t}
<1> DEFINE x == Unlink(k, t)
           p == current_priority[t]
           u == rt_schedule_remove_thread(k, t)
<1>1. /\ KType(x) /\ KLists(x)
      /\ x.stat = k.stat /\ x.yield = k.yield /\ x.group = k.group
      /\ x.current = k.current
      /\ \A q \in Priority : ToSet(x.table[q]) = ToSet(k.table[q]) \ {t}
      /\ ToSet(x.defunct) = ToSet(k.defunct) \ {t} /\ x.waiting = k.waiting \ {t}
  BY UnlinkFacts
<1> HIDE DEF x
<1>2. u = IF x.table[p] = <<>> THEN [x EXCEPT !.group = @ \ {p}] ELSE x
  BY DEF rt_schedule_remove_thread, x
<1>3. p \in Priority /\ x.table[p] \in Seq(Thread)
  BY <1>1 DEF KType
<1>4. x.table[p] = <<>> <=> ToSet(k.table[p]) \ {t} = {}
  BY <1>1, <1>3, EmptyFacts
<1> HIDE DEF u
<1>5. /\ u.stat = k.stat /\ u.yield = k.yield /\ u.current = k.current
      /\ u.table = x.table /\ u.defunct = x.defunct /\ u.waiting = x.waiting
      /\ u.group = IF ToSet(k.table[p]) \ {t} = {} THEN k.group \ {p} ELSE k.group
      /\ KType(u)
  BY <1>1, <1>2, <1>3, <1>4 DEF KType
<1> QED
  BY <1>1, <1>5 DEF KLists, u

\* Inserting a thread that is not the current one and is in no list.
LEMMA InsertFacts ==
  ASSUME NEW STATE k, NEW STATE t, t \in Thread, NEW STATE p, p \in Priority, KType(k),
         KLists(k),
         t # k.current, \A q \in Priority : t \notin ToSet(k.table[q])
  PROVE  LET u == InsertAtPriority(k, t, p) IN
         /\ KType(u) /\ KLists(u)
         /\ u.stat = [k.stat EXCEPT ![t] = "READY"]
         /\ u.yield = k.yield /\ u.current = k.current /\ u.defunct = k.defunct
         /\ u.waiting = k.waiting
         /\ u.group = k.group \cup {p}
         /\ \A q \in Priority : \A v :
              v \in ToSet(u.table[q]) <=> v \in ToSet(k.table[q]) \/ (q = p /\ v = t)
<1> DEFINE u == InsertAtPriority(k, t, p)
           n == Append(k.table[p], t)
<1>1. k.table[p] \in Seq(Thread) /\ IsInjective(k.table[p]) /\ t \notin ToSet(k.table[p])
  BY DEF KType, KLists
<1>2. /\ n \in Seq(Thread) /\ IsInjective(n) /\ ToSet(n) = ToSet(k.table[p]) \cup {t}
  BY <1>1, AppendFacts
<1> HIDE DEF n
<1>3. u = [k EXCEPT !.stat[t] = "READY", !.table[p] = n, !.group = k.group \cup {p}]
  BY DEF InsertAtPriority, KType, n
<1> HIDE DEF u
<1>4. /\ u.stat = [k.stat EXCEPT ![t] = "READY"]
      /\ u.yield = k.yield /\ u.current = k.current /\ u.defunct = k.defunct
      /\ u.waiting = k.waiting
      /\ u.group = k.group \cup {p}
      /\ u.table = [k.table EXCEPT ![p] = n]
  BY <1>3 DEF KType
<1>5. KType(u)
  BY <1>2, <1>3 DEF KType, Stat
<1>6. KLists(u)
  BY <1>2, <1>4 DEF KLists, KType
<1>7. ASSUME NEW q \in Priority, NEW v
      PROVE  v \in ToSet(u.table[q]) <=> v \in ToSet(k.table[q]) \/ (q = p /\ v = t)
  <2>1. CASE q = p
    BY <1>2, <1>4, <2>1 DEF KType
  <2>2. CASE q # p
    BY <1>4, <2>2 DEF KType
  <2> QED
    BY <2>1, <2>2
<1> QED
  BY <1>4, <1>5, <1>6, <1>7 DEF u

-----------------------------------------------------------------------------
(***************************************************************************)
(* The inductive invariant on a snapshot.  D is the set of threads another *)
(* thread is deleting, pr the threads' priorities.                         *)
(***************************************************************************)

KGroup(k) == \A p \in Priority : p \in k.group <=> ToSet(k.table[p]) # {}

KReady(k, D, pr) ==
  \A p \in Priority : \A t \in ToSet(k.table[p]) :
    t \in Thread /\ k.stat[t] = "READY" /\ pr[t] = p /\ t \notin D

KListed(k, D, pr) ==
  \A t \in Thread : k.stat[t] = "READY" => t \in D \/ t \in ToSet(k.table[pr[t]])

KDefunct(k) == \A t \in Thread : t \in ToSet(k.defunct) <=> k.stat[t] = "CLOSE"

KWait(k, D) == \A t \in k.waiting : k.stat[t] = "SUSPEND" /\ t \notin D

KRun(k, D) ==
  /\ \A t \in Thread : k.stat[t] = "RUNNING" => t = k.current
  /\ k.stat[k.current] \notin {"NULL", "INIT", "READY"} /\ k.current \notin D
  /\ k.stat[Idle] \in {"READY", "RUNNING"} /\ Idle \notin D

KInv(k, D, pr) ==
  KType(k) /\ KLists(k) /\ KGroup(k) /\ KReady(k, D, pr) /\ KListed(k, D, pr)
    /\ KDefunct(k) /\ KWait(k, D) /\ KRun(k, D)

\* rt_thread_resume of a thread that waits, or that became ready meanwhile.
LEMMA ResumedInv ==
  ASSUME NEW STATE k, NEW STATE D, NEW STATE t, t \in Thread,
         KInv(k, D, current_priority),
         current_priority \in [Thread -> Priority],
         k.stat[t] \in {"SUSPEND", "READY"}, t \notin D
  PROVE  LET u == Resumed(k, t) IN
         /\ KInv(u, D, current_priority)
         /\ u.current = k.current
         /\ u.stat = [k.stat EXCEPT ![t] = IF t = k.current THEN "RUNNING" ELSE "READY"]
<1> DEFINE x == Unlink(k, t)
           u == Resumed(k, t)
           p == current_priority[t]
<1>0. KType(k) /\ KLists(k) /\ p \in Priority
  BY DEF KInv
<1>1. /\ KType(x) /\ KLists(x)
      /\ x.stat = k.stat /\ x.yield = k.yield /\ x.group = k.group
      /\ x.current = k.current
      /\ \A q \in Priority : ToSet(x.table[q]) = ToSet(k.table[q]) \ {t}
      /\ ToSet(x.defunct) = ToSet(k.defunct) \ {t} /\ x.waiting = k.waiting \ {t}
  BY <1>0, UnlinkFacts
<1>2. u = InsertAtPriority(x, t, p)
  BY DEF Resumed, rt_schedule_insert_thread
<1>3. k.stat \in [Thread -> Stat] /\ k.current \in Thread
  BY <1>0 DEF KType
<1> HIDE DEF x, u, p
<1>4. CASE t = k.current
  <2>1. u = [x EXCEPT !.stat[t] = "RUNNING"]
    BY <1>1, <1>2, <1>4 DEF InsertAtPriority
  <2>2. /\ u.stat = [k.stat EXCEPT ![t] = "RUNNING"] /\ u.group = k.group
        /\ u.current = k.current /\ u.table = x.table /\ u.defunct = x.defunct
        /\ u.waiting = x.waiting /\ KType(u)
    BY <1>1, <2>1 DEF KType, Stat
  <2>3. k.stat[t] = "SUSPEND"
    BY <1>4 DEF KInv, KRun
  <2>4. /\ \A q \in Priority : ToSet(u.table[q]) = ToSet(k.table[q])
        /\ \A v \in Thread : v \in ToSet(u.defunct) <=> v \in ToSet(k.defunct)
    <3>1. ASSUME NEW q \in Priority PROVE ToSet(u.table[q]) = ToSet(k.table[q])
      <4>1. t \notin ToSet(k.table[q])
        BY <2>3 DEF KInv, KReady
      <4>2. ToSet(u.table[q]) = ToSet(k.table[q]) \ {t}
        BY <1>1, <2>2
      <4> QED
        BY <4>1, <4>2
    <3>2. t \notin ToSet(k.defunct)
      BY <2>3 DEF KInv, KDefunct
    <3>3. ToSet(u.defunct) = ToSet(k.defunct) \ {t}
      BY <1>1, <2>2
    <3> QED
      BY <3>1, <3>2, <3>3
  <2>5. KLists(u)
    BY <1>1, <2>2 DEF KLists
  <2>6. KInv(u, D, current_priority)
    BY <1>1, <1>3, <1>4, <2>2, <2>3, <2>4, <2>5, ThreadAssumption
    DEF KInv, KGroup, KReady, KListed, KDefunct, KWait, KRun
  <2> QED
    BY <1>4, <2>2, <2>6 DEF u
<1>5. CASE t # k.current
  <2>0. t # x.current /\ \A q \in Priority : t \notin ToSet(x.table[q])
    BY <1>1, <1>5
  <2>1. /\ KType(u) /\ KLists(u)
        /\ u.stat = [k.stat EXCEPT ![t] = "READY"]
        /\ u.current = k.current /\ u.defunct = x.defunct /\ u.waiting = x.waiting
        /\ u.group = k.group \cup {p}
        /\ \A q \in Priority : \A v :
             v \in ToSet(u.table[q]) <=> v \in ToSet(x.table[q]) \/ (q = p /\ v = t)
    <3> DEFINE w == InsertAtPriority(x, t, p)
    <3>1. /\ KType(w) /\ KLists(w)
          /\ w.stat = [x.stat EXCEPT ![t] = "READY"]
          /\ w.yield = x.yield /\ w.current = x.current /\ w.defunct = x.defunct
          /\ w.waiting = x.waiting
          /\ w.group = x.group \cup {p}
          /\ \A q \in Priority : \A v :
               v \in ToSet(w.table[q]) <=> v \in ToSet(x.table[q]) \/ (q = p /\ v = t)
      <4>1. p \in Priority /\ t \in Thread /\ KType(x) /\ KLists(x)
        BY <1>0, <1>1
      <4> QED
        BY ONLY <4>1, <2>0, InsertFacts
    <3> HIDE DEF w
    <3> QED
      BY <1>1, <1>2, <3>1 DEF w
  <2>2. \A q \in Priority : q # p => t \notin ToSet(k.table[q])
    BY DEF KInv, KReady, p
  <2>3. \A q \in Priority : \A v :
          v \in ToSet(u.table[q]) <=> v \in ToSet(k.table[q]) \/ (q = p /\ v = t)
    BY <1>1, <2>1, <2>2
  <2>4. KDefunct(u)
    BY <1>1, <1>3, <2>1 DEF KInv, KDefunct
  <2>5. KGroup(u)
    BY <1>0, <2>1, <2>3 DEF KInv, KGroup
  <2>6. KReady(u, D, current_priority)
    BY <1>3, <2>1, <2>3 DEF KInv, KReady, p
  <2>7. KListed(u, D, current_priority)
    BY <1>0, <1>3, <2>1, <2>3 DEF KInv, KListed, p
  <2>8. KRun(u, D)
    BY <1>3, <1>5, <2>1, ThreadAssumption DEF KInv, KRun
  <2>9. KWait(u, D)
    BY <1>1, <1>3, <2>1 DEF KInv, KWait, KType
  <2>10. KInv(u, D, current_priority)
    BY <2>1, <2>4, <2>5, <2>6, <2>7, <2>8, <2>9 DEF KInv
  <2> QED
    BY <1>5, <2>1, <2>10 DEF u
<1> QED
  BY <1>4, <1>5

\* The old current thread goes back to its list exactly if it is runnable.
LEMMA RequeueFacts ==
  ASSUME NEW STATE k, NEW STATE D, NEW STATE n, n \in Thread,
         KInv(k, D, current_priority),
         current_priority \in [Thread -> Priority], n # k.current
  PROVE  LET c  == k.current
             p  == current_priority[c]
             r  == k.stat[c] = "RUNNING"
             k1 == [k EXCEPT !.current = n]
             u  == IF r THEN rt_schedule_insert_thread([k1 EXCEPT !.yield[c] = FALSE], c)
                   ELSE k1
         IN  /\ KType(u) /\ KLists(u)
             /\ u.stat = [k.stat EXCEPT ![c] = IF r THEN "READY" ELSE @]
             /\ u.current = n /\ u.defunct = k.defunct /\ u.waiting = k.waiting
             /\ u.group = IF r THEN k.group \cup {p} ELSE k.group
             /\ \A q \in Priority : \A v :
                  v \in ToSet(u.table[q]) <=>
                    v \in ToSet(k.table[q]) \/ (r /\ q = p /\ v = c)
<1> DEFINE c  == k.current
           p  == current_priority[c]
           r  == k.stat[c] = "RUNNING"
           k1 == [k EXCEPT !.current = n]
           y  == [k1 EXCEPT !.yield[c] = FALSE]
           i  == rt_schedule_insert_thread(y, c)
           u  == IF r THEN i ELSE k1
<1>1. /\ KType(k) /\ KLists(k) /\ c \in Thread /\ p \in Priority
      /\ k.stat \in [Thread -> Stat]
  BY DEF KInv, KType
<1>2. /\ KType(k1) /\ KLists(k1) /\ k1.stat = k.stat /\ k1.table = k.table
      /\ k1.group = k.group /\ k1.defunct = k.defunct /\ k1.current = n
      /\ k1.waiting = k.waiting
  BY <1>1 DEF KType, KLists
<1>3. /\ KType(y) /\ KLists(y) /\ y.stat = k.stat /\ y.table = k.table
      /\ y.group = k.group /\ y.defunct = k.defunct /\ y.current = n
      /\ y.waiting = k.waiting
  BY <1>1, <1>2 DEF KType, KLists
<1>4. CASE r
  <2>1. \A q \in Priority : c \notin ToSet(y.table[q])
    BY <1>3, <1>4 DEF KInv, KReady
  <2>2. i = InsertAtPriority(y, c, p)
    BY DEF rt_schedule_insert_thread
  <2> HIDE DEF y, i, c, p
  <2>3. c # y.current
    BY <1>3 DEF c
  <2> DEFINE w == InsertAtPriority(y, c, p)
  <2>4. /\ KType(w) /\ KLists(w)
        /\ w.stat = [y.stat EXCEPT ![c] = "READY"]
        /\ w.yield = y.yield /\ w.current = y.current /\ w.defunct = y.defunct
        /\ w.waiting = y.waiting
        /\ w.group = y.group \cup {p}
        /\ \A q \in Priority : \A v :
             v \in ToSet(w.table[q]) <=> v \in ToSet(y.table[q]) \/ (q = p /\ v = c)
    <3>1. p \in Priority /\ c \in Thread /\ KType(y) /\ KLists(y)
      BY <1>1, <1>3
    <3> QED
      BY ONLY <3>1, <2>1, <2>3, InsertFacts
  <2> HIDE DEF w
  <2>5. u = w
    BY <1>4, <2>2 DEF w
  <2> HIDE DEF u
  <2>6. /\ KType(u) /\ KLists(u)
        /\ u.stat = [k.stat EXCEPT ![c] = IF r THEN "READY" ELSE @]
        /\ u.current = n /\ u.defunct = k.defunct /\ u.waiting = k.waiting
        /\ u.group = IF r THEN k.group \cup {p} ELSE k.group
        /\ \A q \in Priority : \A v :
             v \in ToSet(u.table[q]) <=>
               v \in ToSet(k.table[q]) \/ (r /\ q = p /\ v = c)
    BY <1>1, <1>3, <1>4, <2>4, <2>5
  <2> QED
    BY <2>6 DEF u, c, p, i, y
<1>5. CASE ~r
  <2>1. u = k1
    BY <1>5
  <2>2. u.stat = [k.stat EXCEPT ![c] = IF r THEN "READY" ELSE @]
    BY <1>1, <1>2, <1>5, <2>1
  <2> QED
    BY <1>2, <1>5, <2>1, <2>2
<1> QED
  BY <1>4, <1>5

\* Switching to a listed thread keeps the lists exact.
LEMMA SwitchedInv ==
  ASSUME NEW STATE k, NEW STATE D, NEW STATE n, n \in Thread, NEW STATE h, h \in Priority,
         KInv(k, D, current_priority),
         current_priority \in [Thread -> Priority], n \in ToSet(k.table[h])
  PROVE  LET u == Switched(k, n)
             c == k.current
         IN  /\ KInv(u, D, current_priority)
             /\ u.current = n
             /\ u.stat = [k.stat EXCEPT ![c] = IF @ = "RUNNING" THEN "READY" ELSE @,
                                        ![n] = "RUNNING"]
             /\ u.group \subseteq k.group \cup
                  (IF k.stat[c] = "RUNNING" THEN {current_priority[c]} ELSE {})
<1> DEFINE c  == k.current
           p  == current_priority[c]
           r  == k.stat[c] = "RUNNING"
           k1 == [k EXCEPT !.current = n]
           x  == IF r THEN rt_schedule_insert_thread([k1 EXCEPT !.yield[c] = FALSE], c)
                 ELSE k1
           y  == rt_schedule_remove_thread(x, n)
           u  == Switched(k, n)
<1>1. /\ KType(k) /\ KLists(k) /\ c \in Thread /\ p \in Priority
      /\ k.stat \in [Thread -> Stat] /\ current_priority[n] = h
      /\ k.stat[n] = "READY" /\ n # c /\ n \notin D
  BY DEF KInv, KType, KReady, KRun
<1>2. /\ KType(x) /\ KLists(x)
      /\ x.stat = [k.stat EXCEPT ![c] = IF r THEN "READY" ELSE @]
      /\ x.current = n /\ x.defunct = k.defunct /\ x.waiting = k.waiting
      /\ x.group = IF r THEN k.group \cup {p} ELSE k.group
      /\ \A q \in Priority : \A v :
           v \in ToSet(x.table[q]) <=>
             v \in ToSet(k.table[q]) \/ (r /\ q = p /\ v = c)
  BY <1>1, RequeueFacts
<1>3. u = [y EXCEPT !.stat[n] = "RUNNING"]
  BY DEF Switched
<1> HIDE DEF x
<1>4. /\ KType(y) /\ KLists(y)
      /\ y.stat = x.stat /\ y.current = n
      /\ y.group = IF ToSet(x.table[h]) \ {n} = {} THEN x.group \ {h} ELSE x.group
      /\ \A q \in Priority : ToSet(y.table[q]) = ToSet(x.table[q]) \ {n}
      /\ ToSet(y.defunct) = ToSet(x.defunct) \ {n} /\ y.waiting = x.waiting \ {n}
  <2>1. KType(x) /\ KLists(x) /\ n \in Thread
    BY <1>2
  <2>2. current_priority \in [Thread -> Priority]
    OBVIOUS
  <2>3. /\ KType(y) /\ KLists(y)
        /\ y.stat = x.stat /\ y.yield = x.yield /\ y.current = x.current
        /\ y.group = IF ToSet(x.table[current_priority[n]]) \ {n} = {}
                     THEN x.group \ {current_priority[n]} ELSE x.group
        /\ \A q \in Priority : ToSet(y.table[q]) = ToSet(x.table[q]) \ {n}
        /\ ToSet(y.defunct) = ToSet(x.defunct) \ {n} /\ y.waiting = x.waiting \ {n}
    BY ONLY <2>1, <2>2, RemoveThreadFacts
  <2> HIDE DEF y
  <2> QED
    BY <1>1, <1>2, <2>3
<1> HIDE DEF y, u
<1>5. /\ KType(u) /\ KLists(u) /\ u.stat = [y.stat EXCEPT ![n] = "RUNNING"]
      /\ u.current = n /\ u.group = y.group /\ u.table = y.table
      /\ u.defunct = y.defunct /\ u.waiting = y.waiting
  <2>1. /\ KType(u) /\ u.stat = [y.stat EXCEPT ![n] = "RUNNING"]
        /\ u.current = y.current /\ u.group = y.group /\ u.table = y.table
        /\ u.defunct = y.defunct /\ u.waiting = y.waiting
    <3>1. KType(y) /\ n \in Thread
      BY <1>4
    <3> QED
      BY ONLY <1>3, <3>1 DEF KType, Stat
  <2> QED
    BY <1>4, <2>1 DEF KLists
<1>6. u.stat = [k.stat EXCEPT ![c] = IF r THEN "READY" ELSE @, ![n] = "RUNNING"]
  BY <1>1, <1>2, <1>4, <1>5
<1>7. \A q \in Priority : \A v :
        v \in ToSet(u.table[q]) <=>
          v # n /\ (v \in ToSet(k.table[q]) \/ (r /\ q = p /\ v = c))
  BY <1>2, <1>4, <1>5
<1>8. KDefunct(u)
  BY <1>1, <1>2, <1>4, <1>5, <1>6 DEF KInv, KDefunct
<1>9. KRun(u, D)
  BY <1>1, <1>5, <1>6, ThreadAssumption DEF KInv, KRun
<1>10. KReady(u, D, current_priority)
  BY <1>1, <1>6, <1>7 DEF KInv, KReady, KRun
<1>11. KListed(u, D, current_priority)
  BY <1>1, <1>6, <1>7 DEF KInv, KListed
<1>12. KGroup(x)
  BY <1>1, <1>2 DEF KInv, KGroup
<1>13. KGroup(u)
  <2>1. ASSUME NEW q \in Priority, q # h PROVE q \in u.group <=> ToSet(u.table[q]) # {}
    <3>1. n \notin ToSet(x.table[q])
      BY <1>1, <1>2, <2>1 DEF KInv, KReady
    <3> QED
      BY <1>4, <1>5, <1>12, <2>1, <3>1 DEF KGroup
  <2>2. h \in u.group <=> ToSet(u.table[h]) # {}
    <3>1. n \in ToSet(x.table[h])
      BY <1>2
    <3> QED
      BY <1>4, <1>5, <1>12, <3>1 DEF KGroup
  <2> QED
    BY <2>1, <2>2 DEF KGroup
<1>14. KWait(u, D)
  BY <1>1, <1>2, <1>4, <1>5, <1>6 DEF KInv, KWait, KType
<1>15. KInv(u, D, current_priority)
  BY <1>5, <1>8, <1>9, <1>10, <1>11, <1>13, <1>14 DEF KInv
<1>16. u.group \subseteq k.group \cup (IF r THEN {p} ELSE {})
  BY <1>2, <1>4, <1>5
<1> QED
  BY <1>5, <1>6, <1>15, <1>16 DEF u

\* Removing the current thread, which is in no list, changes no list.
LEMMA RemoveCurrentInv ==
  ASSUME NEW STATE k, NEW STATE D, KInv(k, D, current_priority),
         current_priority \in [Thread -> Priority], k.stat[k.current] = "RUNNING"
  PROVE  LET u == rt_schedule_remove_thread(k, k.current) IN
         /\ KInv(u, D, current_priority)
         /\ u.stat = k.stat /\ u.yield = k.yield /\ u.current = k.current
         /\ u.group = k.group
<1> DEFINE c == k.current
           p == current_priority[c]
           u == rt_schedule_remove_thread(k, c)
<1>1. KType(k) /\ KLists(k) /\ c \in Thread /\ p \in Priority /\ k.stat[c] = "RUNNING"
  BY DEF KInv, KType
<1>2. /\ \A q \in Priority : c \notin ToSet(k.table[q])
      /\ c \notin ToSet(k.defunct)
  BY <1>1 DEF KInv, KReady, KDefunct
<1>3. p \in k.group <=> ToSet(k.table[p]) # {}
  BY <1>1 DEF KInv, KGroup
<1> HIDE DEF c
<1>4. /\ KType(u) /\ KLists(u)
      /\ u.stat = k.stat /\ u.yield = k.yield /\ u.current = k.current
      /\ u.group = IF ToSet(k.table[p]) \ {c} = {} THEN k.group \ {p} ELSE k.group
      /\ \A q \in Priority : ToSet(u.table[q]) = ToSet(k.table[q]) \ {c}
      /\ ToSet(u.defunct) = ToSet(k.defunct) \ {c} /\ u.waiting = k.waiting \ {c}
  <2>1. current_priority \in [Thread -> Priority]
    OBVIOUS
  <2> QED
    BY ONLY <1>1, <2>1, RemoveThreadFacts
<1> HIDE DEF u
<1>5. ASSUME NEW q \in Priority PROVE ToSet(u.table[q]) = ToSet(k.table[q])
  <2>1. ToSet(u.table[q]) = ToSet(k.table[q]) \ {c} /\ c \notin ToSet(k.table[q])
    BY <1>2, <1>4
  <2> QED
    BY <2>1
<1>6. u.group = k.group
  <2>1. ToSet(k.table[p]) \ {c} = ToSet(k.table[p])
    BY <1>1, <1>2
  <2> HIDE DEF p
  <2> QED
    BY <1>3, <1>4, <2>1
<1>7. ToSet(u.defunct) = ToSet(k.defunct)
  BY <1>2, <1>4
<1>8. KGroup(u) /\ KReady(u, D, current_priority)
  BY <1>4, <1>5, <1>6 DEF KInv, KGroup, KReady
<1>9. KListed(u, D, current_priority)
  BY <1>4, <1>5 DEF KInv, KListed
<1>10. KDefunct(u) /\ KWait(u, D) /\ KRun(u, D)
  BY <1>4, <1>7 DEF KInv, KDefunct, KWait, KRun
<1> QED
  BY <1>4, <1>6, <1>8, <1>9, <1>10 DEF KInv, u, c

\* Setting or clearing RT_THREAD_STAT_YIELD disturbs nothing.
LEMMA YieldInv ==
  ASSUME NEW STATE k, NEW STATE D, NEW STATE b, b \in BOOLEAN, NEW STATE t, t \in Thread,
         KInv(k, D, current_priority)
  PROVE  LET u == [k EXCEPT !.yield[t] = b] IN
         /\ KInv(u, D, current_priority)
         /\ u.stat = k.stat /\ u.current = k.current /\ u.group = k.group
<1> DEFINE u == [k EXCEPT !.yield[t] = b]
<1>1. KType(k)
  BY DEF KInv
<1>2. /\ KType(u) /\ u.stat = k.stat /\ u.table = k.table /\ u.current = k.current
      /\ u.group = k.group /\ u.defunct = k.defunct /\ u.waiting = k.waiting
  BY <1>1 DEF KType
<1> HIDE DEF u
<1>3. KInv(u, D, current_priority)
  BY <1>2 DEF KInv, KLists, KGroup, KReady, KListed, KDefunct, KWait, KRun
<1> QED
  BY <1>2, <1>3 DEF u

\* rt_schedule keeps the lists exact, moves threads between READY and RUNNING
\* only, and unless the scheduler is locked leaves a most urgent thread running.
LEMMA ScheduleInv ==
  ASSUME NEW STATE k, NEW STATE D, KInv(k, D, current_priority),
         current_priority \in [Thread -> Priority]
  PROVE  LET u == rt_schedule(k) IN
         /\ KInv(u, D, current_priority)
         /\ \A t \in Thread : \/ u.stat[t] = k.stat[t]
                              \/ /\ u.stat[t] \in {"READY", "RUNNING"}
                                 /\ k.stat[t] \in {"READY", "RUNNING"}
         /\ lock_nest # 0 => u = k
         /\ lock_nest = 0 => /\ u.stat[u.current] = "RUNNING"
                             /\ \A p \in u.group : current_priority[u.current] <= p
<1> DEFINE u == rt_schedule(k)
           c == k.current
           h == Min(k.group)
           n == Head(k.table[h])
<1>1. /\ KType(k) /\ KLists(k) /\ c \in Thread /\ k.group \subseteq Priority
      /\ k.stat \in [Thread -> Stat]
  BY DEF KInv, KType
<1>2. CASE lock_nest # 0
  <2>1. u = k
    BY <1>2 DEF rt_schedule
  <2> QED
    BY <1>2, <2>1
<1>3. CASE lock_nest = 0 /\ k.group = {}
  <2>1. u = k
    BY <1>3 DEF rt_schedule
  <2>2. k.stat[Idle] # "READY"
    <3>1. current_priority[Idle] \in Priority
      BY ThreadAssumption
    <3> QED
      BY <1>3, <3>1, ThreadAssumption DEF KInv, KListed, KGroup, KRun
  <2>3. k.stat[c] = "RUNNING"
    BY <2>2, ThreadAssumption DEF KInv, KRun
  <2> QED
    BY <1>3, <2>1, <2>3
<1>4. CASE lock_nest = 0 /\ k.group # {}
  <2>1. h \in k.group /\ \A p \in k.group : h <= p
    <3>1. k.group \subseteq Nat
      BY <1>1 DEF Priority
    <3> QED
      BY ONLY <1>4, <3>1, MinFacts
  <2>2. h \in Priority /\ k.table[h] \in Seq(Thread) /\ ToSet(k.table[h]) # {}
    BY <1>1, <2>1 DEF KInv, KGroup, KType
  <2>3. n \in ToSet(k.table[h]) /\ n \in Thread
    <3>1. k.table[h] # <<>>
      BY <2>2, EmptyFacts
    <3> QED
      BY ONLY <2>2, <3>1, HeadFacts
  <2>4. /\ current_priority[n] = h /\ current_priority[c] \in Nat /\ h \in Nat
        /\ k.group \subseteq Nat
    BY <1>1, <2>2, <2>3 DEF KInv, KReady, Priority
  <2>5. CASE Keeps(k)
    <3> DEFINE y == [k EXCEPT !.yield[c] = FALSE]
               x == rt_schedule_remove_thread(y, y.current)
    <3>1. k.stat[c] = "RUNNING" /\ current_priority[c] <= h
      BY <2>4, <2>5 DEF Keeps
    <3>2. /\ KInv(y, D, current_priority)
          /\ y.stat = k.stat /\ y.current = k.current /\ y.group = k.group
      BY <1>1, YieldInv
    <3>3. u = [x EXCEPT !.stat[c] = "RUNNING"]
      BY <1>4, <2>5, <3>2 DEF rt_schedule
    <3> HIDE DEF y
    <3>4. /\ KInv(x, D, current_priority)
          /\ x.stat = y.stat /\ x.yield = y.yield /\ x.current = y.current
          /\ x.group = y.group
      <4>1. y.stat[y.current] = "RUNNING" /\ current_priority \in [Thread -> Priority]
        BY <3>1, <3>2
      <4> QED
        BY ONLY <3>2, <4>1, RemoveCurrentInv
    <3> HIDE DEF x
    <3>5. x = [x EXCEPT !.stat[c] = "RUNNING"]
      BY <1>1, <3>1, <3>2, <3>4 DEF KInv, KType
    <3>6. u = x
      BY <3>3, <3>5
    <3>7. \A p \in x.group : current_priority[x.current] <= p
      BY <2>1, <2>4, <3>1, <3>2, <3>4
    <3> QED
      BY <1>4, <3>1, <3>2, <3>4, <3>6, <3>7
  <2>6. CASE ~Keeps(k)
    <3> HIDE DEF n, h, c
    <3>1. u = Switched(k, n)
      BY <1>4, <2>6 DEF rt_schedule, _scheduler_get_highest_priority_thread, n, h
    <3> DEFINE w == Switched(k, n)
    <3>2. /\ KInv(w, D, current_priority)
          /\ w.current = n
          /\ w.stat = [k.stat EXCEPT ![k.current] = IF @ = "RUNNING" THEN "READY" ELSE @,
                                     ![n] = "RUNNING"]
          /\ w.group \subseteq k.group \cup
               (IF k.stat[k.current] = "RUNNING" THEN {current_priority[k.current]} ELSE {})
      <4>1. KInv(k, D, current_priority) /\ current_priority \in [Thread -> Priority]
        OBVIOUS
      <4> QED
        BY ONLY <2>2, <2>3, <4>1, SwitchedInv
    <3> HIDE DEF w
    <3>3. k.stat[n] = "READY"
      BY <2>2, <2>3 DEF KInv, KReady
    <3>4. \A t \in Thread : \/ w.stat[t] = k.stat[t]
                            \/ /\ w.stat[t] \in {"READY", "RUNNING"}
                               /\ k.stat[t] \in {"READY", "RUNNING"}
      BY <1>1, <2>3, <3>2, <3>3
    <3>5. w.stat[w.current] = "RUNNING"
      BY <1>1, <2>3, <3>2
    <3>6. k.stat[c] = "RUNNING" => h <= current_priority[c]
      BY <2>4, <2>6 DEF Keeps, h, c
    <3>7. \A p \in w.group : current_priority[w.current] <= p
      BY <2>1, <2>4, <3>2, <3>6 DEF c
    <3> QED
      BY <1>4, <3>1, <3>2, <3>4, <3>5, <3>7 DEF w
  <2> QED
    BY <2>5, <2>6
<1> QED
  BY <1>2, <1>3, <1>4

\* A thread in no list changes its state: the current one blocks, another one
\* is initialised.
LEMMA SetStatInv ==
  ASSUME NEW STATE k, NEW STATE D, NEW STATE t, t \in Thread, NEW STATE v,
         KInv(k, D, current_priority), t # Idle,
         \/ t = k.current /\ k.stat[t] = "RUNNING" /\ v = "SUSPEND"
         \/ t # k.current /\ k.stat[t] \in {"NULL", "INIT"} /\ v \in {"INIT", "SUSPEND"}
  PROVE  LET u == [k EXCEPT !.stat[t] = v] IN
         /\ KInv(u, D, current_priority)
         /\ u.stat = [k.stat EXCEPT ![t] = v] /\ u.current = k.current
         /\ u.group = k.group
<1> DEFINE u == [k EXCEPT !.stat[t] = v]
<1>1. KType(k) /\ k.stat \in [Thread -> Stat]
  BY DEF KInv, KType
<1>2. /\ KType(u) /\ u.stat = [k.stat EXCEPT ![t] = v] /\ u.table = k.table
      /\ u.current = k.current /\ u.group = k.group /\ u.defunct = k.defunct
      /\ u.waiting = k.waiting
  BY <1>1 DEF KType, Stat
<1> HIDE DEF u
<1>3. KLists(u) /\ KGroup(u)
  BY <1>2 DEF KInv, KLists, KGroup
<1>4. KReady(u, D, current_priority)
  BY <1>1, <1>2 DEF KInv, KReady
<1>5. KListed(u, D, current_priority)
  BY <1>1, <1>2 DEF KInv, KListed
<1>6. KDefunct(u)
  BY <1>1, <1>2 DEF KInv, KDefunct
<1>7. KRun(u, D)
  BY <1>1, <1>2, ThreadAssumption DEF KInv, KRun
<1>8. KWait(u, D)
  BY <1>1, <1>2 DEF KInv, KWait, KType
<1> QED
  BY <1>2, <1>3, <1>4, <1>5, <1>6, <1>7, <1>8 DEF KInv, u

\* Closing a thread that is in no list.
LEMMA ClosedInv ==
  ASSUME NEW STATE k, NEW STATE D, NEW STATE t, t \in Thread,
         KInv(k, D, current_priority), t # Idle, k.stat[t] # "CLOSE",
         t \notin k.waiting, \A q \in Priority : t \notin ToSet(k.table[q])
  PROVE  LET u == Closed(k, t) IN
         /\ KInv(u, D, current_priority)
         /\ u.stat = [k.stat EXCEPT ![t] = "CLOSE"] /\ u.current = k.current
         /\ u.group = k.group
<1> DEFINE u == Closed(k, t)
           n == <<t>> \o k.defunct
<1>1. /\ KType(k) /\ KLists(k) /\ k.stat \in [Thread -> Stat] /\ k.defunct \in Seq(Thread)
      /\ IsInjective(k.defunct) /\ t \notin ToSet(k.defunct)
  BY DEF KInv, KType, KLists, KDefunct
<1>2. n \in Seq(Thread) /\ ToSet(n) = ToSet(k.defunct) \cup {t} /\ IsInjective(n)
  BY <1>1, ConsFacts
<1>3. u = [k EXCEPT !.stat[t] = "CLOSE", !.yield[t] = FALSE, !.defunct = n]
  BY <1>1 DEF Closed, rt_thread_defunct_enqueue, KType
<1> HIDE DEF n, u
<1>4. /\ KType(u) /\ u.stat = [k.stat EXCEPT ![t] = "CLOSE"] /\ u.table = k.table
      /\ u.current = k.current /\ u.group = k.group /\ u.defunct = n
      /\ u.waiting = k.waiting
  BY <1>1, <1>2, <1>3 DEF KType, Stat
<1>5. KLists(u) /\ KGroup(u)
  BY <1>2, <1>4 DEF KInv, KLists, KGroup
<1>6. KReady(u, D, current_priority)
  BY <1>1, <1>4 DEF KInv, KReady
<1>7. KListed(u, D, current_priority)
  BY <1>1, <1>4 DEF KInv, KListed
<1>8. KDefunct(u)
  BY <1>1, <1>2, <1>4 DEF KInv, KDefunct
<1>9. KRun(u, D)
  BY <1>1, <1>4, ThreadAssumption DEF KInv, KRun
<1>10. KWait(u, D)
  BY <1>1, <1>4 DEF KInv, KWait, KType
<1> QED
  BY <1>4, <1>5, <1>6, <1>7, <1>8, <1>9, <1>10 DEF KInv, u

\* The first half of a delete takes another thread out of the ready lists.
LEMMA DetachInv ==
  ASSUME NEW STATE k, NEW STATE D, NEW STATE t, t \in Thread,
         KInv(k, D, current_priority), current_priority \in [Thread -> Priority],
         t # Idle, t # k.current, k.stat[t] # "CLOSE"
  PROVE  LET u == rt_schedule_remove_thread(k, t) IN
         /\ KInv(u, D \cup {t}, current_priority)
         /\ u.stat = k.stat /\ u.current = k.current /\ u.group \subseteq k.group
<1> DEFINE u == rt_schedule_remove_thread(k, t)
           p == current_priority[t]
<1>1. KType(k) /\ KLists(k) /\ p \in Priority /\ k.stat \in [Thread -> Stat]
  BY DEF KInv, KType
<1>2. /\ KType(u) /\ KLists(u)
      /\ u.stat = k.stat /\ u.yield = k.yield /\ u.current = k.current
      /\ u.group = IF ToSet(k.table[p]) \ {t} = {} THEN k.group \ {p} ELSE k.group
      /\ \A q \in Priority : ToSet(u.table[q]) = ToSet(k.table[q]) \ {t}
      /\ ToSet(u.defunct) = ToSet(k.defunct) \ {t} /\ u.waiting = k.waiting \ {t}
  <2>1. current_priority \in [Thread -> Priority]
    OBVIOUS
  <2>2. t \in Thread
    OBVIOUS
  <2> QED
    BY ONLY <1>1, <2>1, <2>2, RemoveThreadFacts
<1> HIDE DEF u
<1>3. KGroup(u)
  <2>1. ASSUME NEW q \in Priority, q # p PROVE q \in u.group <=> ToSet(u.table[q]) # {}
    <3>1. t \notin ToSet(k.table[q])
      BY <2>1 DEF KInv, KReady
    <3> QED
      BY <1>2, <2>1, <3>1 DEF KInv, KGroup
  <2>2. p \in u.group <=> ToSet(u.table[p]) # {}
    <3>1. p \in k.group <=> ToSet(k.table[p]) # {}
      BY <1>1 DEF KInv, KGroup
    <3>2. ToSet(u.table[p]) = ToSet(k.table[p]) \ {t}
      BY <1>1, <1>2
    <3> HIDE DEF p
    <3> QED
      BY <1>2, <3>1, <3>2
  <2> HIDE DEF p
  <2> QED
    BY <2>1, <2>2 DEF KGroup
<1>4. KReady(u, D \cup {t}, current_priority)
  BY <1>2 DEF KInv, KReady
<1>5. KListed(u, D \cup {t}, current_priority)
  BY <1>2 DEF KInv, KListed
<1>6. KDefunct(u)
  BY <1>2 DEF KInv, KDefunct
<1>7. KRun(u, D \cup {t})
  BY <1>2 DEF KInv, KRun
<1>8. u.group \subseteq k.group
  BY <1>2
<1>9. KWait(u, D \cup {t})
  BY <1>2 DEF KInv, KWait
<1> QED
  BY <1>2, <1>3, <1>4, <1>5, <1>6, <1>7, <1>8, <1>9 DEF KInv, u

\* idle takes the head of the defunct queue and frees its control block.
LEMMA ReclaimInv ==
  ASSUME NEW STATE k, NEW STATE D, KInv(k, D, current_priority), k.defunct # <<>>,
         current_priority \in [Thread -> Priority], k.stat[k.current] = "RUNNING"
  PROVE  LET t == Head(k.defunct)
             u == [Unlink(k, t) EXCEPT !.stat[t] = "NULL"]
         IN  /\ KInv(u, D, current_priority)
             /\ t \in Thread /\ k.stat[t] = "CLOSE"
             /\ u.stat = [k.stat EXCEPT ![t] = "NULL"] /\ u.current = k.current
             /\ u.group = k.group
<1> DEFINE t == Head(k.defunct)
           x == Unlink(k, t)
           u == [x EXCEPT !.stat[t] = "NULL"]
<1>1. KType(k) /\ KLists(k) /\ k.stat \in [Thread -> Stat] /\ k.defunct \in Seq(Thread)
  BY DEF KInv, KType
<1>2. t \in ToSet(k.defunct) /\ t \in Thread
  BY <1>1, HeadFacts
<1> HIDE DEF t
<1>3. /\ KType(x) /\ KLists(x)
      /\ x.stat = k.stat /\ x.yield = k.yield /\ x.group = k.group
      /\ x.current = k.current
      /\ \A p \in Priority : ToSet(x.table[p]) = ToSet(k.table[p]) \ {t}
      /\ ToSet(x.defunct) = ToSet(k.defunct) \ {t} /\ x.waiting = k.waiting \ {t}
  BY ONLY <1>1, <1>2, UnlinkFacts
<1> HIDE DEF x
<1>4. k.stat[t] = "CLOSE"
  BY <1>2 DEF KInv, KDefunct
<1>5. /\ KType(u) /\ u.stat = [k.stat EXCEPT ![t] = "NULL"] /\ u.table = x.table
      /\ u.current = k.current /\ u.group = k.group /\ u.defunct = x.defunct
      /\ u.waiting = x.waiting
  BY ONLY <1>2, <1>3 DEF KType, Stat
<1> HIDE DEF u
<1>6. ASSUME NEW p \in Priority PROVE ToSet(u.table[p]) = ToSet(k.table[p])
  <2>1. t \notin ToSet(k.table[p]) /\ ToSet(u.table[p]) = ToSet(k.table[p]) \ {t}
    BY <1>3, <1>4, <1>5 DEF KInv, KReady
  <2> QED
    BY <2>1
<1>7. KLists(u) /\ KGroup(u)
  BY <1>3, <1>5, <1>6 DEF KInv, KLists, KGroup
<1>8. KReady(u, D, current_priority)
  BY <1>1, <1>4, <1>5, <1>6 DEF KInv, KReady
<1>9. KListed(u, D, current_priority)
  <2>1. ASSUME NEW v \in Thread, u.stat[v] = "READY"
        PROVE  v \in D \/ v \in ToSet(u.table[current_priority[v]])
    <3>1. k.stat[v] = "READY"
      BY <1>1, <1>5, <2>1
    <3> QED
      BY <1>6, <3>1 DEF KInv, KListed, KReady
  <2> QED
    BY <2>1 DEF KListed
<1>10. KDefunct(u)
  BY <1>1, <1>3, <1>4, <1>5 DEF KInv, KDefunct
<1>11. KRun(u, D)
  BY <1>1, <1>2, <1>4, <1>5, ThreadAssumption DEF KInv, KRun
<1>12. KWait(u, D)
  BY <1>1, <1>3, <1>5 DEF KInv, KWait, KType
<1> QED
  BY <1>2, <1>4, <1>5, <1>7, <1>8, <1>9, <1>10, <1>11, <1>12 DEF KInv, u, x, t

\* RT_THREAD_CTRL_CHANGE_PRIORITY on a READY thread: from one list to another.
LEMMA RelistedInv ==
  ASSUME NEW STATE k, NEW STATE D, NEW STATE t, t \in Thread, NEW STATE p, p \in Priority,
         KInv(k, D, current_priority), current_priority \in [Thread -> Priority],
         k.stat[t] = "READY", t # Idle, t \notin D,
         NEW STATE pr, pr[t] = p,
         \A v \in Thread : v # t => pr[v] = current_priority[v]
  PROVE  LET u == InsertAtPriority(rt_schedule_remove_thread(k, t), t, p) IN
         /\ KInv(u, D, pr)
         /\ u.stat = k.stat /\ u.current = k.current
<1> DEFINE x  == rt_schedule_remove_thread(k, t)
           u  == InsertAtPriority(x, t, p)
<1>1. k.stat \in [Thread -> Stat] /\ t # k.current /\ k.current \in Thread
  BY DEF KInv, KType, KRun
<1>2. /\ KInv(x, D \cup {t}, current_priority)
      /\ x.stat = k.stat /\ x.current = k.current /\ x.group \subseteq k.group
  <2>1. /\ t \in Thread /\ KInv(k, D, current_priority) /\ t # Idle
        /\ current_priority \in [Thread -> Priority] /\ k.stat[t] # "CLOSE"
    OBVIOUS
  <2> QED
    BY ONLY <1>1, <2>1, DetachInv
<1> HIDE DEF x
<1>3. /\ KType(x) /\ KLists(x) /\ t # x.current
      /\ \A q \in Priority : t \notin ToSet(x.table[q])
  BY <1>1, <1>2 DEF KInv, KReady
<1> DEFINE w == InsertAtPriority(x, t, p)
<1>4. /\ KType(w) /\ KLists(w)
      /\ w.stat = [x.stat EXCEPT ![t] = "READY"]
      /\ w.yield = x.yield /\ w.current = x.current /\ w.defunct = x.defunct
      /\ w.waiting = x.waiting
      /\ w.group = x.group \cup {p}
      /\ \A q \in Priority : \A v :
           v \in ToSet(w.table[q]) <=> v \in ToSet(x.table[q]) \/ (q = p /\ v = t)
  <2>1. p \in Priority /\ t \in Thread /\ KType(x) /\ KLists(x)
    BY <1>3
  <2>2. t # x.current /\ \A q \in Priority : t \notin ToSet(x.table[q])
    BY <1>3
  <2> HIDE DEF u
  <2> QED
    BY ONLY <2>1, <2>2, InsertFacts
<1> HIDE DEF w
<1>5. w.stat = k.stat
  BY <1>1, <1>2, <1>4
<1>6. KGroup(w)
  BY <1>2, <1>4 DEF KInv, KGroup
<1>7. KReady(w, D, pr)
  BY <1>1, <1>2, <1>4, <1>5 DEF KInv, KReady
<1>8. KListed(w, D, pr)
  BY <1>1, <1>2, <1>4, <1>5 DEF KInv, KListed
<1>9. KDefunct(w)
  BY <1>2, <1>4, <1>5 DEF KInv, KDefunct
<1>10. KWait(w, D) /\ KRun(w, D)
  BY <1>2, <1>4, <1>5 DEF KInv, KWait, KRun
<1> QED
  BY <1>2, <1>4, <1>5, <1>6, <1>7, <1>8, <1>9, <1>10 DEF KInv, w, x, u

\* ... and on any other thread, which no list depends on.
LEMMA RenumberedInv ==
  ASSUME NEW STATE k, NEW STATE D, NEW STATE t, t \in Thread, NEW STATE p, p \in Priority,
         KInv(k, D, current_priority), current_priority \in [Thread -> Priority],
         k.stat[t] # "READY", NEW STATE pr, pr = [current_priority EXCEPT ![t] = p]
  PROVE  KInv(k, D, pr)
<1>1. KReady(k, D, pr)
  BY DEF KInv, KReady
<1>2. KListed(k, D, pr)
  BY DEF KInv, KListed
<1> QED
  BY <1>1, <1>2 DEF KInv

\* A finished delete leaves no trace in D.
LEMMA ShrinkInv ==
  ASSUME NEW STATE k, NEW STATE D, NEW STATE E, KInv(k, D, current_priority),
         E \subseteq D, \A v \in D \ E : k.stat[v] # "READY"
  PROVE  KInv(k, E, current_priority)
<1>1. KReady(k, E, current_priority)
  BY DEF KInv, KReady
<1>2. KListed(k, E, current_priority)
  BY DEF KInv, KListed
<1>3. KWait(k, E) /\ KRun(k, E)
  BY DEF KInv, KWait, KRun
<1> QED
  BY <1>1, <1>2, <1>3 DEF KInv

-----------------------------------------------------------------------------
(***************************************************************************)
(* The inductive invariant.  Besides the properties it needs to know what  *)
(* holds between the two halves of a delete or a resume, and that a thread *)
(* which is not on its way to rt_schedule, or holds the scheduler lock, is *)
(* RUNNING.                                                                *)
(***************************************************************************)

DeletedSet == {t \in Thread : DeletedByOther(t)}

DeleteWindow ==
  \A c \in Thread : pc[c] = "delete" =>
    /\ stat[c] \in {"READY", "RUNNING"}
    /\ arg[c] # Idle /\ stat[arg[c]] \notin {"NULL", "CLOSE"}
    /\ ~thread_timer[arg[c]]
    /\ arg[c] # c => pc[arg[c]] \notin {"delete", "resume", "startup"}
    /\ \A d \in Thread : pc[d] = "delete" /\ arg[d] = arg[c] => d = c

ResumeWindow ==
  \A c \in Thread : pc[c] \in {"resume", "startup"} =>
    /\ stat[c] \in {"READY", "RUNNING"}
    /\ arg[c] # c /\ stat[arg[c]] \in {"READY", "RUNNING", "SUSPEND"}
    /\ ~Deleting(arg[c])

RunningUnlessScheduling ==
  /\ pc[rt_current_thread] # "schedule" => stat[rt_current_thread] = "RUNNING"
  /\ lock_nest > 0 =>
       /\ stat[rt_current_thread] = "RUNNING"
       /\ ~(pc[rt_current_thread] = "delete" /\ arg[rt_current_thread] = rt_current_thread)

IInv ==
  /\ TypeOK
  /\ KInv(Kernel, DeletedSet, current_priority)
  /\ ContextExact
  /\ TimeoutAssertion
  /\ DeleteWindow
  /\ ResumeWindow
  /\ RunningUnlessScheduling
  /\ HighestPriorityRuns


\* A pending switch goes to a RUNNING thread and was not made in a critical
\* section; only the two action properties need it.
FlagInv == flag => lock_nest = 0 /\ stat[rt_current_thread] = "RUNNING"

-----------------------------------------------------------------------------
(***************************************************************************)
(* What the steps of every action share.                                   *)
(***************************************************************************)

\* The conjuncts of TypeOK about the state a snapshot holds.
KernelTypeOK ==
  /\ stat \in [Thread -> Stat] /\ yield \in [Thread -> BOOLEAN]
  /\ table \in [Priority -> Seq(Thread)] /\ group \in SUBSET Priority
  /\ defunct \in Seq(Thread) /\ waiting \in SUBSET Thread
  /\ rt_current_thread \in Thread

\* The snapshot is the state.
LEMMA KernelFields ==
  /\ Kernel.stat = stat /\ Kernel.yield = yield /\ Kernel.table = table
  /\ Kernel.group = group /\ Kernel.defunct = defunct /\ Kernel.waiting = waiting
  /\ Kernel.current = rt_current_thread
BY DEF Kernel

\* The state after Commit(k) is the snapshot k.
LEMMA CommitFacts ==
  ASSUME NEW STATE k, KType(k), Commit(k)
  PROVE  /\ Kernel' = k
         /\ stat' = k.stat /\ yield' = k.yield /\ table' = k.table
         /\ group' = k.group /\ defunct' = k.defunct /\ waiting' = k.waiting
         /\ rt_current_thread' = k.current
         /\ KernelTypeOK'
BY DEF KType, Commit, Kernel, KernelTypeOK

\* The thread that executes is the scheduler's current thread, nobody deletes
\* it, and before its rt_schedule it is RUNNING.
LEMMA AtFacts ==
  ASSUME IInv, NEW CONSTANT c, c \in Thread, NEW CONSTANT l, At(c, l)
  PROVE  /\ cpu = c /\ rt_current_thread = c /\ ~flag /\ isr = "none" /\ pc[c] = l
         /\ c \notin DeletedSet
         /\ l # "schedule" => stat[c] = "RUNNING"
<1>1. cpu = c /\ isr = "none" /\ pc[c] = l
  BY DEF At
<1>2. ~flag /\ rt_current_thread = c
  BY <1>1 DEF IInv, ContextExact
<1>3. c \notin DeletedSet
  BY <1>2, KernelFields DEF IInv, KInv, KRun
<1> QED
  BY <1>1, <1>2, <1>3 DEF IInv, RunningUnlessScheduling

\* A thread nobody deletes is not in DeletedSet, nor is one in a wait list.
LEMMA NotDeletedFacts ==
  ASSUME NEW CONSTANT t, t \in Thread, ~Deleting(t) \/ (IInv /\ t \in waiting)
  PROVE  t \notin DeletedSet
<1>1. CASE ~Deleting(t)
  BY <1>1 DEF Deleting, DeletedSet, DeletedByOther
<1>2. CASE IInv /\ t \in waiting
  BY <1>2, KernelFields DEF IInv, KInv, KWait
<1> QED
  BY <1>1, <1>2

\* A step outside the windows of delete and resume leaves DeletedSet alone.
LEMMA DeletedSame ==
  ASSUME \A d \in Thread : \/ pc'[d] = pc[d] /\ arg'[d] = arg[d]
                           \/ pc'[d] # "delete" /\ pc[d] # "delete"
  PROVE  /\ DeletedSet' = DeletedSet
         /\ \A t \in Thread : Deleting(t)' <=> Deleting(t)
BY DEF DeletedSet, DeletedByOther, Deleting

\* A step that ends no delete; k, the snapshot it leaves or hands to rt_schedule,
\* only turns threads that are set up and not closed into runnable ones, and
\* their timers are stopped.
Mild(k) ==
  /\ current_priority' = current_priority
  /\ \A d \in Thread : \/ pc'[d] = pc[d] /\ arg'[d] = arg[d]
                       \/ pc'[d] \in {"run", "schedule"} /\ pc[d] # "delete"
  /\ \A t \in Thread : \/ k.stat[t] = stat[t]
                       \/ /\ k.stat[t] \in {"READY", "RUNNING"}
                          /\ stat[t] \in {"INIT", "READY", "RUNNING", "SUSPEND"}
                          /\ stat[t] = "SUSPEND" => ~thread_timer'[t]
  /\ \A t \in Thread : thread_timer'[t] => thread_timer[t]

\* What such a step keeps of IInv, and the state it leaves.
Kept(k) ==
  /\ KInv(Kernel, DeletedSet, current_priority)'
  /\ TimeoutAssertion' /\ DeleteWindow' /\ ResumeWindow'
  /\ stat' = k.stat /\ group' = k.group /\ rt_current_thread' = k.current
  /\ KernelTypeOK'

\* A mild step keeps the lists, the timers and the windows as IInv wants them.
LEMMA MildStep ==
  ASSUME IInv, NEW STATE k, KInv(k, DeletedSet, current_priority), Mild(k), Commit(k)
  PROVE  Kept(k)
<1>1. KType(k)
  BY DEF KInv
<1>2. Kernel' = k /\ stat' = k.stat /\ group' = k.group /\ rt_current_thread' = k.current
  BY <1>1, CommitFacts DEF Mild
<1>3. DeletedSet' = DeletedSet /\ \A t \in Thread : Deleting(t)' <=> Deleting(t)
  BY DeletedSame DEF Mild
<1>4. KInv(Kernel, DeletedSet, current_priority)'
  BY <1>2, <1>3 DEF Mild
<1>5. TimeoutAssertion'
  BY <1>2 DEF IInv, TimeoutAssertion, Mild
<1>6. arg \in [Thread -> Thread]
  BY DEF IInv, TypeOK
<1>7. DeleteWindow'
  BY <1>2, <1>6 DEF IInv, DeleteWindow, Mild
<1>8. ResumeWindow'
  BY <1>2, <1>3, <1>6 DEF IInv, ResumeWindow, Mild
<1> QED
  BY <1>1, <1>2, <1>4, <1>5, <1>7, <1>8, CommitFacts DEF Kept, Mild

\* A step that ends in rt_schedule.
LEMMA ScheduledStep ==
  ASSUME IInv, NEW STATE k, KInv(k, DeletedSet, current_priority), Mild(k),
         k.current = rt_current_thread, Commit(rt_schedule(k)), lock_nest' = lock_nest
  PROVE  /\ Kept(rt_schedule(k)) /\ RunningUnlessScheduling' /\ HighestPriorityRuns'
         /\ lock_nest = 0 => stat'[rt_current_thread'] = "RUNNING"
         /\ lock_nest # 0 => rt_current_thread' = rt_current_thread
<1> DEFINE u == rt_schedule(k)
<1>1. TypeOK /\ current_priority \in [Thread -> Priority]
  BY DEF IInv, TypeOK
<1>2. /\ KInv(u, DeletedSet, current_priority)
      /\ \A t \in Thread : \/ u.stat[t] = k.stat[t]
                           \/ /\ u.stat[t] \in {"READY", "RUNNING"}
                              /\ k.stat[t] \in {"READY", "RUNNING"}
      /\ lock_nest # 0 => u = k
      /\ lock_nest = 0 => /\ u.stat[u.current] = "RUNNING"
                          /\ \A p \in u.group : current_priority[u.current] <= p
  BY <1>1, ScheduleInv
<1> HIDE DEF u
<1>3. Mild(u)
  BY <1>2 DEF Mild
<1>4. Kept(u)
  BY <1>2, <1>3, MildStep DEF u
<1>5. stat' = u.stat /\ group' = u.group /\ rt_current_thread' = u.current
  BY <1>4 DEF Kept
<1>6. current_priority' = current_priority
  BY DEF Mild
<1>7. CASE lock_nest = 0
  BY <1>2, <1>4, <1>5, <1>6, <1>7 DEF RunningUnlessScheduling, HighestPriorityRuns, u
<1>8. CASE lock_nest # 0
  <2>1. lock_nest > 0 /\ u = k /\ rt_current_thread \in Thread
    BY <1>1, <1>2, <1>8, BoundAssumption DEF TypeOK
  <2>2. stat[k.current] = "RUNNING"
    BY <2>1 DEF IInv, RunningUnlessScheduling
  <2>3. k.stat[k.current] = "RUNNING"
    BY <2>1, <2>2 DEF Mild, KInv, KRun
  <2>4. ~(pc'[k.current] = "delete" /\ arg'[k.current] = k.current)
    BY <2>1 DEF Mild, IInv, RunningUnlessScheduling
  <2> QED
    BY <1>4, <1>5, <1>8, <2>1, <2>3, <2>4
       DEF RunningUnlessScheduling, HighestPriorityRuns, u
<1> QED
  BY <1>7, <1>8

-----------------------------------------------------------------------------
(***************************************************************************)
(* One lemma per action.                                                   *)
(***************************************************************************)

\* rt_thread_startup, up to the check of rt_thread_resume
LEMMA StartupInv ==
  ASSUME IInv, NEW CONSTANT c, c \in Thread, NEW CONSTANT t, t \in Thread,
         Startup(c, t)
  PROVE  IInv'
<1> DEFINE x == [Kernel EXCEPT !.stat[t] = "SUSPEND"]
           y == [x EXCEPT !.yield[t] = FALSE]
<1>1. TypeOK /\ current_priority \in [Thread -> Priority] /\ arg \in [Thread -> Thread]
  BY DEF IInv, TypeOK
<1>2. /\ cpu = c /\ rt_current_thread = c /\ ~flag /\ isr = "none" /\ pc[c] = "run"
      /\ stat[c] = "RUNNING" /\ c \notin DeletedSet
  BY AtFacts DEF Startup
<1>3. /\ stat[t] = "INIT" /\ t # c /\ ~Deleting(t) /\ t \notin DeletedSet
      /\ pc' = [pc EXCEPT ![c] = "startup"] /\ arg' = [arg EXCEPT ![c] = t]
  BY <1>2, NotDeletedFacts DEF Startup
<1>4. /\ KInv(Kernel, DeletedSet, current_priority) /\ t # Idle
      /\ t # Kernel.current /\ Kernel.stat[t] = "INIT"
  BY <1>2, <1>3, KernelFields DEF IInv, KInv, KRun
<1>5. /\ KInv(x, DeletedSet, current_priority)
      /\ x.stat = [Kernel.stat EXCEPT ![t] = "SUSPEND"] /\ x.current = Kernel.current
      /\ x.group = Kernel.group
  BY <1>4, SetStatInv
<1>6. /\ x.yield = yield /\ x.table = table /\ x.defunct = defunct /\ x.group = group
      /\ x.waiting = waiting
  BY KernelFields DEF Kernel
<1> HIDE DEF x
<1>7. /\ KInv(y, DeletedSet, current_priority)
      /\ y.stat = x.stat /\ y.current = x.current /\ y.group = x.group
  <2>1. KInv(x, DeletedSet, current_priority) /\ t \in Thread
    BY <1>5
  <2> QED
    BY ONLY <2>1, YieldInv
<1>8. /\ y.yield = [yield EXCEPT ![t] = FALSE] /\ y.table = table /\ y.defunct = defunct
      /\ y.waiting = waiting
  BY <1>5, <1>6 DEF KInv, KType
<1> HIDE DEF y
<1>9. Commit(y)
  BY <1>5, <1>6, <1>7, <1>8, KernelFields DEF Commit, Startup
<1>10. /\ Kernel' = y /\ KernelTypeOK' /\ stat' = [stat EXCEPT ![t] = "SUSPEND"]
       /\ group' = group /\ rt_current_thread' = c
  BY <1>2, <1>5, <1>6, <1>7, <1>9, CommitFacts, KernelFields DEF KInv
<1>11. /\ \A d \in Thread : d # c => pc'[d] = pc[d] /\ arg'[d] = arg[d]
       /\ pc'[c] = "startup" /\ arg'[c] = t
       /\ \A v \in Thread : v # t => stat'[v] = stat[v]
       /\ stat'[t] = "SUSPEND"
       /\ UNCHANGED <<thread_timer, lock_nest, current_priority, deferred, flag, from, to, cpu>>
  BY <1>1, <1>3, <1>10 DEF TypeOK, Startup
<1>12. DeletedSet' = DeletedSet /\ \A v \in Thread : Deleting(v)' <=> Deleting(v)
  BY <1>2, <1>11, DeletedSame
<1>13. KInv(Kernel, DeletedSet, current_priority)'
  BY <1>7, <1>10, <1>11, <1>12
<1>14. TypeOK'
  <2>1. pc' \in [Thread -> PC] /\ arg' \in [Thread -> Thread]
    BY <1>1, <1>3 DEF TypeOK, PC
  <2> QED
    BY <1>1, <1>10, <2>1 DEF TypeOK, Startup, KernelTypeOK
<1>15. ContextExact' /\ TimeoutAssertion'
  BY <1>2, <1>10, <1>11 DEF IInv, ContextExact, TimeoutAssertion
<1>16. DeleteWindow'
  <2>1. \A d \in Thread : pc[d] = "delete" /\ d # c => arg[d] # c /\ arg[d] # t
    BY <1>2, <1>3 DEF DeletedSet, DeletedByOther, Deleting
  <2> QED
    BY <1>1, <1>2, <1>3, <1>11, <2>1 DEF IInv, DeleteWindow
<1>17. ResumeWindow'
  <2>1. ASSUME NEW d \in Thread, pc'[d] \in {"resume", "startup"}
        PROVE  /\ stat'[d] \in {"READY", "RUNNING"}
               /\ arg'[d] # d /\ stat'[arg'[d]] \in {"READY", "RUNNING", "SUSPEND"}
               /\ ~Deleting(arg'[d]) /\ arg'[d] \in Thread
    <3>1. CASE d = c
      BY <1>2, <1>3, <1>11, <3>1
    <3>2. CASE d # c
      <4>1. pc[d] \in {"resume", "startup"} /\ arg'[d] = arg[d]
        BY <1>11, <2>1, <3>2
      <4>2. /\ stat[d] \in {"READY", "RUNNING"} /\ arg[d] \in Thread /\ arg[d] # d
            /\ stat[arg[d]] \in {"READY", "RUNNING", "SUSPEND"} /\ ~Deleting(arg[d])
        BY <1>1, <4>1 DEF IInv, ResumeWindow
      <4> QED
        BY <1>3, <1>11, <4>1, <4>2
    <3> QED
      BY <3>1, <3>2
  <2> QED
    BY <1>12, <2>1 DEF ResumeWindow
<1>18. RunningUnlessScheduling'
  BY <1>2, <1>3, <1>10, <1>11 DEF RunningUnlessScheduling
<1>19. HighestPriorityRuns'
  BY <1>2, <1>3, <1>10, <1>11 DEF IInv, HighestPriorityRuns
<1> QED
  BY <1>13, <1>14, <1>15, <1>16, <1>17, <1>18, <1>19 DEF IInv

\* rt_thread_startup, the rest: the thread waits to be resumed, or has been already
LEMMA StartupActInv ==
  ASSUME IInv, NEW CONSTANT c, c \in Thread, StartupAct(c)
  PROVE  IInv'
<1> DEFINE t == arg[c]
           x == Resumed(Kernel, t)
<1>1. TypeOK /\ current_priority \in [Thread -> Priority] /\ t \in Thread
  BY DEF IInv, TypeOK
<1>2. KInv(Kernel, DeletedSet, current_priority)
  BY DEF IInv
<1>3. /\ cpu = c /\ rt_current_thread = c /\ ~flag /\ isr = "none" /\ pc[c] = "startup"
      /\ stat[c] = "RUNNING"
  BY AtFacts DEF StartupAct
<1>4. t # c /\ stat[t] \in {"READY", "SUSPEND"} /\ t \notin DeletedSet
  <2>1. t # c /\ stat[t] \in {"READY", "RUNNING", "SUSPEND"} /\ ~Deleting(t)
    BY <1>3 DEF IInv, ResumeWindow
  <2>2. stat[t] # "RUNNING"
    BY <1>1, <1>2, <1>3, <2>1, KernelFields DEF KInv, KRun
  <2> QED
    BY <2>1, <2>2 DEF Deleting, DeletedSet, DeletedByOther
<1>5. PICK u : /\ KInv(u, DeletedSet, current_priority) /\ u.current = c
               /\ Commit(u)
               /\ \/ /\ u.stat = [stat EXCEPT ![t] = "READY"]
                     /\ thread_timer' = [thread_timer EXCEPT ![t] = FALSE]
                  \/ u.stat = stat /\ thread_timer' = thread_timer
  <2>1. CASE Commit(x) /\ thread_timer' = [thread_timer EXCEPT ![t] = FALSE]
    <3>1. /\ KInv(x, DeletedSet, current_priority) /\ x.current = Kernel.current
          /\ x.stat = [Kernel.stat EXCEPT
                         ![t] = IF t = Kernel.current THEN "RUNNING" ELSE "READY"]
      <4> HIDE DEF t
      <4>1. Kernel.stat[t] \in {"SUSPEND", "READY"}
        BY <1>4, KernelFields
      <4> QED
        BY <1>1, <1>2, <1>4, <4>1, ResumedInv
    <3> HIDE DEF x, t
    <3>2. x.stat = [stat EXCEPT ![t] = "READY"] /\ x.current = c
      BY <1>3, <1>4, <3>1, KernelFields
    <3> QED
      BY <2>1, <3>1, <3>2
  <2>2. CASE Commit(Kernel) /\ UNCHANGED thread_timer
    BY <1>2, <1>3, <2>2, KernelFields
  <2> QED
    BY <2>1, <2>2 DEF StartupAct
<1> HIDE DEF t
<1>6. Mild(u)
  BY <1>1, <1>3, <1>4, <1>5 DEF Mild, StartupAct, Becomes, TypeOK
<1>7. Kept(u)
  BY <1>5, <1>6, MildStep
<1>8. TypeOK'
  <2>1. thread_timer' \in [Thread -> BOOLEAN]
    BY <1>1, <1>5 DEF TypeOK
  <2> QED
    BY <1>1, <1>7, <2>1 DEF TypeOK, StartupAct, Becomes, PC, Kept, KernelTypeOK
<1>9. ContextExact'
  BY <1>3, <1>5, <1>7 DEF ContextExact, StartupAct, Kept
<1>10. /\ stat'[c] = "RUNNING" /\ rt_current_thread' = c /\ pc'[c] = "schedule"
       /\ arg'[c] = c
  BY <1>1, <1>3, <1>4, <1>5, <1>7 DEF Kept, StartupAct, Becomes, TypeOK
<1>11. RunningUnlessScheduling' /\ HighestPriorityRuns'
  BY <1>10 DEF RunningUnlessScheduling, HighestPriorityRuns
<1> QED
  BY <1>7, <1>8, <1>9, <1>11 DEF IInv, Kept

\* An IPC call that wakes a thread
LEMMA WakeInv ==
  ASSUME IInv, NEW CONSTANT c, c \in Thread, NEW CONSTANT t, t \in Thread,
         Wake(c, t)
  PROVE  IInv'
<1> DEFINE u == Resumed(Kernel, t)
<1>1. TypeOK /\ current_priority \in [Thread -> Priority]
  BY DEF IInv, TypeOK
<1>2. KInv(Kernel, DeletedSet, current_priority)
  BY DEF IInv
<1>3. /\ cpu = c /\ rt_current_thread = c /\ ~flag /\ isr = "none" /\ pc[c] = "run"
      /\ stat[c] = "RUNNING"
  BY AtFacts DEF Wake
<1>4. t \notin DeletedSet /\ stat[t] = "SUSPEND" /\ Commit(u)
  BY NotDeletedFacts DEF Wake
<1>5. /\ KInv(u, DeletedSet, current_priority) /\ u.current = Kernel.current
      /\ u.stat = [Kernel.stat EXCEPT ![t] = IF t = Kernel.current THEN "RUNNING" ELSE "READY"]
  BY <1>1, <1>2, <1>4, KernelFields, ResumedInv
<1> HIDE DEF u
<1>6. u.stat = [stat EXCEPT ![t] = "READY"] /\ u.current = c
  BY <1>1, <1>3, <1>4, <1>5, KernelFields DEF TypeOK
<1>7. Mild(u)
  BY <1>1, <1>3, <1>4, <1>6 DEF Mild, Wake, Becomes, TypeOK
<1>8. Kept(u)
  BY <1>4, <1>5, <1>7, MildStep
<1>9. TypeOK'
  BY <1>1, <1>8 DEF TypeOK, Wake, Becomes, PC, Kept, KernelTypeOK
<1>10. ContextExact'
  BY <1>3, <1>6, <1>8 DEF ContextExact, Wake, Kept
<1>11. pc'[c] = "schedule" /\ arg' = arg /\ lock_nest' = lock_nest
  BY <1>1 DEF Wake, Becomes, TypeOK
<1>12. RunningUnlessScheduling' /\ HighestPriorityRuns'
  BY <1>1, <1>3, <1>4, <1>6, <1>8, <1>11
  DEF RunningUnlessScheduling, HighestPriorityRuns, TypeOK, Kept
<1> QED
  BY <1>8, <1>9, <1>10, <1>12 DEF IInv, Kept

\* The rt_schedule at the end of a kernel call
LEMMA RescheduleInv ==
  ASSUME IInv, NEW CONSTANT c, c \in Thread, Reschedule(c)
  PROVE  IInv'
<1> DEFINE u == rt_schedule(Kernel)
<1>1. TypeOK
  BY DEF IInv
<1>2. KInv(Kernel, DeletedSet, current_priority) /\ Kernel.current = rt_current_thread
  BY KernelFields DEF IInv
<1>3. cpu = c /\ rt_current_thread = c /\ ~flag /\ isr = "none" /\ pc[c] = "schedule"
  BY AtFacts DEF Reschedule
<1>4. Commit(u) /\ ThreadSwitch(u)
  BY DEF Reschedule
<1>5. Mild(Kernel)
  BY <1>1, <1>3, KernelFields DEF Mild, Reschedule, Becomes, TypeOK
<1>6. Kept(u) /\ RunningUnlessScheduling' /\ HighestPriorityRuns'
  BY <1>2, <1>4, <1>5, ScheduledStep DEF Reschedule
<1> HIDE DEF u
<1>7. ContextExact'
  BY <1>3, <1>4, <1>6 DEF ContextExact, Reschedule, Kept, ThreadSwitch
<1>8. TypeOK'
  BY <1>1, <1>3, <1>4, <1>6
     DEF TypeOK, Reschedule, Becomes, PC, Kept, KernelTypeOK, ThreadSwitch
<1> QED
  BY <1>6, <1>7, <1>8 DEF IInv, Kept

\* rt_thread_yield
LEMMA YieldStepInv ==
  ASSUME IInv, NEW CONSTANT c, c \in Thread, Yield(c)
  PROVE  IInv'
<1> DEFINE y == [Kernel EXCEPT !.yield[c] = TRUE]
           u == rt_schedule(y)
<1>1. TypeOK
  BY DEF IInv
<1>2. cpu = c /\ rt_current_thread = c /\ ~flag /\ isr = "none" /\ pc[c] = "run"
  BY AtFacts DEF Yield
<1>3. /\ KInv(y, DeletedSet, current_priority)
      /\ y.stat = Kernel.stat /\ y.current = Kernel.current
  <2> HIDE DEF u
  <2>1. KInv(Kernel, DeletedSet, current_priority) /\ c \in Thread
    BY DEF IInv
  <2> QED
    BY ONLY <2>1, YieldInv
<1>4. Commit(u) /\ ThreadSwitch(u)
  BY DEF Yield
<1> HIDE DEF y
<1>5. Mild(y)
  BY <1>1, <1>3, KernelFields DEF Mild, Yield, TypeOK
<1>6. Kept(u) /\ RunningUnlessScheduling' /\ HighestPriorityRuns'
  BY <1>3, <1>4, <1>5, KernelFields, ScheduledStep DEF Yield
<1> HIDE DEF u
<1>7. ContextExact'
  BY <1>2, <1>4, <1>6 DEF ContextExact, Yield, Kept, ThreadSwitch
<1>8. TypeOK'
  BY <1>1, <1>2, <1>4, <1>6, InitTickAssumption
  DEF TypeOK, Yield, Kept, KernelTypeOK, ThreadSwitch
<1> QED
  BY <1>6, <1>7, <1>8 DEF IInv, Kept

\* The context switch of an interrupt handler
LEMMA IsrSwitchInv ==
  ASSUME IInv, NEW STATE k, isr # "none", isr' # "none", IsrSwitch(k),
         rt_current_thread' = k.current, k.current \in Thread
  PROVE  ContextExact' /\ flag' \in BOOLEAN /\ from' \in Thread /\ to' \in Thread /\ cpu' \in Thread
BY DEF IInv, TypeOK, ContextExact, IsrSwitch, rt_hw_context_switch_interrupt

\* A handler that wakes a suspended thread and reschedules
LEMMA IsrWakeInv ==
  ASSUME IInv, NEW CONSTANT t, t \in Thread, stat[t] = "SUSPEND", t \notin DeletedSet,
         isr # "none", isr' = isr,
         thread_timer' = [thread_timer EXCEPT ![t] = FALSE],
         LET k == rt_schedule(Resumed(Kernel, t)) IN Commit(k) /\ IsrSwitch(k),
         deferred' = (deferred /\ ~Settles),
         UNCHANGED <<current_priority, remaining_tick, lock_nest, pc, arg>>
  PROVE  IInv' /\ (FlagInv => FlagInv')
<1> DEFINE x == Resumed(Kernel, t)
           u == rt_schedule(x)
<1>1. TypeOK /\ current_priority \in [Thread -> Priority]
  BY DEF IInv, TypeOK
<1>2. /\ KInv(x, DeletedSet, current_priority) /\ x.current = Kernel.current
      /\ x.stat = [Kernel.stat EXCEPT ![t] = IF t = Kernel.current THEN "RUNNING" ELSE "READY"]
  <2>1. /\ KInv(Kernel, DeletedSet, current_priority)
        /\ Kernel.stat[t] \in {"SUSPEND", "READY"}
    BY KernelFields DEF IInv
  <2> QED
    BY <1>1, <2>1, ResumedInv
<1>3. Commit(u) /\ IsrSwitch(u)
  OBVIOUS
<1> HIDE DEF x
<1>4. Mild(x)
  BY <1>1, <1>2, KernelFields DEF Mild, TypeOK
<1>5. /\ Kept(u) /\ RunningUnlessScheduling' /\ HighestPriorityRuns'
      /\ lock_nest = 0 => stat'[rt_current_thread'] = "RUNNING"
      /\ lock_nest # 0 => rt_current_thread' = rt_current_thread
  BY <1>2, <1>3, <1>4, KernelFields, ScheduledStep
<1> HIDE DEF u
<1>6. /\ ContextExact' /\ flag' \in BOOLEAN /\ from' \in Thread /\ to' \in Thread
      /\ cpu' \in Thread
  BY <1>3, <1>5, IsrSwitchInv DEF Kept, KernelTypeOK
<1>7. TypeOK'
  BY <1>1, <1>5, <1>6 DEF TypeOK, Kept, KernelTypeOK
<1>8. FlagInv => FlagInv'
  BY <1>3, <1>5 DEF FlagInv, IsrSwitch, rt_hw_context_switch_interrupt, Kept
<1> QED
  BY <1>5, <1>6, <1>7, <1>8 DEF IInv, Kept

\* _thread_timeout: a running timer belongs to a thread that nobody deletes
LEMMA TimeoutInv ==
  ASSUME IInv, NEW CONSTANT t, t \in Thread, _thread_timeout(t)
  PROVE  IInv' /\ (FlagInv => FlagInv')
<1>1. stat[t] = "SUSPEND"
  BY DEF IInv, TimeoutAssertion, _thread_timeout
<1>2. t \notin DeletedSet
  BY DEF IInv, DeleteWindow, DeletedSet, DeletedByOther, _thread_timeout
<1> QED
  BY <1>1, <1>2, IsrWakeInv DEF _thread_timeout

\* A driver's handler wakes a thread
LEMMA DeviceWakeInv ==
  ASSUME IInv, NEW CONSTANT t, t \in Thread, DeviceWake(t)
  PROVE  IInv' /\ (FlagInv => FlagInv')
<1>1. t \notin DeletedSet
  BY NotDeletedFacts DEF DeviceWake
<1> QED
  BY <1>1, IsrWakeInv DEF DeviceWake

\* rt_tick_increase
LEMMA TickInv ==
  ASSUME IInv, rt_tick_increase
  PROVE  IInv' /\ (FlagInv => FlagInv')
<1> DEFINE c == rt_current_thread
           y == [Kernel EXCEPT !.yield[c] = TRUE]
<1>1. TypeOK /\ c \in Thread
  BY DEF IInv, TypeOK
<1>2. KInv(Kernel, DeletedSet, current_priority) /\ Kernel.current = rt_current_thread
  BY KernelFields DEF IInv
<1>3. isr = "tick" /\ isr' = "timer_check"
  BY DEF rt_tick_increase
<1>4. remaining_tick' \in [Thread -> Nat \ {0}]
  BY <1>1, InitTickAssumption DEF TypeOK, rt_tick_increase
<1>5. CASE remaining_tick[c] = 1
  <2> DEFINE u == rt_schedule(y)
  <2>1. /\ KInv(y, DeletedSet, current_priority)
        /\ y.stat = Kernel.stat /\ y.current = Kernel.current
    <3> HIDE DEF u, c
    <3> QED
      BY ONLY <1>1, <1>2, YieldInv
  <2>2. Commit(u) /\ IsrSwitch(u) /\ deferred' = (deferred /\ ~Settles)
    BY <1>5 DEF rt_tick_increase
  <2> HIDE DEF y
  <2>3. Mild(y)
    BY <1>1, <2>1, KernelFields DEF Mild, rt_tick_increase, TypeOK
  <2>4. /\ Kept(u) /\ RunningUnlessScheduling' /\ HighestPriorityRuns'
        /\ lock_nest = 0 => stat'[rt_current_thread'] = "RUNNING"
        /\ lock_nest # 0 => rt_current_thread' = rt_current_thread
    BY <1>2, <2>1, <2>2, <2>3, ScheduledStep DEF rt_tick_increase
  <2> HIDE DEF u
  <2>5. /\ ContextExact' /\ flag' \in BOOLEAN /\ from' \in Thread /\ to' \in Thread
        /\ cpu' \in Thread
    BY <1>3, <2>2, <2>4, IsrSwitchInv DEF Kept, KernelTypeOK
  <2>6. TypeOK'
    BY <1>1, <1>3, <1>4, <2>2, <2>4, <2>5
       DEF TypeOK, Kept, KernelTypeOK, rt_tick_increase, Isr
  <2>7. FlagInv => FlagInv'
    BY <2>2, <2>4
       DEF FlagInv, IsrSwitch, rt_hw_context_switch_interrupt, Kept, rt_tick_increase
  <2> QED
    BY <2>4, <2>5, <2>6, <2>7 DEF IInv, Kept
<1>6. CASE remaining_tick[c] # 1
  <2>1. Commit(Kernel) /\ IsrSwitch(Kernel) /\ deferred' = deferred
    BY <1>1, <1>6 DEF rt_tick_increase, TypeOK
  <2>2. Mild(Kernel)
    BY <1>1, KernelFields DEF Mild, rt_tick_increase, TypeOK
  <2>3. Kept(Kernel)
    BY <1>2, <2>1, <2>2, MildStep
  <2>4. /\ stat' = stat /\ group' = group /\ rt_current_thread' = rt_current_thread
        /\ KernelTypeOK'
    BY <2>3, KernelFields DEF Kept
  <2>5. /\ ContextExact' /\ flag' \in BOOLEAN /\ from' \in Thread /\ to' \in Thread
        /\ cpu' \in Thread
    BY <1>1, <1>2, <1>3, <2>1, <2>4, IsrSwitchInv
  <2>6. TypeOK'
    BY <1>1, <1>3, <1>4, <2>1, <2>4, <2>5 DEF TypeOK, KernelTypeOK, rt_tick_increase, Isr
  <2>7. RunningUnlessScheduling' /\ HighestPriorityRuns'
    BY <2>1, <2>4 DEF IInv, RunningUnlessScheduling, HighestPriorityRuns, rt_tick_increase
  <2>8. FlagInv => FlagInv'
    BY <1>2, <2>1, <2>4 DEF FlagInv, IsrSwitch, rt_tick_increase
  <2> QED
    BY <2>3, <2>5, <2>6, <2>7, <2>8 DEF IInv, Kept
<1> QED
  BY <1>5, <1>6

\* A step that leaves the kernel's shared state and the threads' programs alone
LEMMA QuietStep ==
  ASSUME IInv, UNCHANGED <<stat, yield, table, group, defunct, waiting, rt_current_thread,
                           current_priority, thread_timer, pc, arg>>
  PROVE  Kept(Kernel)
<1>1. KInv(Kernel, DeletedSet, current_priority) /\ Commit(Kernel) /\ Mild(Kernel)
  BY KernelFields DEF IInv, Commit, Mild
<1> QED
  BY <1>1, MildStep

\* vector_irq, entry
LEMMA IrqEnterInv ==
  ASSUME IInv, NEW CONSTANT kind, kind \in {"tick", "device"}, IrqEnter(kind)
  PROVE  IInv'
<1>1. Kept(Kernel)
  BY QuietStep DEF IrqEnter
<1>2. TypeOK'
  BY DEF IInv, TypeOK, IrqEnter, Isr
<1>3. ContextExact' /\ RunningUnlessScheduling' /\ HighestPriorityRuns'
  BY DEF IInv, ContextExact, RunningUnlessScheduling, HighestPriorityRuns, IrqEnter
<1> QED
  BY <1>1, <1>2, <1>3 DEF IInv, Kept

\* vector_irq, exit
LEMMA IrqLeaveInv ==
  ASSUME IInv, IrqLeave
  PROVE  IInv'
<1>1. Kept(Kernel)
  BY QuietStep DEF IrqLeave
<1>2. TypeOK'
  BY DEF IInv, TypeOK, IrqLeave, Isr
<1>3. ContextExact' /\ RunningUnlessScheduling' /\ HighestPriorityRuns'
  BY DEF IInv, ContextExact, RunningUnlessScheduling, HighestPriorityRuns, IrqLeave
<1> QED
  BY <1>1, <1>2, <1>3 DEF IInv, Kept

\* rt_enter_critical
LEMMA EnterCriticalInv ==
  ASSUME IInv, NEW CONSTANT c, c \in Thread, EnterCritical(c)
  PROVE  IInv'
<1>1. /\ cpu = c /\ rt_current_thread = c /\ ~flag /\ isr = "none" /\ pc[c] = "run"
      /\ stat[c] = "RUNNING"
  BY AtFacts DEF EnterCritical
<1>2. Kept(Kernel)
  BY QuietStep DEF EnterCritical
<1>3. TypeOK'
  BY BoundAssumption DEF IInv, TypeOK, EnterCritical
<1>4. ContextExact' /\ RunningUnlessScheduling'
  BY <1>1 DEF IInv, ContextExact, RunningUnlessScheduling, EnterCritical
<1>5. HighestPriorityRuns'
  BY BoundAssumption DEF IInv, TypeOK, HighestPriorityRuns, EnterCritical
<1> QED
  BY <1>2, <1>3, <1>4, <1>5 DEF IInv, Kept

\* rt_exit_critical
LEMMA ExitCriticalInv ==
  ASSUME IInv, NEW CONSTANT c, c \in Thread, ExitCritical(c)
  PROVE  IInv'
<1>1. /\ cpu = c /\ rt_current_thread = c /\ ~flag /\ isr = "none" /\ pc[c] = "run"
      /\ stat[c] = "RUNNING" /\ lock_nest \in Nat /\ pc \in [Thread -> PC]
  BY AtFacts, BoundAssumption DEF ExitCritical, IInv, TypeOK
<1>2. Kept(Kernel)
  <2>1. KInv(Kernel, DeletedSet, current_priority) /\ Commit(Kernel)
    BY DEF IInv, Commit, Kernel, ExitCritical
  <2>2. Mild(Kernel)
    BY <1>1, KernelFields DEF Mild, ExitCritical, Becomes
  <2> QED
    BY <2>1, <2>2, MildStep
<1>3. TypeOK'
  <2>1. lock_nest' \in 0 .. MaxNest
    BY <1>1, BoundAssumption DEF IInv, TypeOK, ExitCritical
  <2>2. pc' \in [Thread -> PC]
    BY <1>1 DEF ExitCritical, Becomes, PC
  <2> QED
    BY <2>1, <2>2 DEF IInv, TypeOK, ExitCritical
<1>4. ContextExact'
  BY DEF IInv, ContextExact, ExitCritical
<1>5. CASE lock_nest <= 1
  <2>1. lock_nest' = 0 /\ pc'[rt_current_thread'] = "schedule"
    BY <1>1, <1>5 DEF ExitCritical, Becomes
  <2>2. RunningUnlessScheduling' /\ HighestPriorityRuns'
    BY <2>1 DEF RunningUnlessScheduling, HighestPriorityRuns
  <2> QED
    BY <1>2, <1>3, <1>4, <2>2 DEF IInv, Kept
<1>6. CASE ~(lock_nest <= 1)
  <2>1. lock_nest' > 0 /\ lock_nest > 0 /\ UNCHANGED <<pc, arg, stat, rt_current_thread>>
    BY <1>1, <1>6 DEF ExitCritical
  <2>2. RunningUnlessScheduling' /\ HighestPriorityRuns'
    BY <2>1 DEF IInv, RunningUnlessScheduling, HighestPriorityRuns
  <2> QED
    BY <1>2, <1>3, <1>4, <2>2 DEF IInv, Kept
<1> QED
  BY <1>5, <1>6

\* rt_thread_resume, its check: the target stays set up until it is resumed
LEMMA ResumeCheckInv ==
  ASSUME IInv, NEW CONSTANT c, c \in Thread, NEW CONSTANT t, t \in Thread,
         ResumeCheck(c, t)
  PROVE  IInv'
<1>1. TypeOK
  BY DEF IInv
<1>2. /\ cpu = c /\ rt_current_thread = c /\ ~flag /\ isr = "none" /\ pc[c] = "run"
      /\ stat[c] = "RUNNING"
  BY AtFacts DEF ResumeCheck
<1>3. /\ stat[t] = "SUSPEND" /\ ~Deleting(t)
      /\ pc' = [pc EXCEPT ![c] = "resume"] /\ arg' = [arg EXCEPT ![c] = t]
  BY DEF ResumeCheck
<1>4. TypeOK'
  BY <1>1 DEF TypeOK, ResumeCheck, PC
<1>5. /\ \A d \in Thread : d # c => pc'[d] = pc[d] /\ arg'[d] = arg[d]
      /\ pc'[c] = "resume" /\ arg'[c] = t
  BY <1>1, <1>3 DEF TypeOK
<1>6. DeletedSet' = DeletedSet /\ \A v \in Thread : Deleting(v)' <=> Deleting(v)
  BY <1>2, <1>5, DeletedSame
<1>7. KInv(Kernel, DeletedSet, current_priority)'
  <2>1. Kernel' = Kernel /\ current_priority' = current_priority
    BY DEF Kernel, ResumeCheck
  <2> QED
    BY <1>6, <2>1 DEF IInv
<1>8. ContextExact' /\ TimeoutAssertion'
  BY DEF IInv, ContextExact, TimeoutAssertion, ResumeCheck
<1>9. DeleteWindow'
  <2>1. \A d \in Thread : pc[d] = "delete" /\ d # c => arg[d] # c
    BY <1>2, AtFacts DEF ResumeCheck, DeletedSet, DeletedByOther
  <2> QED
    BY <1>1, <1>2, <1>5, <2>1 DEF IInv, DeleteWindow, ResumeCheck, TypeOK
<1>10. ResumeWindow'
  <2>1. arg \in [Thread -> Thread] /\ stat' = stat /\ t # c
    BY <1>1, <1>2, <1>3 DEF TypeOK, ResumeCheck
  <2>2. ASSUME NEW d \in Thread, pc'[d] \in {"resume", "startup"}
        PROVE  /\ stat[d] \in {"READY", "RUNNING"}
               /\ arg'[d] # d /\ stat[arg'[d]] \in {"READY", "RUNNING", "SUSPEND"}
               /\ ~Deleting(arg'[d]) /\ arg'[d] \in Thread
    <3>1. CASE d = c
      BY <1>2, <1>3, <1>5, <2>1, <3>1
    <3>2. CASE d # c
      BY <1>5, <2>1, <2>2, <3>2 DEF IInv, ResumeWindow
    <3> QED
      BY <3>1, <3>2
  <2> QED
    BY <1>6, <2>1, <2>2 DEF ResumeWindow
<1>11. RunningUnlessScheduling' /\ HighestPriorityRuns'
  BY <1>2, <1>5 DEF IInv, RunningUnlessScheduling, HighestPriorityRuns, ResumeCheck
<1> QED
  BY <1>4, <1>7, <1>8, <1>9, <1>10, <1>11 DEF IInv

\* rt_thread_resume, the rest: the target still waits, or is ready already
LEMMA ResumeActInv ==
  ASSUME IInv, NEW CONSTANT c, c \in Thread, ResumeAct(c)
  PROVE  IInv'
<1> DEFINE t == arg[c]
           u == Resumed(Kernel, t)
<1>1. TypeOK /\ current_priority \in [Thread -> Priority] /\ t \in Thread
  BY DEF IInv, TypeOK
<1>2. KInv(Kernel, DeletedSet, current_priority)
  BY DEF IInv
<1>3. /\ cpu = c /\ rt_current_thread = c /\ ~flag /\ isr = "none" /\ pc[c] = "resume"
      /\ stat[c] = "RUNNING"
  BY AtFacts DEF ResumeAct
<1>4. t # c /\ stat[t] \in {"READY", "SUSPEND"} /\ t \notin DeletedSet
  <2>1. t # c /\ stat[t] \in {"READY", "RUNNING", "SUSPEND"} /\ ~Deleting(t)
    BY <1>3 DEF IInv, ResumeWindow
  <2>2. stat[t] # "RUNNING"
    BY <1>1, <1>2, <1>3, <2>1, KernelFields DEF KInv, KRun
  <2> QED
    BY <2>1, <2>2 DEF Deleting, DeletedSet, DeletedByOther
<1> HIDE DEF t
<1>5. /\ KInv(u, DeletedSet, current_priority) /\ u.current = Kernel.current
      /\ u.stat = [Kernel.stat EXCEPT ![t] = IF t = Kernel.current THEN "RUNNING" ELSE "READY"]
  <2>1. Kernel.stat[t] \in {"SUSPEND", "READY"}
    BY <1>4, KernelFields
  <2> QED
    BY <1>1, <1>2, <1>4, <2>1, ResumedInv
<1>6. Commit(u)
  BY DEF ResumeAct, t
<1> HIDE DEF u
<1>7. u.stat = [stat EXCEPT ![t] = "READY"] /\ u.current = c
  BY <1>1, <1>3, <1>4, <1>5, KernelFields DEF TypeOK
<1>8. thread_timer' = [thread_timer EXCEPT ![t] = FALSE]
  BY DEF ResumeAct, t
<1>9. Mild(u)
  BY <1>1, <1>3, <1>4, <1>7, <1>8 DEF Mild, ResumeAct, Becomes, TypeOK
<1>10. Kept(u)
  BY <1>5, <1>6, <1>9, MildStep
<1>11. TypeOK'
  BY <1>1, <1>8, <1>10 DEF TypeOK, ResumeAct, Becomes, PC, Kept, KernelTypeOK
<1>12. ContextExact'
  BY <1>3, <1>7, <1>10 DEF ContextExact, ResumeAct, Kept
<1>13. stat'[c] = "RUNNING" /\ rt_current_thread' = c /\ pc'[c] = "run" /\ deferred'
  BY <1>1, <1>3, <1>4, <1>7, <1>10 DEF Kept, ResumeAct, Becomes, TypeOK
<1>14. RunningUnlessScheduling' /\ HighestPriorityRuns'
  BY <1>13 DEF RunningUnlessScheduling, HighestPriorityRuns
<1> QED
  BY <1>10, <1>11, <1>12, <1>14 DEF IInv, Kept

\* rt_thread_init, rt_thread_create
LEMMA ThreadInitInv ==
  ASSUME IInv, NEW CONSTANT c, c \in Thread, NEW CONSTANT t, t \in Thread,
         ThreadInit(c, t)
  PROVE  IInv'
<1> DEFINE x == [Kernel EXCEPT !.stat[t] = "INIT"]
           y == [x EXCEPT !.yield[t] = FALSE]
<1>1. TypeOK /\ current_priority \in [Thread -> Priority]
  BY DEF IInv, TypeOK
<1>2. /\ cpu = c /\ rt_current_thread = c /\ ~flag /\ isr = "none" /\ pc[c] = "run"
      /\ stat[c] = "RUNNING"
  BY AtFacts DEF ThreadInit
<1>3. stat[t] = "NULL" /\ t # c
  BY <1>2 DEF ThreadInit
<1>4. /\ KInv(Kernel, DeletedSet, current_priority) /\ t # Idle
      /\ t # Kernel.current /\ Kernel.stat[t] = "NULL"
  BY <1>2, <1>3, KernelFields DEF IInv, KInv, KRun
<1>5. /\ KInv(x, DeletedSet, current_priority)
      /\ x.stat = [Kernel.stat EXCEPT ![t] = "INIT"] /\ x.current = Kernel.current
      /\ x.group = Kernel.group
  BY <1>4, SetStatInv
<1>6. /\ x.yield = yield /\ x.table = table /\ x.defunct = defunct /\ x.group = group
      /\ x.waiting = waiting
  BY KernelFields DEF Kernel
<1> HIDE DEF x
<1>7. /\ KInv(y, DeletedSet, current_priority)
      /\ y.stat = x.stat /\ y.current = x.current /\ y.group = x.group
  <2>1. KInv(x, DeletedSet, current_priority) /\ t \in Thread
    BY <1>5
  <2> QED
    BY ONLY <2>1, YieldInv
<1>8. /\ y.yield = [yield EXCEPT ![t] = FALSE] /\ y.table = table /\ y.defunct = defunct
      /\ y.waiting = waiting
  BY <1>5, <1>6 DEF KInv, KType
<1> HIDE DEF y
<1>9. KInv(y, DeletedSet, [current_priority EXCEPT ![t] = InitPriority[t]])
  <2>1. y.stat[t] # "READY" /\ InitPriority[t] \in Priority
    BY <1>1, <1>5, <1>7, KernelFields, InitPriorityAssumption DEF TypeOK
  <2> QED
    BY <1>1, <1>7, <2>1, RenumberedInv
<1>10. Commit(y)
  BY <1>5, <1>6, <1>7, <1>8, KernelFields DEF Commit, ThreadInit
<1>11. /\ Kernel' = y /\ KernelTypeOK' /\ stat' = y.stat /\ group' = group
  BY <1>6, <1>7, <1>10, CommitFacts DEF KInv
<1>12. pc[t] \notin {"delete", "resume", "startup"}
  BY <1>3 DEF IInv, DeleteWindow, ResumeWindow
<1>13. /\ \A d \in Thread : d # t => pc'[d] = pc[d]
       /\ pc'[t] = "run" /\ arg' = arg
       /\ \A v \in Thread : v # t => stat'[v] = stat[v] /\ thread_timer'[v] = thread_timer[v]
       /\ stat'[t] = "INIT" /\ ~thread_timer'[t]
       /\ rt_current_thread' = rt_current_thread /\ lock_nest' = lock_nest
  BY <1>1 DEF TypeOK, ThreadInit
<1>14. DeletedSet' = DeletedSet /\ \A v \in Thread : Deleting(v)' <=> Deleting(v)
  BY <1>12, <1>13, DeletedSame
<1>15. KInv(Kernel, DeletedSet, current_priority)'
  BY <1>9, <1>11, <1>14 DEF ThreadInit
<1>16. TypeOK'
  BY <1>1, <1>11, InitPriorityAssumption, InitTickAssumption
  DEF TypeOK, ThreadInit, KernelTypeOK, PC
<1>17. ContextExact' /\ TimeoutAssertion'
  BY <1>13 DEF IInv, ContextExact, TimeoutAssertion, ThreadInit
<1>18. arg \in [Thread -> Thread]
  BY <1>1 DEF TypeOK
<1>19. DeleteWindow'
  BY <1>3, <1>13, <1>18 DEF IInv, DeleteWindow
<1>20. ResumeWindow'
  BY <1>3, <1>13, <1>14, <1>18 DEF IInv, ResumeWindow
<1>21. RunningUnlessScheduling'
  BY <1>2, <1>3, <1>13 DEF IInv, RunningUnlessScheduling
<1>22. HighestPriorityRuns'
  <2>1. current_priority'[c] = current_priority[c] /\ deferred' = deferred
    BY <1>1, <1>3 DEF ThreadInit
  <2> QED
    BY <1>2, <1>3, <1>11, <1>13, <2>1 DEF IInv, HighestPriorityRuns
<1> QED
  BY <1>15, <1>16, <1>17, <1>19, <1>20, <1>21, <1>22 DEF IInv

\* A suspended thread may be put in the wait list of an object.
LEMMA ListedInv ==
  ASSUME NEW STATE k, NEW STATE D, NEW STATE t, t \in Thread, NEW STATE b,
         KInv(k, D, current_priority), k.stat[t] = "SUSPEND", t \notin D
  PROVE  LET u == [k EXCEPT !.waiting = IF b THEN @ \cup {t} ELSE @] IN
         KInv(u, D, current_priority) /\ u.stat = k.stat /\ u.current = k.current
<1> DEFINE u == [k EXCEPT !.waiting = IF b THEN @ \cup {t} ELSE @]
<1>1. KType(k)
  BY DEF KInv
<1>2. /\ KType(u) /\ u.stat = k.stat /\ u.table = k.table /\ u.current = k.current
      /\ u.group = k.group /\ u.defunct = k.defunct
      /\ u.waiting \subseteq k.waiting \cup {t}
  BY <1>1 DEF KType
<1> HIDE DEF u
<1>3. KInv(u, D, current_priority)
  BY <1>2 DEF KInv, KLists, KGroup, KReady, KListed, KDefunct, KWait, KRun
<1> QED
  BY <1>2, <1>3 DEF u

\* rt_thread_sleep and the blocking IPC calls
LEMMA BlockInv ==
  ASSUME IInv, NEW CONSTANT c, c \in Thread, NEW CONSTANT timed, timed \in BOOLEAN,
         NEW CONSTANT listed, listed \in BOOLEAN, Block(c, timed, listed)
  PROVE  IInv'
<1> DEFINE x == rt_schedule_remove_thread(Kernel, Kernel.current)
           w == [x EXCEPT !.stat[c] = "SUSPEND"]
           y == [w EXCEPT !.waiting = IF listed THEN @ \cup {c} ELSE @]
<1>1. TypeOK /\ current_priority \in [Thread -> Priority]
  BY DEF IInv, TypeOK
<1>2. /\ cpu = c /\ rt_current_thread = c /\ ~flag /\ isr = "none" /\ pc[c] = "run"
      /\ stat[c] = "RUNNING" /\ c \notin DeletedSet
  BY AtFacts DEF Block
<1>3. /\ KInv(Kernel, DeletedSet, current_priority)
      /\ Kernel.current = c /\ Kernel.stat[Kernel.current] = "RUNNING"
  BY <1>2, KernelFields DEF IInv
<1>4. /\ KInv(x, DeletedSet, current_priority)
      /\ x.stat = Kernel.stat /\ x.current = Kernel.current
  BY <1>1, <1>3, RemoveCurrentInv
<1>5. Commit(y)
  BY <1>3 DEF Block, rt_thread_suspend
<1> HIDE DEF x
<1>6. /\ KInv(y, DeletedSet, current_priority)
      /\ y.stat = [x.stat EXCEPT ![c] = "SUSPEND"] /\ y.current = x.current
  <2>1. /\ KInv(w, DeletedSet, current_priority)
        /\ w.stat = [x.stat EXCEPT ![c] = "SUSPEND"] /\ w.current = x.current
    <3>1. c # Idle
      BY DEF Block
    <3> QED
      BY <1>3, <1>4, <3>1, SetStatInv
  <2>2. w.stat[c] = "SUSPEND"
    BY <1>4, <2>1 DEF KInv, KType
  <2> HIDE DEF w
  <2>3. /\ KInv(y, DeletedSet, current_priority)
        /\ y.stat = w.stat /\ y.current = w.current
    <3>1. KInv(w, DeletedSet, current_priority) /\ c \in Thread /\ c \notin DeletedSet
      BY <1>2, <2>1
    <3> QED
      BY ONLY <2>2, <3>1, ListedInv
  <2> QED
    BY <2>1, <2>3
<1> HIDE DEF y
<1>7. /\ Kernel' = y /\ KernelTypeOK' /\ stat' = [stat EXCEPT ![c] = "SUSPEND"]
      /\ rt_current_thread' = c
  BY <1>3, <1>4, <1>5, <1>6, CommitFacts, KernelFields DEF KInv
<1>8. /\ \A d \in Thread : d # c => pc'[d] = pc[d]
      /\ pc'[c] = "schedule" /\ arg' = arg /\ lock_nest' = lock_nest /\ lock_nest = 0
      /\ \A v \in Thread : v # c => stat'[v] = stat[v] /\ thread_timer'[v] = thread_timer[v]
      /\ stat'[c] = "SUSPEND"
  BY <1>1, <1>7 DEF TypeOK, Block, Becomes
<1>9. DeletedSet' = DeletedSet /\ \A v \in Thread : Deleting(v)' <=> Deleting(v)
  BY <1>2, <1>8, DeletedSame
<1>10. KInv(Kernel, DeletedSet, current_priority)'
  BY <1>6, <1>7, <1>9 DEF Block
<1>11. TypeOK'
  BY <1>1, <1>7 DEF TypeOK, Block, Becomes, KernelTypeOK, PC
<1>12. ContextExact' /\ TimeoutAssertion'
  BY <1>2, <1>7, <1>8 DEF IInv, ContextExact, TimeoutAssertion, Block
<1>13. arg \in [Thread -> Thread] /\ \A d \in Thread : pc[d] = "delete" => arg[d] # c
  BY <1>1, <1>2 DEF TypeOK, DeletedSet, DeletedByOther
<1>14. DeleteWindow'
  BY <1>8, <1>13 DEF IInv, DeleteWindow
<1>15. ResumeWindow'
  BY <1>8, <1>9, <1>13 DEF IInv, ResumeWindow
<1>16. RunningUnlessScheduling' /\ HighestPriorityRuns'
  BY <1>7, <1>8 DEF RunningUnlessScheduling, HighestPriorityRuns
<1> QED
  BY <1>10, <1>11, <1>12, <1>14, <1>15, <1>16 DEF IInv

\* _thread_exit
LEMMA ExitInv ==
  ASSUME IInv, NEW CONSTANT c, c \in Thread, Exit(c)
  PROVE  IInv'
<1> DEFINE x == rt_schedule_remove_thread(Kernel, Kernel.current)
           y == Closed(x, c)
<1>1. TypeOK /\ current_priority \in [Thread -> Priority]
  BY DEF IInv, TypeOK
<1>2. /\ cpu = c /\ rt_current_thread = c /\ ~flag /\ isr = "none" /\ pc[c] = "run"
      /\ stat[c] = "RUNNING" /\ c \notin DeletedSet
  BY AtFacts DEF Exit
<1>3. /\ KInv(Kernel, DeletedSet, current_priority)
      /\ Kernel.current = c /\ Kernel.stat[Kernel.current] = "RUNNING"
  BY <1>2, KernelFields DEF IInv
<1>4. /\ KInv(x, DeletedSet, current_priority)
      /\ x.stat = Kernel.stat /\ x.current = Kernel.current
  BY <1>1, <1>3, RemoveCurrentInv
<1>5. Commit(y)
  BY <1>3 DEF Exit
<1> HIDE DEF x
<1>6. /\ KInv(y, DeletedSet, current_priority)
      /\ y.stat = [x.stat EXCEPT ![c] = "CLOSE"] /\ y.current = x.current
  <2>1. c # Idle /\ x.stat[c] = "RUNNING"
    BY <1>3, <1>4 DEF Exit
  <2>2. c \notin x.waiting /\ \A q \in Priority : c \notin ToSet(x.table[q])
    BY <1>4, <2>1 DEF KInv, KReady, KWait
  <2> QED
    BY <1>4, <2>1, <2>2, ClosedInv
<1> HIDE DEF y
<1>7. /\ Kernel' = y /\ KernelTypeOK' /\ stat' = [stat EXCEPT ![c] = "CLOSE"]
      /\ rt_current_thread' = c
  BY <1>3, <1>4, <1>5, <1>6, CommitFacts, KernelFields DEF KInv
<1>8. /\ \A d \in Thread : d # c => pc'[d] = pc[d]
      /\ pc'[c] = "schedule" /\ arg' = arg /\ lock_nest' = lock_nest /\ lock_nest = 0
      /\ \A v \in Thread : v # c => stat'[v] = stat[v] /\ thread_timer'[v] = thread_timer[v]
      /\ ~thread_timer'[c]
  BY <1>1, <1>7 DEF TypeOK, Exit, Becomes
<1>9. DeletedSet' = DeletedSet /\ \A v \in Thread : Deleting(v)' <=> Deleting(v)
  BY <1>2, <1>8, DeletedSame
<1>10. KInv(Kernel, DeletedSet, current_priority)'
  BY <1>6, <1>7, <1>9 DEF Exit
<1>11. TypeOK'
  BY <1>1, <1>7 DEF TypeOK, Exit, Becomes, KernelTypeOK, PC
<1>12. ContextExact' /\ TimeoutAssertion'
  BY <1>2, <1>7, <1>8 DEF IInv, ContextExact, TimeoutAssertion, Exit
<1>13. /\ arg \in [Thread -> Thread]
       /\ \A d \in Thread : pc[d] \in {"delete", "resume", "startup"} => arg[d] # c
  BY <1>1 DEF TypeOK, Exit, Unpinned, Deleting, Resuming
<1>14. DeleteWindow'
  BY <1>8, <1>13 DEF IInv, DeleteWindow
<1>15. ResumeWindow'
  BY <1>8, <1>9, <1>13 DEF IInv, ResumeWindow
<1>16. RunningUnlessScheduling' /\ HighestPriorityRuns'
  BY <1>7, <1>8 DEF RunningUnlessScheduling, HighestPriorityRuns
<1> QED
  BY <1>10, <1>11, <1>12, <1>14, <1>15, <1>16 DEF IInv

\* rt_defunct_execute
LEMMA DefunctExecuteInv ==
  ASSUME IInv, DefunctExecute
  PROVE  IInv'
<1> DEFINE t == Head(Kernel.defunct)
           y == [Unlink(Kernel, t) EXCEPT !.stat[t] = "NULL"]
<1>1. TypeOK /\ current_priority \in [Thread -> Priority]
  BY DEF IInv, TypeOK
<1>2. /\ cpu = Idle /\ rt_current_thread = Idle /\ ~flag /\ isr = "none"
      /\ pc[Idle] = "run" /\ stat[Idle] = "RUNNING"
  BY AtFacts, ThreadAssumption DEF DefunctExecute
<1>3. /\ KInv(Kernel, DeletedSet, current_priority) /\ Kernel.defunct # <<>>
      /\ Kernel.stat[Kernel.current] = "RUNNING"
  BY <1>2, KernelFields DEF IInv, DefunctExecute
<1>4. Commit(y)
  BY KernelFields DEF DefunctExecute
<1>5. /\ KInv(y, DeletedSet, current_priority)
      /\ t \in Thread /\ Kernel.stat[t] = "CLOSE"
      /\ y.stat = [Kernel.stat EXCEPT ![t] = "NULL"] /\ y.current = Kernel.current
      /\ y.group = Kernel.group
  BY <1>1, <1>3, ReclaimInv
<1> HIDE DEF t, y
<1>6. /\ Kernel' = y /\ KernelTypeOK' /\ stat' = [stat EXCEPT ![t] = "NULL"]
      /\ rt_current_thread' = rt_current_thread /\ group' = group
  BY <1>4, <1>5, CommitFacts, KernelFields DEF KInv
<1>7. /\ \A v \in Thread : v # t => stat'[v] = stat[v]
      /\ stat[t] = "CLOSE" /\ t # Idle
      /\ UNCHANGED <<pc, arg, thread_timer, lock_nest, current_priority, deferred>>
  BY <1>1, <1>2, <1>5, <1>6, KernelFields DEF TypeOK, DefunctExecute
<1>8. DeletedSet' = DeletedSet /\ \A v \in Thread : Deleting(v)' <=> Deleting(v)
  BY <1>7, DeletedSame
<1>9. KInv(Kernel, DeletedSet, current_priority)'
  BY <1>5, <1>6, <1>7, <1>8
<1>10. TypeOK'
  BY <1>1, <1>6 DEF TypeOK, DefunctExecute, KernelTypeOK
<1>11. ContextExact' /\ TimeoutAssertion'
  BY <1>6, <1>7 DEF IInv, ContextExact, TimeoutAssertion, DefunctExecute
<1>12. arg \in [Thread -> Thread]
  BY <1>1 DEF TypeOK
<1>13. DeleteWindow'
  BY <1>7, <1>12 DEF IInv, DeleteWindow
<1>14. ResumeWindow'
  BY <1>7, <1>8, <1>12 DEF IInv, ResumeWindow
<1>15. RunningUnlessScheduling' /\ HighestPriorityRuns'
  BY <1>2, <1>6, <1>7, ThreadAssumption
     DEF IInv, RunningUnlessScheduling, HighestPriorityRuns
<1> QED
  BY <1>9, <1>10, <1>11, <1>13, <1>14, <1>15 DEF IInv

\* RT_THREAD_CTRL_CHANGE_PRIORITY
LEMMA ChangePriorityInv ==
  ASSUME IInv, NEW CONSTANT c, c \in Thread, NEW CONSTANT t, t \in Thread,
         NEW CONSTANT p, p \in Priority, ChangePriority(c, t, p)
  PROVE  IInv'
<1> DEFINE pr == [current_priority EXCEPT ![t] = p]
           x  == InsertAtPriority(rt_schedule_remove_thread(Kernel, t), t, p)
           u  == IF stat[t] = "READY" THEN x ELSE Kernel
<1>1. TypeOK /\ current_priority \in [Thread -> Priority]
  BY DEF IInv, TypeOK
<1>2. KInv(Kernel, DeletedSet, current_priority)
  BY DEF IInv
<1>3. t \notin DeletedSet /\ t # Idle
  BY NotDeletedFacts DEF ChangePriority
<1>4. Commit(u) /\ current_priority' = pr
  BY DEF ChangePriority
<1>5. KInv(u, DeletedSet, pr) /\ u.stat = Kernel.stat /\ u.current = Kernel.current
  <2>1. CASE stat[t] = "READY"
    <3>1. KInv(x, DeletedSet, pr) /\ x.stat = Kernel.stat /\ x.current = Kernel.current
      <4>1. /\ t \in Thread /\ p \in Priority
            /\ KInv(Kernel, DeletedSet, current_priority)
            /\ current_priority \in [Thread -> Priority]
        BY <1>1, <1>2
      <4>2. Kernel.stat[t] = "READY" /\ t # Idle /\ t \notin DeletedSet
        BY <1>3, <2>1, KernelFields
      <4> HIDE DEF u
      <4>3. pr[t] = p /\ \A v \in Thread : v # t => pr[v] = current_priority[v]
        BY <1>1
      <4> HIDE DEF pr
      <4> QED
        BY ONLY <4>1, <4>2, <4>3, RelistedInv
    <3> QED
      BY <2>1, <3>1
  <2>2. CASE stat[t] # "READY"
    <3>1. KInv(Kernel, DeletedSet, pr)
      BY <1>1, <1>2, <2>2, KernelFields, RenumberedInv
    <3> QED
      BY <2>2, <3>1
  <2> QED
    BY <2>1, <2>2
<1> HIDE DEF u
<1>6. /\ Kernel' = u /\ KernelTypeOK' /\ stat' = stat
      /\ rt_current_thread' = rt_current_thread
  BY <1>4, <1>5, CommitFacts, KernelFields DEF KInv
<1>7. UNCHANGED <<pc, arg, thread_timer, lock_nest>> /\ deferred'
  BY DEF ChangePriority
<1>8. DeletedSet' = DeletedSet /\ \A v \in Thread : Deleting(v)' <=> Deleting(v)
  BY <1>7, DeletedSame
<1>9. KInv(Kernel, DeletedSet, current_priority)'
  BY <1>4, <1>5, <1>6, <1>8
<1>10. pr \in [Thread -> Priority]
  BY <1>1
<1>11. TypeOK'
  BY <1>1, <1>4, <1>6, <1>10 DEF TypeOK, ChangePriority, KernelTypeOK
<1>12. ContextExact' /\ TimeoutAssertion'
  BY <1>6, <1>7 DEF IInv, ContextExact, TimeoutAssertion, ChangePriority
<1>13. arg \in [Thread -> Thread]
  BY <1>1 DEF TypeOK
<1>14. DeleteWindow' /\ ResumeWindow'
  BY <1>6, <1>7, <1>8, <1>13 DEF IInv, DeleteWindow, ResumeWindow
<1>15. RunningUnlessScheduling' /\ HighestPriorityRuns'
  BY <1>6, <1>7 DEF IInv, RunningUnlessScheduling, HighestPriorityRuns
<1> QED
  BY <1>9, <1>11, <1>12, <1>14, <1>15 DEF IInv

\* A thread that is not in a ready list may be marked as being deleted
LEMMA GrowInv ==
  ASSUME NEW STATE k, NEW STATE D, NEW STATE t, t \in Thread,
         KInv(k, D, current_priority),
         t # Idle, t # k.current, k.stat[t] \notin {"READY", "SUSPEND"}
  PROVE  KInv(k, D \cup {t}, current_priority)
<1>1. KReady(k, D \cup {t}, current_priority)
  BY DEF KInv, KReady
<1>2. KListed(k, D \cup {t}, current_priority)
  BY DEF KInv, KListed
<1>3. KWait(k, D \cup {t}) /\ KRun(k, D \cup {t})
  BY DEF KInv, KWait, KRun
<1> QED
  BY <1>1, <1>2, <1>3 DEF KInv

\* rt_thread_delete, rt_thread_detach: up to rt_hw_interrupt_disable
LEMMA DeleteRemoveInv ==
  ASSUME IInv, ~TimedDelete, NEW CONSTANT c, c \in Thread, NEW CONSTANT t, t \in Thread,
         DeleteRemove(c, t)
  PROVE  IInv'
<1> DEFINE x == rt_schedule_remove_thread(Kernel, t)
           u == IF stat[t] = "INIT" THEN Kernel ELSE x
           E == IF t = c THEN DeletedSet ELSE DeletedSet \cup {t}
<1>1. TypeOK /\ current_priority \in [Thread -> Priority] /\ arg \in [Thread -> Thread]
  BY DEF IInv, TypeOK
<1>2. /\ cpu = c /\ rt_current_thread = c /\ ~flag /\ isr = "none" /\ pc[c] = "run"
      /\ stat[c] = "RUNNING" /\ c \notin DeletedSet
  BY AtFacts DEF DeleteRemove
<1>3. /\ t # Idle /\ stat[t] \notin {"NULL", "CLOSE"} /\ (t = c => lock_nest = 0)
      /\ ~Deleting(t) /\ ~Resuming(t) /\ ~thread_timer[t] /\ pc[t] \in {"run", "schedule"}
      /\ pc' = [pc EXCEPT ![c] = "delete"] /\ arg' = [arg EXCEPT ![c] = t]
  BY DEF DeleteRemove, Unpinned
<1>4. KInv(Kernel, DeletedSet, current_priority) /\ Kernel.current = c
  BY <1>2, KernelFields DEF IInv
<1>5. Commit(u)
  BY DEF DeleteRemove
<1>6. /\ KInv(u, E, current_priority)
      /\ u.stat = Kernel.stat /\ u.current = Kernel.current
      /\ u.group \subseteq Kernel.group
  <2>1. CASE stat[t] = "INIT"
    <3>1. t # c /\ Kernel.stat[t] \notin {"READY", "SUSPEND"}
      BY <1>2, <2>1, KernelFields
    <3>2. KInv(Kernel, DeletedSet \cup {t}, current_priority)
      BY <1>3, <1>4, <3>1, GrowInv
    <3> QED
      BY <2>1, <3>1, <3>2
  <2>2. CASE stat[t] # "INIT" /\ t = c
    <3>1. /\ KInv(x, DeletedSet, current_priority)
          /\ x.stat = Kernel.stat /\ x.current = Kernel.current /\ x.group = Kernel.group
      BY <1>1, <1>2, <1>4, <2>2, KernelFields, RemoveCurrentInv
    <3> HIDE DEF x
    <3> QED
      BY <2>2, <3>1
  <2>3. CASE stat[t] # "INIT" /\ t # c
    <3>1. /\ KInv(x, DeletedSet \cup {t}, current_priority)
          /\ x.stat = Kernel.stat /\ x.current = Kernel.current
          /\ x.group \subseteq Kernel.group
      <4>1. Kernel.stat[t] # "CLOSE" /\ t # Kernel.current
        BY <1>3, <1>4, <2>3, KernelFields
      <4> QED
        BY <1>1, <1>3, <1>4, <4>1, DetachInv
    <3> HIDE DEF x
    <3> QED
      BY <2>3, <3>1
  <2> QED
    BY <2>1, <2>2, <2>3
<1> HIDE DEF u
<1>7. /\ Kernel' = u /\ KernelTypeOK' /\ stat' = stat /\ rt_current_thread' = c
      /\ group' \subseteq group
  BY <1>4, <1>5, <1>6, CommitFacts, KernelFields DEF KInv
<1>8. /\ \A d \in Thread : d # c => pc'[d] = pc[d] /\ arg'[d] = arg[d]
      /\ pc'[c] = "delete" /\ arg'[c] = t
      /\ UNCHANGED <<thread_timer, lock_nest, current_priority, deferred>>
  BY <1>1, <1>3 DEF TypeOK, DeleteRemove
<1>9. DeletedSet' = E
  BY <1>2, <1>8 DEF DeletedSet, DeletedByOther
<1>10. KInv(Kernel, DeletedSet, current_priority)'
  BY <1>6, <1>7, <1>8, <1>9
<1>11. TypeOK'
  <2>1. pc' \in [Thread -> PC] /\ arg' \in [Thread -> Thread]
    <3>1. pc' = [pc EXCEPT ![c] = "delete"] /\ arg' = [arg EXCEPT ![c] = t]
      BY DEF DeleteRemove
    <3>2. pc \in [Thread -> PC] /\ arg \in [Thread -> Thread] /\ t \in Thread
      BY <1>1 DEF TypeOK
    <3> QED
      BY <3>1, <3>2 DEF PC
  <2>2. UNCHANGED <<current_priority, remaining_tick, thread_timer, lock_nest, isr, flag,
                    from, to, cpu, deferred>>
    BY DEF DeleteRemove
  <2> QED
    BY <1>1, <1>7, <2>1, <2>2 DEF TypeOK, KernelTypeOK
<1>12. ContextExact' /\ TimeoutAssertion'
  BY <1>2, <1>7, <1>8 DEF IInv, ContextExact, TimeoutAssertion, DeleteRemove
<1>13. DeleteWindow'
  <2>1. ASSUME NEW d \in Thread, pc'[d] = "delete"
        PROVE  /\ stat[d] \in {"READY", "RUNNING"}
               /\ arg'[d] # Idle /\ stat[arg'[d]] \notin {"NULL", "CLOSE"}
               /\ ~thread_timer[arg'[d]]
               /\ arg'[d] # d => pc'[arg'[d]] \notin {"delete", "resume", "startup"}
    <3>1. CASE d = c
      BY <1>2, <1>3, <1>8, <3>1
    <3>2. CASE d # c
      <4>1. arg[d] # c /\ arg[d] \in Thread
        BY <1>1, <1>2, <1>8, <2>1, <3>2 DEF DeletedSet, DeletedByOther
      <4> QED
        BY <1>8, <2>1, <3>2, <4>1 DEF IInv, DeleteWindow
    <3> QED
      BY <3>1, <3>2
  <2>2. ASSUME NEW d \in Thread, NEW e \in Thread, pc'[d] = "delete", pc'[e] = "delete",
               arg'[d] = arg'[e]
        PROVE  d = e
    <3>1. \A v \in Thread : v # c /\ pc'[v] = "delete" => arg'[v] # t
      BY <1>3, <1>8 DEF Deleting
    <3>2. CASE d = c \/ e = c
      BY <1>8, <2>2, <3>1, <3>2
    <3>3. CASE d # c /\ e # c
      BY <1>8, <2>2, <3>3 DEF IInv, DeleteWindow
    <3> QED
      BY <3>2, <3>3
  <2> QED
    BY <1>7, <1>8, <2>1, <2>2 DEF DeleteWindow
<1>14. ResumeWindow'
  <2>1. \A v \in Thread : v # t => (Deleting(v)' => Deleting(v))
    BY <1>8 DEF Deleting
  <2>2. ASSUME NEW d \in Thread, pc'[d] \in {"resume", "startup"}
        PROVE  /\ d # c /\ pc[d] \in {"resume", "startup"} /\ arg'[d] = arg[d]
               /\ arg[d] # t /\ arg[d] \in Thread
    BY <1>1, <1>3, <1>8, <2>2 DEF Resuming
  <2> QED
    BY <1>7, <2>1, <2>2 DEF IInv, ResumeWindow
<1>15. RunningUnlessScheduling'
  BY <1>2, <1>3, <1>7, <1>8 DEF RunningUnlessScheduling
<1>16. HighestPriorityRuns'
  BY <1>2, <1>7, <1>8 DEF IInv, HighestPriorityRuns
<1> QED
  BY <1>10, <1>11, <1>12, <1>13, <1>14, <1>15, <1>16 DEF IInv

\* rt_thread_delete, rt_thread_detach: the interrupt-free rest
LEMMA DeleteCloseInv ==
  ASSUME IInv, NEW CONSTANT c, c \in Thread, DeleteClose(c)
  PROVE  IInv'
<1> DEFINE t == arg[c]
           u == Closed(Kernel, t)
           E == DeletedSet \ {t}
<1>1. /\ TypeOK /\ current_priority \in [Thread -> Priority] /\ arg \in [Thread -> Thread]
      /\ t \in Thread
  BY DEF IInv, TypeOK
<1>2. /\ cpu = c /\ rt_current_thread = c /\ ~flag /\ isr = "none" /\ pc[c] = "delete"
      /\ stat[c] = "RUNNING" /\ c \notin DeletedSet
  BY AtFacts DEF DeleteClose
<1>3. /\ t # Idle /\ stat[t] \notin {"NULL", "CLOSE"} /\ ~thread_timer[t]
      /\ \A d \in Thread : pc[d] = "delete" /\ arg[d] = t => d = c
  BY <1>2 DEF IInv, DeleteWindow
<1>4. KInv(Kernel, DeletedSet, current_priority) /\ Kernel.current = c
  BY <1>2, KernelFields DEF IInv
<1>5. t # c => t \in DeletedSet
  BY <1>1, <1>2 DEF DeletedSet, DeletedByOther
<1>6. t \notin Kernel.waiting /\ \A q \in Priority : t \notin ToSet(Kernel.table[q])
  BY <1>2, <1>4, <1>5, KernelFields DEF KInv, KReady, KWait
<1>7. Commit(u) /\ thread_timer' = [thread_timer EXCEPT ![t] = FALSE]
  BY DEF DeleteClose
<1>8. t # c => pc[t] \notin {"delete", "resume", "startup"}
  BY <1>2 DEF IInv, DeleteWindow
<1> HIDE DEF t
<1>9. /\ KInv(u, DeletedSet, current_priority)
      /\ u.stat = [Kernel.stat EXCEPT ![t] = "CLOSE"] /\ u.current = Kernel.current
      /\ u.group = Kernel.group
  <2>1. Kernel.stat[t] # "CLOSE"
    BY <1>3, KernelFields
  <2> QED
    BY <1>1, <1>3, <1>4, <1>6, <2>1, ClosedInv
<1> HIDE DEF u
<1>10. KInv(u, E, current_priority)
  <2>1. \A v \in DeletedSet \ E : u.stat[v] # "READY"
    BY <1>1, <1>9, KernelFields DEF TypeOK, DeletedSet
  <2>2. E \subseteq DeletedSet
    OBVIOUS
  <2> HIDE DEF E
  <2> QED
    BY <1>9, <2>1, <2>2, ShrinkInv
<1>11. /\ Kernel' = u /\ KernelTypeOK' /\ stat' = [stat EXCEPT ![t] = "CLOSE"]
       /\ rt_current_thread' = c /\ group' = group
  BY <1>4, <1>7, <1>9, CommitFacts, KernelFields DEF KInv
<1>12. /\ \A d \in Thread : d # c => pc'[d] = pc[d] /\ arg'[d] = arg[d]
       /\ pc'[c] \in {"run", "schedule"} /\ (t = c => pc'[c] = "schedule")
       /\ arg'[c] = c
       /\ \A v \in Thread : v # t => stat'[v] = stat[v] /\ thread_timer'[v] = thread_timer[v]
       /\ stat'[t] = "CLOSE" /\ ~thread_timer'[t]
       /\ UNCHANGED <<lock_nest, current_priority, deferred>>
  <2>1. \/ pc' = [pc EXCEPT ![c] = "schedule"]
        \/ t # c /\ pc' = [pc EXCEPT ![c] = "run"]
    BY DEF DeleteClose, Becomes, t
  <2>2. /\ thread_timer' = [thread_timer EXCEPT ![t] = FALSE]
        /\ arg' = [arg EXCEPT ![c] = c]
        /\ UNCHANGED <<lock_nest, current_priority, deferred>>
    BY DEF DeleteClose, t
  <2>3. pc \in [Thread -> PC] /\ arg \in [Thread -> Thread]
    BY <1>1 DEF TypeOK
  <2>4. thread_timer \in [Thread -> BOOLEAN] /\ stat \in [Thread -> Stat] /\ t \in Thread
    BY <1>1 DEF TypeOK
  <2>5. \A d \in Thread : d # c => pc'[d] = pc[d] /\ arg'[d] = arg[d]
    BY <2>1, <2>2, <2>3
  <2>6. pc'[c] \in {"run", "schedule"} /\ (t = c => pc'[c] = "schedule") /\ arg'[c] = c
    BY <2>1, <2>2, <2>3
  <2>7. /\ \A v \in Thread : v # t => stat'[v] = stat[v] /\ thread_timer'[v] = thread_timer[v]
        /\ stat'[t] = "CLOSE" /\ ~thread_timer'[t]
    BY <1>11, <2>2, <2>4
  <2> QED
    BY <2>2, <2>5, <2>6, <2>7
<1>13. DeletedSet' = E
  <2>1. ASSUME NEW v \in Thread PROVE v \in DeletedSet' <=> v \in DeletedSet /\ v # t
    BY <1>1, <1>2, <1>3, <1>12 DEF DeletedSet, DeletedByOther, t
  <2> QED
    BY <2>1 DEF DeletedSet
<1>14. KInv(Kernel, DeletedSet, current_priority)'
  BY <1>10, <1>11, <1>12, <1>13
<1>15. TypeOK'
  <2>1. pc' \in [Thread -> PC]
    BY <1>1 DEF TypeOK, DeleteClose, Becomes, PC
  <2>2. arg' \in [Thread -> Thread] /\ thread_timer' \in [Thread -> BOOLEAN]
    BY <1>1 DEF TypeOK, DeleteClose
  <2>3. UNCHANGED <<current_priority, remaining_tick, lock_nest, isr, flag, from, to, cpu,
                    deferred>>
    BY DEF DeleteClose
  <2> QED
    BY <1>1, <1>11, <2>1, <2>2, <2>3 DEF TypeOK, KernelTypeOK
<1>16. ContextExact' /\ TimeoutAssertion'
  BY <1>2, <1>11, <1>12 DEF IInv, ContextExact, TimeoutAssertion, DeleteClose
<1>17. \A d \in Thread : pc'[d] = "delete" =>
         d # c /\ d # t /\ pc[d] = "delete" /\ arg'[d] = arg[d] /\ arg[d] # t /\ arg[d] \in Thread
  BY <1>1, <1>3, <1>8, <1>12
<1>18. DeleteWindow'
  <2>1. \A d \in Thread : pc'[d] = "delete" /\ arg[d] # d => pc'[arg[d]] \notin {"delete", "resume", "startup"}
    BY <1>12, <1>17 DEF IInv, DeleteWindow
  <2> QED
    BY <1>12, <1>17, <2>1 DEF IInv, DeleteWindow
<1>19. ResumeWindow'
  <2>1. \A v \in Thread : Deleting(v)' => Deleting(v)
    BY <1>17 DEF Deleting
  <2>2. Deleting(t)
    BY <1>2 DEF Deleting, t
  <2>3. ASSUME NEW d \in Thread, pc'[d] \in {"resume", "startup"}
        PROVE  /\ d # c /\ d # t /\ pc[d] \in {"resume", "startup"} /\ arg'[d] = arg[d]
               /\ arg[d] # t /\ arg[d] \in Thread
    BY <1>1, <1>8, <1>12, <2>2, <2>3 DEF IInv, ResumeWindow
  <2> QED
    BY <1>12, <2>1, <2>3 DEF IInv, ResumeWindow
<1>20. RunningUnlessScheduling'
  <2>1. lock_nest > 0 => t # c
    BY <1>2 DEF IInv, RunningUnlessScheduling, t
  <2> QED
    BY <1>2, <1>11, <1>12, <2>1 DEF RunningUnlessScheduling
<1>21. HighestPriorityRuns'
  BY <1>2, <1>11, <1>12 DEF IInv, HighestPriorityRuns
<1> QED
  BY <1>14, <1>15, <1>16, <1>18, <1>19, <1>20, <1>21 DEF IInv

-----------------------------------------------------------------------------
(***************************************************************************)
(* The invariant holds initially, every step keeps it, and it implies the  *)
(* properties.                                                             *)
(***************************************************************************)

\* rt_system_scheduler_start leaves the lists exact.
LEMMA InitInv == Init => IInv
<1> SUFFICES ASSUME Init PROVE IInv
  OBVIOUS
<1> USE ThreadAssumption, PriorityAssumption, InitPriorityAssumption
<1>1. TypeOK
  <2>1. stat \in [Thread -> Stat] /\ pc \in [Thread -> PC] /\ isr \in Isr
    BY DEF Init, Stat, PC, Isr
  <2>2. /\ table \in [Priority -> Seq(Thread)] /\ defunct \in Seq(Thread)
        /\ group \in SUBSET Priority /\ waiting \in SUBSET Thread
    BY DEF Init
  <2>3. /\ yield \in [Thread -> BOOLEAN] /\ thread_timer \in [Thread -> BOOLEAN]
        /\ current_priority \in [Thread -> Priority]
        /\ remaining_tick \in [Thread -> Nat \ {0}]
        /\ arg \in [Thread -> Thread]
    BY InitTickAssumption DEF Init
  <2>4. lock_nest \in 0 .. MaxNest
    BY BoundAssumption DEF Init
  <2>5. flag \in BOOLEAN /\ deferred \in BOOLEAN
    BY Zenon DEF Init
  <2> QED
    BY <2>1, <2>2, <2>3, <2>4, <2>5 DEF Init, TypeOK
<1>2. /\ ToSet(<<Idle>>) = {Idle} /\ IsInjective(<<Idle>>)
      /\ IsInjective(<<>>) /\ ToSet(<<>>) = {}
  BY DEF ToSet, IsInjective
<1>3. DeletedSet = {}
  BY DEF Init, DeletedSet, DeletedByOther
<1>4. KType(Kernel) /\ KLists(Kernel)
  BY <1>1, <1>2, KernelFields DEF Init, TypeOK, KType, KLists, Kernel
<1>5. \A p \in Priority : \A v : v \in ToSet(table[p]) <=> p = InitPriority[Idle] /\ v = Idle
  BY <1>2 DEF Init
<1>6. stat \in [Thread -> Stat] /\ \A t \in Thread : stat[t] =
        IF t = Main THEN "RUNNING" ELSE IF t = Idle THEN "READY" ELSE "NULL"
  BY <1>1 DEF Init, TypeOK
<1>7. KGroup(Kernel)
  BY <1>5, KernelFields DEF Init, KGroup
<1>8. /\ KReady(Kernel, DeletedSet, current_priority)
      /\ KListed(Kernel, DeletedSet, current_priority)
  <2>1. KReady(Kernel, DeletedSet, current_priority)
    <3>1. stat[Idle] = "READY" /\ current_priority[Idle] = InitPriority[Idle]
      BY <1>6 DEF Init
    <3> QED
      BY <1>3, <1>5, <3>1, KernelFields DEF KReady
  <2>2. \A t \in Thread : stat[t] = "READY" => t = Idle
    BY <1>6
  <2>3. /\ current_priority[Idle] \in Priority
        /\ Idle \in ToSet(table[current_priority[Idle]])
    BY <1>5 DEF Init
  <2> QED
    BY <2>1, <2>2, <2>3, KernelFields DEF KListed
<1>9. KDefunct(Kernel) /\ KWait(Kernel, DeletedSet)
  BY <1>2, <1>6, KernelFields DEF Init, KDefunct, KWait
<1>10. KRun(Kernel, DeletedSet)
  BY <1>3, <1>6, KernelFields DEF Init, KRun
<1>11. ContextExact /\ TimeoutAssertion /\ DeleteWindow /\ ResumeWindow
  BY DEF Init, ContextExact, TimeoutAssertion, DeleteWindow, ResumeWindow
<1>12. RunningUnlessScheduling /\ HighestPriorityRuns
  BY <1>6, MainAssumption DEF Init, RunningUnlessScheduling, HighestPriorityRuns
<1> QED
  BY <1>1, <1>4, <1>7, <1>8, <1>9, <1>10, <1>11, <1>12 DEF IInv, KInv

\* Every step keeps the invariant, provided no thread is deleted in a timed wait.
LEMMA NextInv ==
  ASSUME ~TimedDelete
  PROVE  IInv /\ [Next]_vars => IInv'
<1> SUFFICES ASSUME IInv, [Next]_vars PROVE IInv'
  OBVIOUS
<1>1. ASSUME NEW c \in Thread, ThreadStep(c) PROVE IInv'
  <2>1. ASSUME NEW t \in Thread, ThreadInit(c, t) PROVE IInv'
    BY <2>1, ThreadInitInv
  <2>2. ASSUME NEW t \in Thread, Startup(c, t) PROVE IInv'
    BY <2>2, StartupInv
  <2>3. ASSUME NEW t \in Thread, Wake(c, t) PROVE IInv'
    BY <2>3, WakeInv
  <2>4. ASSUME NEW t \in Thread, ResumeCheck(c, t) PROVE IInv'
    BY <2>4, ResumeCheckInv
  <2>5. ASSUME NEW t \in Thread, DeleteRemove(c, t) PROVE IInv'
    BY <2>5, DeleteRemoveInv
  <2>6. ASSUME NEW t \in Thread, NEW p \in Priority, ChangePriority(c, t, p) PROVE IInv'
    BY <2>6, ChangePriorityInv
  <2>7. CASE Reschedule(c)
    BY <2>7, RescheduleInv
  <2>8. CASE Yield(c)
    BY <2>8, YieldStepInv
  <2>9. CASE Exit(c)
    BY <2>9, ExitInv
  <2>10. ASSUME NEW timed \in BOOLEAN, NEW listed \in BOOLEAN, Block(c, timed, listed)
         PROVE  IInv'
    BY <2>10, BlockInv
  <2>11. CASE ResumeAct(c)
    BY <2>11, ResumeActInv
  <2>12. CASE DeleteClose(c)
    BY <2>12, DeleteCloseInv
  <2>13. CASE EnterCritical(c)
    BY <2>13, EnterCriticalInv
  <2>14. CASE ExitCritical(c)
    BY <2>14, ExitCriticalInv
  <2>15. CASE StartupAct(c)
    BY <2>15, StartupActInv
  <2> QED
    BY <1>1, <2>1, <2>2, <2>3, <2>4, <2>5, <2>6, <2>7, <2>8, <2>9, <2>10, <2>11,
       <2>12, <2>13, <2>14, <2>15 DEF ThreadStep
<1>2. CASE DefunctExecute
  BY <1>2, DefunctExecuteInv
<1>3. CASE IsrStep
  <2>1. ASSUME NEW kind \in {"tick", "device"}, IrqEnter(kind) PROVE IInv'
    BY <2>1, IrqEnterInv
  <2>2. CASE rt_tick_increase
    BY <2>2, TickInv
  <2>3. ASSUME NEW t \in Thread, _thread_timeout(t) PROVE IInv'
    BY <2>3, TimeoutInv
  <2>4. ASSUME NEW t \in Thread, DeviceWake(t) PROVE IInv'
    BY <2>4, DeviceWakeInv
  <2>5. CASE IrqLeave
    BY <2>5, IrqLeaveInv
  <2> QED
    BY <1>3, <2>1, <2>2, <2>3, <2>4, <2>5 DEF IsrStep
<1>4. CASE UNCHANGED vars
  <2>1. Kept(Kernel)
    BY <1>4, QuietStep DEF vars
  <2>2. TypeOK' /\ ContextExact' /\ RunningUnlessScheduling' /\ HighestPriorityRuns'
    BY <1>4
       DEF vars, IInv, TypeOK, ContextExact, RunningUnlessScheduling, HighestPriorityRuns
  <2> QED
    BY <2>1, <2>2 DEF IInv, Kept
<1> QED
  BY <1>1, <1>2, <1>3, <1>4 DEF Next

\* What the invariant says of the ready lists and of the defunct queue.
LEMMA InvImplies ==
  IInv => ReadyQueueConsistent /\ ClosedUnlinked /\ OneRunning
<1> SUFFICES ASSUME IInv PROVE ReadyQueueConsistent /\ ClosedUnlinked /\ OneRunning
  OBVIOUS
<1>1. TypeOK /\ KInv(Kernel, DeletedSet, current_priority)
  BY DEF IInv
<1>2. KLists(Kernel) /\ KGroup(Kernel) /\ KReady(Kernel, DeletedSet, current_priority)
      /\ KListed(Kernel, DeletedSet, current_priority) /\ KDefunct(Kernel)
      /\ KWait(Kernel, DeletedSet) /\ KRun(Kernel, DeletedSet)
  BY <1>1 DEF KInv
<1>3. \A p \in Priority : table[p] # <<>> <=> ToSet(table[p]) # {}
  BY <1>1, EmptyFacts DEF TypeOK
<1>4. GroupExact
  BY <1>1, <1>2, <1>3, KernelFields DEF GroupExact, KGroup, TypeOK
<1>5. ListsHoldReady
  BY <1>2, KernelFields DEF ListsHoldReady, KLists, KReady
<1>6. ReadyListed /\ WaitersSuspended
  BY <1>1, <1>2, KernelFields
  DEF ReadyListed, WaitersSuspended, KListed, KWait, DeletedSet, TypeOK
<1>7. ClosedUnlinked
  <2>1. ToSet(defunct) \subseteq Thread
    BY <1>1 DEF TypeOK, ToSet
  <2>2. \A p \in Priority : \A t \in ToSet(table[p]) : stat[t] # "CLOSE"
    BY <1>2, KernelFields DEF KReady
  <2> QED
    BY <1>2, <2>1, <2>2, KernelFields DEF ClosedUnlinked, KLists, KDefunct
<1>8. OneRunning
  BY <1>2, KernelFields DEF OneRunning, KRun
<1> QED
  BY <1>4, <1>5, <1>6, <1>7, <1>8 DEF ReadyQueueConsistent

\* The inductive invariant holds in every reachable state of a system whose
\* callers delete no thread in a timed wait.
THEOREM Invariance ==
  ASSUME ~TimedDelete
  PROVE  Spec => []IInv
<1>1. Init => IInv
  BY InitInv
<1>2. IInv /\ [Next]_vars => IInv'
  BY NextInv
<1> QED
  BY <1>1, <1>2, PTL DEF Spec

\* Every variable keeps its type: in particular no time slice reaches zero and
\* the scheduler lock never goes negative.
THEOREM TypeCorrect ==
  ASSUME ~TimedDelete
  PROVE  Spec => []TypeOK
<1>1. IInv => TypeOK
  BY DEF IInv
<1> QED
  BY <1>1, Invariance, PTL

\* The ready lists, the bitmap and the threads' states agree at every point
\* where an interrupt or another thread can look at them, for any number of
\* threads and priorities: scheduler.c neither loses nor duplicates a thread.
THEOREM ReadyQueueCorrect ==
  ASSUME ~TimedDelete
  PROVE  Spec => []ReadyQueueConsistent
<1>1. IInv => ReadyQueueConsistent
  BY InvImplies
<1> QED
  BY <1>1, Invariance, PTL

\* A thread that exits or is deleted is in the defunct queue until idle frees
\* it, and in no ready list.
THEOREM ClosedCorrect ==
  ASSUME ~TimedDelete
  PROVE  Spec => []ClosedUnlinked
<1>1. IInv => ClosedUnlinked
  BY InvImplies
<1> QED
  BY <1>1, Invariance, PTL

\* Only the scheduler's current thread is RUNNING.
THEOREM OneRunningCorrect ==
  ASSUME ~TimedDelete
  PROVE  Spec => []OneRunning
<1>1. IInv => OneRunning
  BY InvImplies
<1> QED
  BY <1>1, Invariance, PTL

\* The deferred context switch of an interrupt handler saves the interrupted
\* thread and continues with the current one, however often the handler calls
\* rt_schedule.
THEOREM ContextCorrect ==
  ASSUME ~TimedDelete
  PROVE  Spec => []ContextExact
<1>1. IInv => ContextExact
  BY DEF IInv
<1> QED
  BY <1>1, Invariance, PTL

\* The assertion of _thread_timeout cannot fail.
THEOREM TimeoutCorrect ==
  ASSUME ~TimedDelete
  PROVE  Spec => []TimeoutAssertion
<1>1. IInv => TimeoutAssertion
  BY DEF IInv
<1> QED
  BY <1>1, Invariance, PTL

\* Fixed-priority preemptive scheduling: outside critical sections and calls
\* that leave rt_schedule to their caller, no ready thread is more urgent than
\* the running one.
THEOREM PriorityCorrect ==
  ASSUME ~TimedDelete
  PROVE  Spec => []HighestPriorityRuns
<1>1. IInv => HighestPriorityRuns
  BY DEF IInv
<1> QED
  BY <1>1, Invariance, PTL

-----------------------------------------------------------------------------
(***************************************************************************)
(* The action properties.                                                  *)
(***************************************************************************)

\* A step of a thread leaves the deferred switch alone, and moves the CPU only
\* to a thread rt_schedule made RUNNING, outside critical sections.
LEMMA ThreadStepCpu ==
  ASSUME IInv, NEW CONSTANT c, c \in Thread, ThreadStep(c)
  PROVE  /\ ~flag /\ ~flag'
         /\ \/ cpu' = cpu
            \/ lock_nest = 0 /\ stat[cpu'] \in {"READY", "RUNNING"}
<1>1. TypeOK /\ current_priority \in [Thread -> Priority] /\ rt_current_thread \in Thread
  BY DEF IInv, TypeOK
<1>2. \A l : At(c, l) => ~flag /\ cpu = rt_current_thread
  BY DEF IInv, ContextExact, At
<1>3. ASSUME NEW STATE k, KInv(k, DeletedSet, current_priority),
             k.stat = stat, k.current = cpu, cpu' = rt_schedule(k).current
      PROVE  \/ cpu' = cpu
             \/ lock_nest = 0 /\ stat[cpu'] \in {"READY", "RUNNING"}
  <2> DEFINE u == rt_schedule(k)
  <2>1. /\ KInv(u, DeletedSet, current_priority)
        /\ \A t \in Thread : \/ u.stat[t] = k.stat[t]
                             \/ /\ u.stat[t] \in {"READY", "RUNNING"}
                                /\ k.stat[t] \in {"READY", "RUNNING"}
        /\ lock_nest # 0 => u = k
        /\ lock_nest = 0 => u.stat[u.current] = "RUNNING"
    BY <1>1, <1>3, ScheduleInv
  <2> HIDE DEF u
  <2>2. u.current \in Thread
    BY <2>1 DEF KInv, KType
  <2> QED
    BY <1>3, <2>1, <2>2 DEF u
<1>4. CASE Reschedule(c)
  <2>1. KInv(Kernel, DeletedSet, current_priority)
    BY DEF IInv
  <2>2. /\ cpu' = rt_schedule(Kernel).current /\ flag' = flag /\ ~flag
        /\ cpu = rt_current_thread
    BY <1>2, <1>4 DEF Reschedule, ThreadSwitch
  <2> QED
    BY <1>3, <2>1, <2>2, KernelFields
<1>5. CASE Yield(c)
  <2> DEFINE y == [Kernel EXCEPT !.yield[c] = TRUE]
  <2>1. /\ KInv(y, DeletedSet, current_priority)
        /\ y.stat = Kernel.stat /\ y.current = Kernel.current
    <3>1. KInv(Kernel, DeletedSet, current_priority) /\ c \in Thread
      BY DEF IInv
    <3> QED
      BY ONLY <3>1, YieldInv
  <2>2. cpu' = rt_schedule(y).current /\ flag' = flag /\ ~flag /\ cpu = rt_current_thread
    BY <1>2, <1>5 DEF Yield, ThreadSwitch
  <2> HIDE DEF y
  <2> QED
    BY <1>3, <2>1, <2>2, KernelFields
<1>6. ASSUME NEW t \in Thread,
             \/ ThreadInit(c, t) \/ Startup(c, t) \/ Wake(c, t)
             \/ ResumeCheck(c, t) \/ DeleteRemove(c, t)
             \/ \E p \in Priority : ChangePriority(c, t, p)
      PROVE  ~flag /\ ~flag' /\ cpu' = cpu
  BY <1>2, <1>6 DEF ThreadInit, Startup, Wake, ResumeCheck, DeleteRemove, ChangePriority
<1>7. ASSUME \/ Exit(c) \/ \E timed, listed \in BOOLEAN : Block(c, timed, listed)
             \/ StartupAct(c) \/ ResumeAct(c) \/ DeleteClose(c)
             \/ EnterCritical(c) \/ ExitCritical(c)
      PROVE  ~flag /\ ~flag' /\ cpu' = cpu
  <2>1. (\E l : At(c, l)) /\ UNCHANGED <<flag, cpu>>
    BY <1>7
    DEF Exit, Block, StartupAct, ResumeAct, DeleteClose, EnterCritical, ExitCritical
  <2> QED
    BY <1>2, <2>1
<1> QED
  BY <1>4, <1>5, <1>6, <1>7 DEF ThreadStep

\* The deferred switch stays sound.
LEMMA FlagStep ==
  ASSUME ~TimedDelete
  PROVE  IInv /\ FlagInv /\ [Next]_vars => FlagInv'
<1> SUFFICES ASSUME IInv, FlagInv, [Next]_vars PROVE FlagInv'
  OBVIOUS
<1>1. ASSUME NEW c \in Thread, ThreadStep(c) PROVE FlagInv'
  BY <1>1, ThreadStepCpu DEF FlagInv
<1>2. CASE DefunctExecute
  BY <1>2 DEF DefunctExecute, At, IInv, ContextExact, FlagInv
<1>3. CASE IsrStep
  <2>1. ASSUME NEW kind \in {"tick", "device"}, IrqEnter(kind) PROVE FlagInv'
    BY <2>1 DEF IrqEnter, FlagInv
  <2>2. CASE rt_tick_increase
    BY <2>2, TickInv
  <2>3. ASSUME NEW t \in Thread, _thread_timeout(t) PROVE FlagInv'
    BY <2>3, TimeoutInv
  <2>4. ASSUME NEW t \in Thread, DeviceWake(t) PROVE FlagInv'
    BY <2>4, DeviceWakeInv
  <2>5. CASE IrqLeave
    BY <2>5 DEF IrqLeave, FlagInv
  <2> QED
    BY <1>3, <2>1, <2>2, <2>3, <2>4, <2>5 DEF IsrStep
<1>4. CASE UNCHANGED vars
  BY <1>4 DEF vars, FlagInv
<1> QED
  BY <1>1, <1>2, <1>3, <1>4 DEF Next

\* The CPU changes hands outside critical sections only, and only to a thread
\* that is READY or RUNNING.
LEMMA CpuStep ==
  ASSUME IInv, FlagInv, [Next]_vars
  PROVE  cpu' = cpu \/ (lock_nest = 0 /\ stat[cpu'] \in {"READY", "RUNNING"})
<1>1. ASSUME NEW c \in Thread, ThreadStep(c)
      PROVE  cpu' = cpu \/ (lock_nest = 0 /\ stat[cpu'] \in {"READY", "RUNNING"})
  BY <1>1, ThreadStepCpu
<1>2. CASE DefunctExecute
  BY <1>2 DEF DefunctExecute
<1>3. CASE IrqLeave
  BY <1>3 DEF IrqLeave, FlagInv, IInv, ContextExact
<1>4. CASE IsrStep /\ ~IrqLeave
  BY <1>4 DEF IsrStep, IrqEnter, rt_tick_increase, _thread_timeout, DeviceWake, IsrSwitch
<1>5. CASE UNCHANGED vars
  BY <1>5 DEF vars
<1> QED
  BY <1>1, <1>2, <1>3, <1>4, <1>5 DEF Next

\* rt_thread_resume and the list operations leave the state of other threads
\* alone.
LEMMA OthersStat ==
  ASSUME NEW STATE k, KType(k), NEW STATE t, t \in Thread, NEW STATE z, z \in Thread,
         z # t
  PROVE  /\ Resumed(k, t).stat[z] = k.stat[z]
         /\ \A q : InsertAtPriority(rt_schedule_remove_thread(k, t), t, q).stat[z] = k.stat[z]
         /\ rt_thread_suspend(k, t).stat[z] = k.stat[z]
         /\ Closed(k, t).stat[z] = k.stat[z]
         /\ Closed(rt_schedule_remove_thread(k, t), t).stat[z] = k.stat[z]
<1>1. /\ Unlink(k, t).stat = k.stat /\ rt_schedule_remove_thread(k, t).stat = k.stat
      /\ DOMAIN Unlink(k, t) = DOMAIN k
      /\ DOMAIN rt_schedule_remove_thread(k, t) = DOMAIN k
      /\ "stat" \in DOMAIN k /\ k.stat \in [Thread -> Stat]
  BY DEF Unlink, rt_schedule_remove_thread, KType
<1>2. ASSUME NEW x, x.stat = k.stat, DOMAIN x = DOMAIN k, NEW q
      PROVE  InsertAtPriority(x, t, q).stat[z] = k.stat[z]
  BY <1>1, <1>2 DEF InsertAtPriority
<1>3. ASSUME NEW x, x.stat = k.stat, DOMAIN x = DOMAIN k
      PROVE  Closed(x, t).stat[z] = k.stat[z]
  BY <1>1, <1>3 DEF Closed, rt_thread_defunct_enqueue
<1>4. rt_thread_suspend(k, t).stat[z] = k.stat[z]
  BY <1>1 DEF rt_thread_suspend
<1> QED
  BY <1>1, <1>2, <1>3, <1>4 DEF Resumed, rt_schedule_insert_thread

\* A closed thread stays closed until rt_defunct_execute takes it.
LEMMA ClosedStep ==
  ASSUME IInv, ~TimedDelete, [Next]_vars, NEW CONSTANT z, z \in Thread, stat[z] = "CLOSE"
  PROVE  stat'[z] \in {"CLOSE", "NULL"}
<1>1. /\ TypeOK /\ current_priority \in [Thread -> Priority] /\ stat \in [Thread -> Stat]
      /\ KInv(Kernel, DeletedSet, current_priority) /\ KType(Kernel) /\ Kernel.stat = stat
  BY KernelFields DEF IInv, TypeOK, KInv
<1>2. ASSUME NEW STATE k, KInv(k, DeletedSet, current_priority), k.stat[z] = "CLOSE",
             Commit(rt_schedule(k))
      PROVE  stat'[z] = "CLOSE"
  BY <1>1, <1>2, ScheduleInv DEF Commit
<1>3. ASSUME NEW STATE c, c \in Thread,
             Commit(rt_schedule([Kernel EXCEPT !.yield[c] = TRUE]))
      PROVE  stat'[z] = "CLOSE"
  <2> DEFINE y == [Kernel EXCEPT !.yield[c] = TRUE]
  <2>1. KInv(y, DeletedSet, current_priority) /\ y.stat = Kernel.stat
    <3>1. KInv(Kernel, DeletedSet, current_priority) /\ c \in Thread
      BY <1>1, <1>3
    <3> QED
      BY ONLY <3>1, YieldInv
  <2>2. Commit(rt_schedule(y))
    BY <1>3
  <2> HIDE DEF y
  <2> QED
    BY <1>1, <1>2, <2>1, <2>2
<1>4. ASSUME NEW CONSTANT c, c \in Thread, ThreadStep(c)
      PROVE  stat'[z] = "CLOSE"
  <2>1. ASSUME NEW CONSTANT t, t \in Thread, ThreadInit(c, t)
        PROVE  stat'[z] = "CLOSE"
    BY <1>1, <2>1 DEF ThreadInit
  <2>2. ASSUME NEW CONSTANT t, t \in Thread, Startup(c, t)
        PROVE  stat'[z] = "CLOSE"
    BY <1>1, <2>2 DEF Startup
  <2>3. ASSUME NEW CONSTANT t, t \in Thread, Wake(c, t)
        PROVE  stat'[z] = "CLOSE"
    <3>1. z # t /\ Commit(Resumed(Kernel, t))
      BY <2>3 DEF Wake
    <3> QED
      BY <1>1, <2>3, <3>1, OthersStat DEF Commit
  <2>4. ASSUME NEW CONSTANT t, t \in Thread, ResumeCheck(c, t)
        PROVE  stat'[z] = "CLOSE"
    BY <2>4 DEF ResumeCheck
  <2>5. ASSUME NEW CONSTANT t, t \in Thread, DeleteRemove(c, t)
        PROVE  stat'[z] = "CLOSE"
    <3>1. KLists(Kernel)
      BY <1>1 DEF KInv
    <3>2. rt_schedule_remove_thread(Kernel, t).stat = stat
      BY <1>1, <2>5, <3>1, RemoveThreadFacts
    <3> QED
      BY <1>1, <2>5, <3>2 DEF DeleteRemove, Commit
  <2>6. ASSUME NEW CONSTANT t, t \in Thread, NEW CONSTANT p, p \in Priority,
               ChangePriority(c, t, p)
        PROVE  stat'[z] = "CLOSE"
    <3>1. z # t
      BY <2>6 DEF ChangePriority
    <3>2. \/ Commit(InsertAtPriority(rt_schedule_remove_thread(Kernel, t), t, p))
          \/ Commit(Kernel)
      BY <2>6 DEF ChangePriority
    <3>3. InsertAtPriority(rt_schedule_remove_thread(Kernel, t), t, p).stat[z] = "CLOSE"
      BY <1>1, <2>6, <3>1, OthersStat
    <3> QED
      BY <1>1, <3>2, <3>3 DEF Commit
  <2>7. CASE Reschedule(c)
    BY <1>1, <1>2, <2>7 DEF Reschedule
  <2>8. CASE Yield(c)
    BY <1>3, <1>4, <2>8 DEF Yield
  <2>9. CASE Exit(c)
    <3>1. z # c
      BY <2>9, <1>4, AtFacts DEF Exit
    <3> QED
      BY <1>1, <1>4, <2>9, <3>1, OthersStat DEF Exit, Commit
  <2>10. ASSUME NEW CONSTANT timed, NEW CONSTANT listed, Block(c, timed, listed)
         PROVE  stat'[z] = "CLOSE"
    <3> DEFINE k == rt_thread_suspend(Kernel, c)
    <3>1. z # c /\ Commit([k EXCEPT !.waiting = IF listed THEN @ \cup {c} ELSE @])
      BY <2>10 DEF Block
    <3>2. k.stat[z] = "CLOSE"
      BY <1>1, <1>4, <3>1, OthersStat
    <3> HIDE DEF k
    <3> QED
      BY <3>1, <3>2 DEF Commit
  <2>11. CASE ResumeAct(c)
    <3>1. arg[c] \in Thread /\ Commit(Resumed(Kernel, arg[c]))
      BY <1>1, <1>4, <2>11 DEF ResumeAct, TypeOK
    <3>2. z # arg[c]
      BY <1>4, <2>11 DEF ResumeAct, At, IInv, ResumeWindow
    <3> QED
      BY <1>1, <3>1, <3>2, OthersStat DEF Commit
  <2>12. CASE DeleteClose(c)
    <3>1. arg[c] \in Thread /\ Commit(Closed(Kernel, arg[c]))
      BY <1>1, <1>4, <2>12 DEF DeleteClose, TypeOK
    <3>2. z # arg[c]
      BY <1>4, <2>12 DEF DeleteClose, At, IInv, DeleteWindow
    <3> QED
      BY <1>1, <3>1, <3>2, OthersStat DEF Commit
  <2>13. CASE EnterCritical(c) \/ ExitCritical(c)
    BY <2>13 DEF EnterCritical, ExitCritical
  <2>14. CASE StartupAct(c)
    <3>1. arg[c] \in Thread /\ (Commit(Resumed(Kernel, arg[c])) \/ Commit(Kernel))
      BY <1>1, <1>4, <2>14 DEF StartupAct, TypeOK
    <3>2. z # arg[c]
      BY <1>4, <2>14 DEF StartupAct, At, IInv, ResumeWindow
    <3>3. Resumed(Kernel, arg[c]).stat[z] = "CLOSE"
      BY <1>1, <3>1, <3>2, OthersStat
    <3> QED
      BY <1>1, <3>1, <3>3 DEF Commit
  <2> QED
    BY <1>4, <2>1, <2>2, <2>3, <2>4, <2>5, <2>6, <2>7, <2>8, <2>9, <2>10, <2>11, <2>12,
       <2>13, <2>14 DEF ThreadStep
<1>5. CASE DefunctExecute
  <2> DEFINE t == Head(defunct)
  <2>1. Commit([Unlink(Kernel, t) EXCEPT !.stat[t] = "NULL"])
    BY <1>5 DEF DefunctExecute
  <2>2. [Unlink(Kernel, t) EXCEPT !.stat[t] = "NULL"].stat = [stat EXCEPT ![t] = "NULL"]
    BY <1>1 DEF Unlink, Kernel
  <2> QED
    BY <1>1, <2>1, <2>2 DEF Commit
<1>6. CASE IsrStep
  <2>1. ASSUME NEW CONSTANT kind, IrqEnter(kind) PROVE stat'[z] = "CLOSE"
    BY <2>1 DEF IrqEnter
  <2>2. CASE rt_tick_increase
    <3>1. rt_current_thread \in Thread
      BY <1>1 DEF TypeOK
    <3>2. \/ Commit(rt_schedule([Kernel EXCEPT !.yield[rt_current_thread] = TRUE]))
          \/ Commit(Kernel)
      BY <2>2 DEF rt_tick_increase
    <3>3. CASE Commit(Kernel)
      BY <1>1, <3>3 DEF Commit
    <3>4. CASE Commit(rt_schedule([Kernel EXCEPT !.yield[rt_current_thread] = TRUE]))
      BY <1>3, <3>1, <3>4
    <3> QED
      BY <3>2, <3>3, <3>4
  <2>3. ASSUME NEW CONSTANT t, t \in Thread, stat[t] = "SUSPEND", t \notin DeletedSet,
               Commit(rt_schedule(Resumed(Kernel, t)))
        PROVE  stat'[z] = "CLOSE"
    <3> DEFINE x == Resumed(Kernel, t)
    <3>1. KInv(x, DeletedSet, current_priority)
      BY <1>1, <2>3, ResumedInv
    <3>2. x.stat[z] = "CLOSE"
      BY <1>1, <2>3, OthersStat
    <3> HIDE DEF x
    <3> QED
      BY <1>2, <2>3, <3>1, <3>2 DEF x
  <2>4. ASSUME NEW CONSTANT t, t \in Thread, _thread_timeout(t) PROVE stat'[z] = "CLOSE"
    <3>1. stat[t] = "SUSPEND" /\ t \notin DeletedSet
      BY <2>4 DEF IInv, TimeoutAssertion, DeleteWindow, DeletedSet, DeletedByOther,
                  _thread_timeout
    <3> QED
      BY <2>3, <2>4, <3>1 DEF _thread_timeout
  <2>5. ASSUME NEW CONSTANT t, t \in Thread, DeviceWake(t) PROVE stat'[z] = "CLOSE"
    BY <2>3, <2>5, NotDeletedFacts DEF DeviceWake
  <2>6. CASE IrqLeave
    BY <2>6 DEF IrqLeave
  <2> QED
    BY <1>6, <2>1, <2>2, <2>4, <2>5, <2>6 DEF IsrStep
<1>7. CASE UNCHANGED vars
  BY <1>7 DEF vars
<1> QED
  BY <1>4, <1>5, <1>6, <1>7 DEF Next

\* A closed thread stays closed and off the CPU until idle has reclaimed it, so idle frees no
\* stack in use (rt_defunct_execute).
THEOREM ZombieCorrect ==
  ASSUME ~TimedDelete
  PROVE  Spec => ZombieStaysOff
<1> DEFINE Off == \A t \in Thread :
                    stat[t] = "CLOSE" => /\ stat'[t] \in {"CLOSE", "NULL"}
                                         /\ cpu # t => cpu' # t
<1>1. Init => IInv /\ FlagInv
  BY InitInv DEF Init, FlagInv
<1>2. IInv /\ FlagInv /\ [Next]_vars => (IInv /\ FlagInv)'
  BY NextInv, FlagStep
<1>3. IInv /\ FlagInv /\ [Next]_vars => [Off]_vars
  BY CpuStep, ClosedStep
<1> QED
  BY <1>1, <1>2, <1>3, PTL DEF Spec, ZombieStaysOff

\* rt_enter_critical keeps every other thread off the CPU.
THEOREM CriticalCorrect ==
  ASSUME ~TimedDelete
  PROVE  Spec => CriticalKeepsCpu
<1>1. Init => IInv /\ FlagInv
  BY InitInv DEF Init, FlagInv
<1>2. IInv /\ FlagInv /\ [Next]_vars => (IInv /\ FlagInv)'
  BY NextInv, FlagStep
<1>3. IInv /\ FlagInv /\ [Next]_vars => [lock_nest > 0 => cpu' = cpu]_vars
  BY CpuStep
<1> QED
  BY <1>1, <1>2, <1>3, PTL DEF Spec, CriticalKeepsCpu

=============================================================================
