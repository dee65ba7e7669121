------------------------------- MODULE Mutex -------------------------------
(***************************************************************************)
(* The mutexes of src/rt-thread/src/ipc.c: recursive, with a wait list in  *)
(* the order of priority, timed waits, direct hand-over to the first       *)
(* waiter and priority inheritance.                                        *)
(*                                                                         *)
(* Which thread has the CPU is left open: any thread that does not wait    *)
(* may take its next step, so that what holds here holds under every       *)
(* schedule.  A step is an interrupt-free section of ipc.c, or of          *)
(* _thread_timeout in the tick interrupt.                                  *)
(***************************************************************************)
EXTENDS Integers, SequencesExt

CONSTANTS
  Thread,                  \* the threads
  Mutex,                   \* the mutex objects
  NULL,                    \* the owner of a free mutex
  RT_THREAD_PRIORITY_MAX,  \* number of priorities, 0 being the most urgent
  InitPriority,            \* [Thread -> the thread's own priority]
  RT_MUTEX_HOLD_MAX,       \* limit of the nesting of one mutex
  Nested,                  \* may a thread ask for a mutex while it owns another?
  Detaches                 \* may a thread detach a mutex that is its own or free?

Priority == 0 .. RT_THREAD_PRIORITY_MAX - 1

\* original_priority of a free mutex
NoPriority == 255

ASSUME NullAssumption == NULL \notin Thread
ASSUME PriorityAssumption == RT_THREAD_PRIORITY_MAX \in 1 .. NoPriority
ASSUME InitPriorityAssumption == InitPriority \in [Thread -> Priority]
ASSUME HoldAssumption == RT_MUTEX_HOLD_MAX \in Nat \ {0}
ASSUME UseAssumption == Nested \in BOOLEAN /\ Detaches \in BOOLEAN

VARIABLES
  current_priority,   \* [Thread -> Priority]
  error,              \* [Thread -> Error] thread->error
  thread_timer,       \* [Thread -> BOOLEAN] RT_TIMER_FLAG_ACTIVATED
  pc,                 \* [Thread -> PC]
  wanted,             \* [Thread -> Mutex] the mutex of its last wait or detach
  inited,             \* the mutexes that exist
  value,              \* [Mutex -> 0 .. 1]
  owner,              \* [Mutex -> Thread or NULL]
  original_priority,  \* [Mutex -> Priority or NoPriority]
  hold,               \* [Mutex -> Nat]
  suspend_thread      \* [Mutex -> Seq(Thread)] the wait list

vars == <<current_priority, error, thread_timer, pc, wanted, inited, value, owner,
          original_priority, hold, suspend_thread>>

Error == {"EOK", "ETIMEOUT", "ERROR"}

\* "wait": suspended inside rt_mutex_take; "return": woken, about to look at
\* thread->error; "detach", "resume": inside the loop of _ipc_list_resume_all,
\* before its test and before its body.
PC == {"run", "wait", "return", "detach", "resume"}

Init ==
  /\ current_priority = InitPriority
  /\ error = [t \in Thread |-> "EOK"]
  /\ thread_timer = [t \in Thread |-> FALSE]
  /\ pc = [t \in Thread |-> "run"]
  /\ wanted \in {[t \in Thread |-> m] : m \in Mutex}
  /\ inited = {}
  /\ value = [m \in Mutex |-> 0]
  /\ owner = [m \in Mutex |-> NULL]
  /\ original_priority = [m \in Mutex |-> NoPriority]
  /\ hold = [m \in Mutex |-> 0]
  /\ suspend_thread = [m \in Mutex |-> <<>>]

\* The mutexes a thread owns.
Owned(t) == {m \in inited : owner[m] = t}

\* The mutexes being detached; nobody else uses them.
Detaching == {wanted[t] : t \in {u \in Thread : pc[u] \in {"detach", "resume"}}}

-----------------------------------------------------------------------------
(***************************************************************************)
(* Set-up and the wait list.                                               *)
(***************************************************************************)

\* rt_mutex_init, rt_mutex_create
rt_mutex_init(t, m) ==
  /\ pc[t] = "run" /\ m \notin inited
  /\ inited' = inited \cup {m}
  /\ value' = [value EXCEPT ![m] = 1]
  /\ owner' = [owner EXCEPT ![m] = NULL]
  /\ original_priority' = [original_priority EXCEPT ![m] = NoPriority]
  /\ hold' = [hold EXCEPT ![m] = 0]
  /\ suspend_thread' = [suspend_thread EXCEPT ![m] = <<>>]
  /\ UNCHANGED <<current_priority, error, thread_timer, pc, wanted>>

\* Mutants of Suspended: first come, first served; the least urgent first.
SuspendedFifo(s, t) == Append(s, t)

SuspendedReversed(s, t) ==
  LET i == SelectInSeq(s, LAMBDA u : current_priority[t] >= current_priority[u])
  IN  IF i = 0 THEN Append(s, t) ELSE InsertAt(s, i, t)

\* _ipc_list_suspend with RT_IPC_FLAG_PRIO: t goes in front of the first waiter
\* that is less urgent.
Suspended(s, t) ==
  LET i == SelectInSeq(s, LAMBDA u : current_priority[t] < current_priority[u])
  IN  IF i = 0 THEN Append(s, t) ELSE InsertAt(s, i, t)

\* rt_thread_resume of a waiter of m, after thread->error has been set to e.
Resumed(t, m, e) ==
  /\ suspend_thread' = [suspend_thread EXCEPT ![m] = RemoveFirst(@, t)]
  /\ thread_timer' = [thread_timer EXCEPT ![t] = FALSE]
  /\ error' = [error EXCEPT ![t] = e]

-----------------------------------------------------------------------------
(***************************************************************************)
(* rt_mutex_take                                                           *)
(***************************************************************************)

\* A thread asks for m.
Taking(t, m) ==
  /\ pc[t] = "run" /\ m \in inited \ Detaching
  /\ Nested \/ Owned(t) \subseteq {m}

\* Mutant of TakeAgain: the limit of the counter is not checked.
TakeAgainUnbounded(t, m) ==
  /\ Taking(t, m) /\ owner[m] = t
  /\ hold' = [hold EXCEPT ![m] = @ + 1]
  /\ error' = [error EXCEPT ![t] = "EOK"]
  /\ UNCHANGED <<current_priority, thread_timer, pc, wanted, inited, value, owner,
                 original_priority, suspend_thread>>

\* The owner takes its mutex once more; at the limit the call fails, -RT_EFULL.
TakeAgain(t, m) ==
  /\ Taking(t, m) /\ owner[m] = t
  /\ hold' = [hold EXCEPT ![m] = IF @ < RT_MUTEX_HOLD_MAX THEN @ + 1 ELSE @]
  /\ error' = [error EXCEPT ![t] = "EOK"]
  /\ UNCHANGED <<current_priority, thread_timer, pc, wanted, inited, value, owner,
                 original_priority, suspend_thread>>

TakeFree(t, m) ==
  /\ Taking(t, m) /\ owner[m] # t /\ value[m] > 0
  /\ value' = [value EXCEPT ![m] = @ - 1]
  /\ owner' = [owner EXCEPT ![m] = t]
  /\ original_priority' = [original_priority EXCEPT ![m] = current_priority[t]]
  /\ hold' = [hold EXCEPT ![m] = IF @ < RT_MUTEX_HOLD_MAX THEN @ + 1 ELSE @]
  /\ error' = [error EXCEPT ![t] = "EOK"]
  /\ UNCHANGED <<current_priority, thread_timer, pc, wanted, inited, suspend_thread>>

\* rt_mutex_trytake, or a timeout of 0, on a mutex somebody else owns
TakeFails(t, m) ==
  /\ Taking(t, m) /\ owner[m] # t /\ value[m] = 0
  /\ error' = [error EXCEPT ![t] = "ETIMEOUT"]
  /\ UNCHANGED <<current_priority, thread_timer, pc, wanted, inited, value, owner,
                 original_priority, hold, suspend_thread>>

\* The owner inherits the priority of a more urgent thread before that thread
\* is suspended, with its timer running unless it waits for ever.
TakeWait(t, m, timed) ==
  /\ Taking(t, m) /\ owner[m] # t /\ value[m] = 0
  /\ current_priority' = [current_priority EXCEPT ![owner[m]] =
                            IF current_priority[t] < @ THEN current_priority[t] ELSE @]
  /\ suspend_thread' = [suspend_thread EXCEPT ![m] = Suspended(@, t)]
  /\ thread_timer' = [thread_timer EXCEPT ![t] = timed]
  /\ error' = [error EXCEPT ![t] = "EOK"]
  /\ pc' = [pc EXCEPT ![t] = "wait"]
  /\ wanted' = [wanted EXCEPT ![t] = m]
  /\ UNCHANGED <<inited, value, owner, original_priority, hold>>

\* Mutant of _thread_timeout: the thread stays in the wait list.
TimeoutKeepsLinked(t) ==
  /\ thread_timer[t]
  /\ error' = [error EXCEPT ![t] = "ETIMEOUT"]
  /\ thread_timer' = [thread_timer EXCEPT ![t] = FALSE]
  /\ pc' = [pc EXCEPT ![t] = "return"]
  /\ UNCHANGED <<current_priority, wanted, inited, value, owner, original_priority,
                 hold, suspend_thread>>

\* The thread timer fires: out of the wait list, with an error.  Nothing undoes
\* what the owner inherited.
_thread_timeout(t) ==
  /\ thread_timer[t]
  /\ Resumed(t, wanted[t], "ETIMEOUT")
  /\ pc' = [pc EXCEPT ![t] = "return"]
  /\ UNCHANGED <<current_priority, wanted, inited, value, owner, original_priority,
                 hold>>

\* The woken thread looks at thread->error and returns from rt_mutex_take.
TakeReturn(t) ==
  /\ pc[t] = "return"
  /\ pc' = [pc EXCEPT ![t] = "run"]
  /\ UNCHANGED <<current_priority, error, thread_timer, wanted, inited, value, owner,
                 original_priority, hold, suspend_thread>>

-----------------------------------------------------------------------------
(***************************************************************************)
(* rt_mutex_release                                                        *)
(***************************************************************************)

Releasing(t, m) == pc[t] = "run" /\ m \in inited \ Detaching

ReleaseFails(t, m) ==
  /\ Releasing(t, m) /\ owner[m] # t
  /\ error' = [error EXCEPT ![t] = "ERROR"]
  /\ UNCHANGED <<current_priority, thread_timer, pc, wanted, inited, value, owner,
                 original_priority, hold, suspend_thread>>

ReleaseInner(t, m) ==
  /\ Releasing(t, m) /\ owner[m] = t /\ hold[m] > 1
  /\ hold' = [hold EXCEPT ![m] = @ - 1]
  /\ UNCHANGED <<current_priority, error, thread_timer, pc, wanted, inited, value,
                 owner, original_priority, suspend_thread>>

\* Mutant of Restored: the inherited priority is kept.
NotRestored(t, m) == current_priority' = current_priority

\* The last release takes the owner back to the priority it had when it got m.
Restored(t, m) ==
  current_priority' = [current_priority EXCEPT ![t] = original_priority[m]]

ReleaseFree(t, m) ==
  /\ Releasing(t, m) /\ owner[m] = t /\ hold[m] = 1 /\ suspend_thread[m] = <<>>
  /\ Restored(t, m)
  /\ hold' = [hold EXCEPT ![m] = 0]
  /\ value' = [value EXCEPT ![m] = @ + 1]
  /\ owner' = [owner EXCEPT ![m] = NULL]
  /\ original_priority' = [original_priority EXCEPT ![m] = NoPriority]
  /\ UNCHANGED <<error, thread_timer, pc, wanted, inited, suspend_thread>>

\* Mutant of ReleaseHandOver: the value goes up although m goes to the waiter.
HandOverFrees(t, m) ==
  /\ Releasing(t, m) /\ owner[m] = t /\ hold[m] = 1 /\ suspend_thread[m] # <<>>
  /\ Restored(t, m)
  /\ LET u == Head(suspend_thread[m])
     IN  /\ owner' = [owner EXCEPT ![m] = u]
         /\ original_priority' = [original_priority EXCEPT ![m] = current_priority[u]]
         /\ Resumed(u, m, error[u])
         /\ pc' = [pc EXCEPT ![u] = "return"]
  /\ value' = [value EXCEPT ![m] = 1]
  /\ UNCHANGED <<wanted, inited, hold>>

\* The mutex goes to the first waiter without ever being free.
ReleaseHandOver(t, m) ==
  /\ Releasing(t, m) /\ owner[m] = t /\ hold[m] = 1 /\ suspend_thread[m] # <<>>
  /\ Restored(t, m)
  /\ LET u == Head(suspend_thread[m])
     IN  /\ owner' = [owner EXCEPT ![m] = u]
         /\ original_priority' = [original_priority EXCEPT ![m] = current_priority[u]]
         /\ Resumed(u, m, error[u])
         /\ pc' = [pc EXCEPT ![u] = "return"]
  /\ UNCHANGED <<wanted, inited, value, hold>>

-----------------------------------------------------------------------------
(***************************************************************************)
(* rt_mutex_detach and rt_mutex_delete of a mutex nobody else owns.        *)
(***************************************************************************)

\* A mutex is not detached while a thread waits for it with a timeout: the loop
\* tests its list with interrupts enabled (see module IpcThread).
DetachStart(t, m) ==
  /\ Detaches
  /\ Releasing(t, m) /\ owner[m] \in {t, NULL}
  /\ \A u \in ToSet(suspend_thread[m]) : ~thread_timer[u]
  /\ pc' = [pc EXCEPT ![t] = "detach"]
  /\ wanted' = [wanted EXCEPT ![t] = m]
  /\ UNCHANGED <<current_priority, error, thread_timer, inited, value, owner,
                 original_priority, hold, suspend_thread>>

\* One turn of _ipc_list_resume_all: the test of its list ...
DetachTest(t) ==
  /\ pc[t] = "detach" /\ suspend_thread[wanted[t]] # <<>>
  /\ pc' = [pc EXCEPT ![t] = "resume"]
  /\ UNCHANGED <<current_priority, error, thread_timer, wanted, inited, value, owner,
                 original_priority, hold, suspend_thread>>

\* ... and, with interrupts disabled, the thread it resumes.
DetachResume(t) ==
  /\ pc[t] = "resume"
  /\ LET u == Head(suspend_thread[wanted[t]])
     IN  /\ Resumed(u, wanted[t], "ERROR")
         /\ pc' = [pc EXCEPT ![u] = "return", ![t] = "detach"]
  /\ UNCHANGED <<current_priority, wanted, inited, value, owner, original_priority,
                 hold>>

DetachEnd(t) ==
  /\ pc[t] = "detach" /\ suspend_thread[wanted[t]] = <<>>
  /\ inited' = inited \ {wanted[t]}
  /\ pc' = [pc EXCEPT ![t] = "run"]
  /\ UNCHANGED <<current_priority, error, thread_timer, wanted, value, owner,
                 original_priority, hold, suspend_thread>>

-----------------------------------------------------------------------------
Take(t, m) ==
  \/ TakeAgain(t, m) \/ TakeFree(t, m) \/ TakeFails(t, m)
  \/ \E timed \in BOOLEAN : TakeWait(t, m, timed)

LastRelease(t, m) == ReleaseFree(t, m) \/ ReleaseHandOver(t, m)

Release(t, m) == ReleaseFails(t, m) \/ ReleaseInner(t, m) \/ LastRelease(t, m)

Next ==
  \E t \in Thread :
    \/ \E m \in Mutex :
         rt_mutex_init(t, m) \/ Take(t, m) \/ Release(t, m) \/ DetachStart(t, m)
    \/ _thread_timeout(t) \/ TakeReturn(t)
    \/ DetachTest(t) \/ DetachResume(t) \/ DetachEnd(t)

Spec == Init /\ [][Next]_vars

\* No thread keeps a mutex for ever: an owner gives back what it took, down to
\* the last hold, and a woken thread goes on.
FairSpec ==
  /\ Spec
  /\ \A t \in Thread :
       /\ WF_vars(TakeReturn(t))
       /\ \A m \in Mutex : WF_vars(ReleaseInner(t, m)) /\ SF_vars(LastRelease(t, m))

-----------------------------------------------------------------------------
(***************************************************************************)
(* Correctness.                                                            *)
(***************************************************************************)

\* Every variable has the type its C declaration and its use give it.
TypeOK ==
  /\ current_priority \in [Thread -> Priority]
  /\ error \in [Thread -> Error]
  /\ thread_timer \in [Thread -> BOOLEAN]
  /\ pc \in [Thread -> PC]
  /\ wanted \in [Thread -> Mutex]
  /\ inited \subseteq Mutex
  /\ value \in [Mutex -> 0 .. 1]
  /\ owner \in [Mutex -> Thread \cup {NULL}]
  /\ original_priority \in [Mutex -> Priority \cup {NoPriority}]
  /\ hold \in [Mutex -> 0 .. RT_MUTEX_HOLD_MAX]
  /\ suspend_thread \in [Mutex -> Seq(Thread)]

\* A mutex is free, unheld and without waiters, or it has an owner: no release
\* and no timeout leaves a waiter behind at a free mutex.
FreeOrOwned ==
  \A m \in inited :
    \/ owner[m] = NULL /\ value[m] = 1 /\ hold[m] = 0 /\ suspend_thread[m] = <<>>
    \/ owner[m] # NULL /\ value[m] = 0 /\ hold[m] > 0

\* The wait list of m holds exactly the threads suspended in rt_mutex_take of
\* m, each once; the owner is not among them, and only they have a timer.
WaitersExact ==
  /\ \A m \in inited :
       /\ IsInjective(suspend_thread[m])
       /\ ToSet(suspend_thread[m]) = {t \in Thread : pc[t] = "wait" /\ wanted[t] = m}
       /\ owner[m] \notin ToSet(suspend_thread[m])
  /\ \A t \in Thread : /\ pc[t] = "wait" => wanted[t] \in inited
                       /\ thread_timer[t] => pc[t] = "wait"

\* rt_mutex_take: "ONLY When the return value is RT_EOK, the operation is
\* successful": whatever the order of release, timeout and detach, a waiter
\* returns RT_EOK if and only if the mutex has been handed to it.
HandOverExact ==
  \A t \in Thread :
    pc[t] = "return" =>
      (error[t] = "EOK" <=> wanted[t] \in inited /\ owner[wanted[t]] = t)

\* "how the mutex prevents priority inversions": the owner of a mutex is at
\* least as urgent as every thread that waits for it.
Inherited ==
  \A m \in inited : \A t \in ToSet(suspend_thread[m]) :
    current_priority[owner[m]] <= current_priority[t]

\* "change the owner thread to original priority": a thread without a mutex
\* has its own priority again, whoever waited and gave up in the meantime.
PriorityRestored ==
  \A t \in Thread : Owned(t) = {} => current_priority[t] = InitPriority[t]

\* The most urgent thread does not wait for ever, even without a timeout.
UrgentServed ==
  \A t \in Thread :
    (\A u \in Thread \ {t} : InitPriority[t] < InitPriority[u])
      => (pc[t] = "wait" ~> pc[t] # "wait")

=============================================================================
