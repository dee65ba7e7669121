----------------------------- MODULE IpcThread -----------------------------
(***************************************************************************)
(* The thread's side of the blocking calls of ipc.c and mempool.c in       *)
(* src/rt-thread/src and of src/rt-thread/components/drivers/ipc: wait     *)
(* lists, timed waits, waking, and the loop with which an object is        *)
(* detached.  Semaphore, Event, Mailbox, MessageQueue, MemPool,            *)
(* Completion, WaitQueue and DataQueue extend it.                          *)
(*                                                                         *)
(* Which thread has the CPU is left open: a thread that is not suspended   *)
(* may take its next step.  A step is a section with interrupts disabled,  *)
(* so a call without waiting also stands for one from an interrupt.        *)
(***************************************************************************)
EXTENDS Integers, FiniteSets, SequencesExt

CONSTANTS
  Thread,            \* the threads
  current_priority,  \* [Thread -> Nat], 0 being the most urgent
  Flag,              \* RT_IPC_FLAG_FIFO or RT_IPC_FLAG_PRIO, for every object
  TickMod,           \* rt_tick_t counts modulo TickMod
  Timeouts,          \* the timeouts of the calls: -1 for ever, 0 none, or ticks
  Msg,               \* the messages of mailboxes and message queues
  Objects,           \* the kinds of objects the application creates
  MaxObjects,        \* bound on the objects that exist at a time
  MaxLag,            \* bound on the ticks from the start of a timed wait to the
                     \* step of the thread woken from it
  TimedDetach        \* are objects detached while threads wait with a timeout?

RT_WAITING_FOREVER == -1

Detachable == {"sem", "event", "mb", "mq", "mp", "dq"}
Object == Detachable \cup {"completion", "wqueue"}
List   == {"sem", "event", "mb", "mb_sender", "mq", "mq_sender", "mp",
           "completion", "dq_pop", "dq_push"}
DetachList == List \ {"completion"}

ASSUME ThreadAssumption == IsFiniteSet(Thread)
ASSUME PriorityAssumption == current_priority \in [Thread -> Nat]
ASSUME FlagAssumption == Flag \in {"RT_IPC_FLAG_FIFO", "RT_IPC_FLAG_PRIO"}
ASSUME TickAssumption == TickMod \in Nat /\ MaxLag \in 1 .. TickMod - 1
ASSUME TimeoutsAssumption == Timeouts \subseteq RT_WAITING_FOREVER .. TickMod - 1
ASSUME MsgAssumption == "none" \notin Msg
ASSUME ObjectsAssumption == Objects \subseteq Object /\ MaxObjects \in Nat
ASSUME DetachAssumption == TimedDetach \in BOOLEAN

VARIABLES
  exists,          \* the objects that are initialised
  pc,              \* [Thread -> PC]
  op,              \* [Thread -> Op] the call the thread is in
  arg,             \* [Thread -> the message, or the object, of that call]
  error,           \* [Thread -> Error] thread->error
  rt_tick,         \* the tick counter
  thread_timer,    \* [Thread -> the tick its timer expires at, or NoTimer]
  timeout,         \* [Thread -> Int] the local variable of the call
  tick_delta,      \* [Thread -> tick] the local variable of the call
  budget,          \* [Thread -> Int] history: ticks left of the timeout the
                   \* caller gave
  suspend_thread,  \* [List -> Seq(Thread)] the wait lists
  lists            \* [Thread -> Seq(List)] lists a detach still has to empty

threadVars == <<pc, op, arg, error, rt_tick, thread_timer, timeout, tick_delta,
                budget, suspend_thread, lists>>

NoTimer == -1
NoArg   == "none"
Error   == {"EOK", "ETIMEOUT", "ERROR", "EINTR"}
Op      == {"none", "sem_take", "event_recv", "mb_send", "mb_recv", "mq_send",
            "mq_urgent", "mq_recv", "mp_alloc", "completion_wait", "wqueue_wait",
            "dq_push", "dq_pop", "dq_reset", "detach"}

\* "wait": suspended; "woken": resumed, about to look at thread->error;
\* "copy", "link", "fetch", "free": inside a message queue call between two
\* sections; "return": about to return a message; "test" and "resume": inside
\* the loop of _ipc_list_resume_all; "done", "remove", "relock", "lock": inside
\* a call on a completion, wait queue, memory pool or data queue between sections.
PC == {"run", "wait", "woken", "copy", "link", "fetch", "free", "return", "test",
       "resume", "done", "remove", "relock", "lock"}

ThreadInit ==
  /\ exists = {}
  /\ pc = [t \in Thread |-> "run"]
  /\ op = [t \in Thread |-> "none"]
  /\ arg = [t \in Thread |-> NoArg]
  /\ error = [t \in Thread |-> "EOK"]
  /\ rt_tick = 0
  /\ thread_timer = [t \in Thread |-> NoTimer]
  /\ timeout = [t \in Thread |-> 0]
  /\ tick_delta = [t \in Thread |-> 0]
  /\ budget = [t \in Thread |-> 0]
  /\ suspend_thread = [l \in List |-> <<>>]
  /\ lists = [t \in Thread |-> <<>>]

\* a - b on rt_tick_t
Minus(a, b) == (a - b) % TickMod

Maximum(a, b) == IF a > b THEN a ELSE b

Waiters(l) == ToSet(suspend_thread[l])

-----------------------------------------------------------------------------
(***************************************************************************)
(* Suspending and resuming.                                                *)
(***************************************************************************)

\* A thread starts a call on an object, which nobody is detaching.
Calling(t, o) ==
  /\ pc[t] = "run" /\ o \in exists
  /\ \A u \in Thread : op[u] = "detach" => arg[u] # o

\* A new object; rt_xx_create differs in where the memory comes from.
Creating(t, o) ==
  /\ pc[t] = "run" /\ o \in Objects \ exists
  /\ Cardinality(exists) < MaxObjects
  /\ exists' = exists \cup {o}

\* _ipc_list_suspend
_ipc_list_suspend(s, t) ==
  LET i == SelectInSeq(s, LAMBDA u : current_priority[t] < current_priority[u])
  IN  IF Flag = "RT_IPC_FLAG_FIFO" \/ i = 0 THEN Append(s, t) ELSE InsertAt(s, i, t)

\* t is suspended in list l, for n ticks if n is positive.  A memory pool puts
\* it in front of everybody else, a data queue behind.
Suspend(t, l, n) ==
  /\ suspend_thread' = [suspend_thread EXCEPT ![l] =
                          CASE l = "mp" -> <<t>> \o @
                            [] l \in {"dq_pop", "dq_push"} -> Append(@, t)
                            [] OTHER -> _ipc_list_suspend(@, t)]
  /\ error' = [error EXCEPT ![t] = "EOK"]
  /\ thread_timer' =
       [thread_timer EXCEPT ![t] = IF n > 0 THEN (rt_tick + n) % TickMod ELSE NoTimer]
  /\ pc' = [pc EXCEPT ![t] = "wait"]

\* The call o of t, with argument a, waits for the first time.
Wait(t, o, a, l, n) ==
  /\ n # 0
  /\ Suspend(t, l, n)
  /\ op' = [op EXCEPT ![t] = o]
  /\ arg' = [arg EXCEPT ![t] = a]
  /\ timeout' = [timeout EXCEPT ![t] = n]
  /\ budget' = [budget EXCEPT ![t] = n]
  /\ UNCHANGED <<exists, rt_tick, lists>>

\* rt_list_remove of the threads in S from list s.
Kept(s, S) ==
  LET kept[i \in 0 .. Len(s)] ==
        IF i = 0 THEN <<>>
        ELSE IF s[i] \in S THEN kept[i - 1] ELSE Append(kept[i - 1], s[i])
  IN  kept[Len(s)]

\* Mutant of Resume: the thread's timer is not stopped.
ResumeKeepsTimer(S, p) ==
  /\ suspend_thread' = [l \in List |-> Kept(suspend_thread[l], S)]
  /\ pc' = [u \in Thread |-> IF u \in S THEN "woken" ELSE p[u]]
  /\ UNCHANGED thread_timer

\* rt_thread_resume of the threads in S, while p is what becomes of the others.
Resume(S, p) ==
  /\ suspend_thread' = [l \in List |-> Kept(suspend_thread[l], S)]
  /\ thread_timer' = [u \in Thread |-> IF u \in S THEN NoTimer ELSE thread_timer[u]]
  /\ pc' = [u \in Thread |-> IF u \in S THEN "woken" ELSE p[u]]

\* Whom _ipc_list_resume takes from list l, if anybody waits there.
First(l) == IF suspend_thread[l] = <<>> THEN {} ELSE {Head(suspend_thread[l])}

SetError(S, e) == error' = [u \in Thread |-> IF u \in S THEN e ELSE error[u]]

\* The call of t is over: its local variables are gone.
Returned(t) ==
  /\ op' = [op EXCEPT ![t] = "none"]
  /\ arg' = [arg EXCEPT ![t] = NoArg]
  /\ timeout' = [timeout EXCEPT ![t] = 0]
  /\ tick_delta' = [tick_delta EXCEPT ![t] = 0]
  /\ budget' = [budget EXCEPT ![t] = 0]

\* A waiter finds an error and gives up, in the calls of ipc.c.
WaitFailed(t) ==
  /\ pc[t] = "woken" /\ error[t] # "EOK"
  /\ op[t] \notin {"completion_wait", "wqueue_wait"}
  /\ pc' = [pc EXCEPT ![t] = "run"]
  /\ Returned(t)
  /\ UNCHANGED <<exists, error, rt_tick, thread_timer, suspend_thread, lists>>

\* Mutant of TimeLeft: the whole timeout again.
TimeLeftRestarts(t) == timeout[t]

\* What a woken thread makes of its timeout before it looks at the object again.
TimeLeft(t) ==
  IF timeout[t] > 0 THEN Maximum(timeout[t] - Minus(rt_tick, tick_delta[t]), 0)
  ELSE timeout[t]

\* The list a call waits in; a wait queue keeps its threads in none.
ListOf(o) ==
  CASE o = "sem_take" -> "sem" [] o = "event_recv" -> "event"
    [] o = "mb_recv" -> "mb" [] o = "mb_send" -> "mb_sender"
    [] o = "mq_recv" -> "mq" [] o \in {"mq_send", "mq_urgent"} -> "mq_sender"
    [] o = "mp_alloc" -> "mp" [] o = "completion_wait" -> "completion"
    [] o \in {"dq_pop", "dq_push"} -> o [] OTHER -> "none"

\* A call that may have to wait several times notes the tick of each wait ...
TimedWait(t, o, a, n) ==
  /\ Wait(t, o, a, ListOf(o), n)
  /\ tick_delta' = [tick_delta EXCEPT ![t] = IF n > 0 THEN rt_tick ELSE @]

\* The threads woken in call o that look at the object again.
Retrying(o) == {t \in Thread : pc[t] = "woken" /\ op[t] = o /\ error[t] = "EOK"}

\* ... and a woken thread that finds nothing waits for what is left, or fails:
\* -RT_EFULL, or -RT_ETIMEOUT which a receiver also leaves in thread->error.
WaitAgain(t) ==
  /\ \/ /\ TimeLeft(t) # 0
        /\ Suspend(t, ListOf(op[t]), TimeLeft(t))
        /\ timeout' = [timeout EXCEPT ![t] = TimeLeft(t)]
        /\ tick_delta' = [tick_delta EXCEPT ![t] = IF TimeLeft(t) > 0 THEN rt_tick ELSE @]
        /\ UNCHANGED <<op, arg, budget>>
     \/ /\ TimeLeft(t) = 0
        /\ error' = [error EXCEPT ![t] =
                       IF op[t] \in {"mb_recv", "mq_recv"} THEN "ETIMEOUT" ELSE "EOK"]
        /\ pc' = [pc EXCEPT ![t] = "run"]
        /\ Returned(t)
        /\ UNCHANGED <<suspend_thread, thread_timer>>
  /\ UNCHANGED <<exists, rt_tick, lists>>

-----------------------------------------------------------------------------
(***************************************************************************)
(* The tick interrupt: rt_timer_check calls _thread_timeout of every       *)
(* thread whose timer is due.                                              *)
(***************************************************************************)

Due(tick) == {t \in Thread : thread_timer[t] = tick}

\* The calls that subtract the time they have waited from their timeout.
Recomputing == {"mb_send", "mb_recv", "mq_send", "mq_recv", "mp_alloc"}

\* Nobody woken in such a call looks at the object again later than MaxLag ticks
\* after the wait began (tick_delta): the code subtracts ticks modulo TickMod.
LagBounded ==
  \A t \in Thread :
    pc[t] \in {"woken", "relock"} /\ op[t] \in Recomputing /\ timeout[t] > 0 =>
      Minus(rt_tick, tick_delta[t]) < MaxLag

\* Mutant of Tick: the thread keeps the error number it had.
TickKeepsError ==
  LET tick == (rt_tick + 1) % TickMod
  IN  /\ LagBounded
      /\ rt_tick' = tick
      /\ Resume(Due(tick), pc)
      /\ budget' = [t \in Thread |-> IF budget[t] > 0 THEN budget[t] - 1 ELSE budget[t]]
      /\ UNCHANGED <<error, exists, op, arg, timeout, tick_delta, lists>>

Tick ==
  LET tick == (rt_tick + 1) % TickMod
  IN  /\ LagBounded
      /\ rt_tick' = tick
      /\ SetError(Due(tick), "ETIMEOUT")
      /\ Resume(Due(tick), pc)
      /\ budget' = [t \in Thread |-> IF budget[t] > 0 THEN budget[t] - 1 ELSE budget[t]]
      /\ UNCHANGED <<exists, op, arg, timeout, tick_delta, lists>>

-----------------------------------------------------------------------------
(***************************************************************************)
(* rt_xx_detach and rt_xx_delete.                                          *)
(***************************************************************************)

ListsOf(o) ==
  CASE o = "mb" -> <<"mb", "mb_sender">>
    [] o = "mq" -> <<"mq", "mq_sender">>
    [] o = "dq" -> <<"dq_pop", "dq_push">>
    [] OTHER   -> <<o>>

Inside(t, o) ==
  \/ op[t] \notin {"none", "detach"} /\ ListOf(op[t]) \in ToSet(ListsOf(o))
  \/ op[t] = "dq_reset" /\ o = "dq"

\* The application detaches an object only when every thread inside a call on
\* it is suspended and, unless TimedDetach, waits without a timeout.
Quiet(o) ==
  \A u \in Thread :
    Inside(u, o) => pc[u] = "wait" /\ (TimedDetach \/ thread_timer[u] = NoTimer)

DetachStart(t, o) ==
  /\ Calling(t, o) /\ Quiet(o)
  /\ lists' = [lists EXCEPT ![t] = ListsOf(o)]
  /\ op' = [op EXCEPT ![t] = "detach"]
  /\ arg' = [arg EXCEPT ![t] = o]
  /\ pc' = [pc EXCEPT ![t] = "test"]
  /\ UNCHANGED <<exists, error, rt_tick, thread_timer, timeout, tick_delta, budget,
                 suspend_thread>>

\* _ipc_list_resume_all tests its list with interrupts enabled ...
ResumeAllTest(t) ==
  /\ pc[t] = "test" /\ lists[t] # <<>>
  /\ IF suspend_thread[Head(lists[t])] = <<>>
     THEN lists' = [lists EXCEPT ![t] = Tail(@)] /\ UNCHANGED pc
     ELSE pc' = [pc EXCEPT ![t] = "resume"] /\ UNCHANGED lists
  /\ UNCHANGED <<exists, op, arg, error, rt_tick, thread_timer, timeout, tick_delta,
                 budget, suspend_thread>>

\* ... and then takes its first thread.  Without one the code goes on with a
\* pointer that is no thread, which ends the behaviours modelled.
ResumeAllNext(t) ==
  /\ pc[t] = "resume"
  /\ LET S == First(Head(lists[t]))
     IN  /\ S # {}
         /\ SetError(S, "ERROR")
         /\ Resume(S, [pc EXCEPT ![t] = "test"])
  /\ UNCHANGED <<exists, op, arg, rt_tick, timeout, tick_delta, budget, lists>>

DetachEnd(t) ==
  /\ pc[t] = "test" /\ lists[t] = <<>> /\ op[t] = "detach"
  /\ exists' = exists \ {arg[t]}
  /\ pc' = [pc EXCEPT ![t] = "run"]
  /\ Returned(t)
  /\ UNCHANGED <<error, rt_tick, thread_timer, suspend_thread, lists>>

ThreadStep(t) ==
  \/ WaitFailed(t)
  \/ \E o \in Detachable : DetachStart(t, o)
  \/ ResumeAllTest(t) \/ ResumeAllNext(t) \/ DetachEnd(t)

-----------------------------------------------------------------------------
(***************************************************************************)
(* Correctness.                                                            *)
(***************************************************************************)

ThreadTypeOK ==
  /\ exists \subseteq Object
  /\ pc \in [Thread -> PC]
  /\ op \in [Thread -> Op]
  /\ error \in [Thread -> Error]
  /\ rt_tick \in 0 .. TickMod - 1
  /\ thread_timer \in [Thread -> NoTimer .. TickMod - 1]
  /\ timeout \in [Thread -> RT_WAITING_FOREVER .. TickMod - 1]
  /\ tick_delta \in [Thread -> 0 .. TickMod - 1]
  /\ budget \in [Thread -> RT_WAITING_FOREVER .. TickMod - 1]
  /\ suspend_thread \in [List -> Seq(Thread)]
  /\ lists \in [Thread -> Seq(DetachList)]

\* A thread is suspended exactly if it stands, once, in the list of the call it
\* is in, and only then can its timer fire: however releases, resets, detaches,
\* signals and timeouts interleave, nobody is left behind or woken twice.
SuspendedListed ==
  /\ \A l \in List :
       /\ IsInjective(suspend_thread[l])
       /\ Waiters(l) = {t \in Thread : pc[t] = "wait" /\ ListOf(op[t]) = l}
  /\ \A t \in Thread : thread_timer[t] # NoTimer => pc[t] = "wait"

\* A call that waits several times takes no longer than its timeout: whenever
\* the thread is suspended, its timer is set for the end of the caller's time.
\* (Not so in rt_mp_alloc, which computes the time left outside the section, nor
\* in a data queue, which starts the whole timeout again.)
DeadlineKept ==
  \A t \in Thread :
    pc[t] = "wait" /\ op[t] \notin {"mp_alloc", "dq_push", "dq_pop"} =>
      IF budget[t] = RT_WAITING_FOREVER THEN thread_timer[t] = NoTimer
      ELSE Minus(thread_timer[t], rt_tick) = budget[t] /\ budget[t] > 0

\* RT_ASSERT in rt_thread_resume: what _ipc_list_resume_all takes from the list
\* is a thread, although it tests the list with interrupts enabled.
ResumesThread ==
  \A t \in Thread : pc[t] = "resume" => First(Head(lists[t])) # {}

=============================================================================
