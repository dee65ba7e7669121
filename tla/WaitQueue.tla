------------------------------ MODULE WaitQueue ------------------------------
(***************************************************************************)
(* The wait queues of src/rt-thread/components/drivers/ipc/waitqueue.c.    *)
(* A waiter links a node on its own stack; rt_wqueue_wakeup resumes the    *)
(* thread of the first node and unlinks it.  A waiter that times out is    *)
(* still linked when it is resumed, and unlinks itself when it runs.       *)
(*                                                                         *)
(* The wakeup function of every node is the default one, which accepts     *)
(* every key.  A wait for a condition that is true, or of no ticks,        *)
(* returns at once.                                                        *)
(***************************************************************************)
EXTENDS IpcThread

VARIABLES
  wq_flag,       \* queue->flag = RT_WQ_FLAG_WAKEUP
  waiting_list,  \* the threads whose nodes are linked, in order
  absorbed       \* history: a wakeup was spent on a node whose thread had timed
                 \* out

wqVars == <<wq_flag, waiting_list, absorbed>>

WaitQueueInit == wq_flag = FALSE /\ waiting_list = <<>> /\ absorbed = FALSE

rt_wqueue_init(t) ==
  /\ Creating(t, "wqueue")
  /\ wq_flag' = FALSE /\ waiting_list' = <<>>
  /\ UNCHANGED <<threadVars, absorbed>>

\* The flag is set: the call consumes it and returns.
WqueuePass(t) ==
  /\ Calling(t, "wqueue") /\ wq_flag
  /\ wq_flag' = FALSE
  /\ UNCHANGED <<exists, threadVars, waiting_list, absorbed>>

WqueueWait(t, n) ==
  /\ Calling(t, "wqueue") /\ ~wq_flag /\ n # 0
  /\ waiting_list' = Append(waiting_list, t)
  /\ error' = [error EXCEPT ![t] = "EOK"]
  /\ thread_timer' =
       [thread_timer EXCEPT ![t] =
          IF n = RT_WAITING_FOREVER THEN NoTimer ELSE (rt_tick + n) % TickMod]
  /\ pc' = [pc EXCEPT ![t] = "wait"]
  /\ op' = [op EXCEPT ![t] = "wqueue_wait"]
  /\ timeout' = [timeout EXCEPT ![t] = n]
  /\ budget' = [budget EXCEPT ![t] = n]
  /\ UNCHANGED <<exists, arg, rt_tick, tick_delta, suspend_thread, lists, wq_flag,
                 absorbed>>

\* The woken thread clears the flag ...
WqueueWoken(t) ==
  /\ pc[t] = "woken" /\ op[t] = "wqueue_wait"
  /\ wq_flag' = FALSE
  /\ pc' = [pc EXCEPT ![t] = "remove"]
  /\ UNCHANGED <<exists, op, arg, error, rt_tick, thread_timer, timeout, tick_delta,
                 budget, suspend_thread, lists, waiting_list, absorbed>>

\* Mutant of WqueueReturn: the node stays linked after the call.
WqueueReturnLinked(t) ==
  /\ pc[t] = "remove"
  /\ pc' = [pc EXCEPT ![t] = "run"]
  /\ Returned(t)
  /\ UNCHANGED <<exists, error, rt_tick, thread_timer, suspend_thread, lists, wq_flag,
                 absorbed, waiting_list>>

\* ... and in a second section unlinks its node, if it is still linked.
WqueueReturn(t) ==
  /\ pc[t] = "remove"
  /\ waiting_list' = RemoveFirst(waiting_list, t)
  /\ pc' = [pc EXCEPT ![t] = "run"]
  /\ Returned(t)
  /\ UNCHANGED <<exists, error, rt_tick, thread_timer, suspend_thread, lists, wq_flag,
                 absorbed>>

\* Mutant of rt_wqueue_wakeup: the node stays linked when its thread is resumed.
WakeupKeepsNode(t) ==
  /\ Calling(t, "wqueue")
  /\ wq_flag' = TRUE
  /\ LET first == IF waiting_list = <<>> THEN {} ELSE {Head(waiting_list)}
     IN  /\ Resume({u \in first : pc[u] = "wait"}, pc)
         /\ absorbed' = (absorbed \/ \E u \in first : error[u] = "ETIMEOUT")
  /\ UNCHANGED <<exists, op, arg, error, rt_tick, timeout, tick_delta, budget, lists,
                 waiting_list>>

\* rt_thread_resume fails, and the node is unlinked all the same, if the thread
\* is not suspended.
rt_wqueue_wakeup(t) ==
  /\ Calling(t, "wqueue")
  /\ wq_flag' = TRUE
  /\ waiting_list' = IF waiting_list = <<>> THEN <<>> ELSE Tail(waiting_list)
  /\ LET first == IF waiting_list = <<>> THEN {} ELSE {Head(waiting_list)}
     IN  /\ Resume({u \in first : pc[u] = "wait"}, pc)
         /\ absorbed' = (absorbed \/ \E u \in first : error[u] = "ETIMEOUT")
  /\ UNCHANGED <<exists, op, arg, error, rt_tick, timeout, tick_delta, budget, lists>>

WaitQueueStep(t) ==
  \/ rt_wqueue_init(t) \/ WqueuePass(t) \/ WqueueWoken(t) \/ WqueueReturn(t)
  \/ rt_wqueue_wakeup(t)
  \/ \E n \in Timeouts : WqueueWait(t, n)

-----------------------------------------------------------------------------
\* Every node in the queue lives in a stack frame that still exists, and every
\* suspended waiter has its node in the queue, once: wakeups and timeouts in any
\* order neither leave a node behind nor a thread that nobody can wake.
WaitNodesLive ==
  /\ IsInjective(waiting_list)
  /\ ToSet(waiting_list) \subseteq {t \in Thread : op[t] = "wqueue_wait"}
  /\ \A t \in Thread :
       pc[t] = "wait" /\ op[t] = "wqueue_wait" => t \in ToSet(waiting_list)

\* "This function will wake up a pending thread on the specified waiting queue":
\* if the flag of a wakeup is set and threads are suspended, a thread woken by
\* it is on its way.  It fails only when a wakeup is spent on a waiter that has
\* timed out and is not unlinked yet.
WakeupDelivered ==
  wq_flag /\ ~absorbed /\ (\E t \in ToSet(waiting_list) : pc[t] = "wait") =>
    \E t \in Thread : pc[t] = "woken" /\ op[t] = "wqueue_wait" /\ error[t] = "EOK"

=============================================================================
