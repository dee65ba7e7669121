----------------------------- MODULE DataQueue -----------------------------
(***************************************************************************)
(* The data queues of src/rt-thread/components/drivers/ipc/dataqueue.c: a  *)
(* ring with one list of threads that wait to push and one of threads that *)
(* wait to pop.  When the indices meet, two flags tell a full ring from an *)
(* empty one.  A pop wakes a pusher only if lwm items or fewer are left,   *)
(* and a woken thread that has to wait again waits its whole timeout again.*)
(* Fewer than dq_size items are left after a pop, so a mark of dq_size or  *)
(* more, which rt_data_queue_init takes as well, acts as dq_size - 1.      *)
(*                                                                         *)
(* A call that cannot be served and must not wait leaves the state alone,  *)
(* and so does rt_data_queue_peek.  The callback evt_notify is left out.   *)
(***************************************************************************)
EXTENDS IpcThread

CONSTANTS
  dq_size,  \* queue->size
  lwm       \* queue->lwm, the low water mark

ASSUME DataQueueAssumption == dq_size \in Nat \ {0} /\ lwm \in 0 .. dq_size - 1

VARIABLES get_index, put_index, is_empty, is_full,
          item,  \* [index -> Msg or NoArg] queue->queue
          data   \* [Thread -> Msg or NoArg] *data_ptr of a pop about to return

dqVars == <<get_index, put_index, is_empty, is_full, item, data>>

DataQueueInit ==
  /\ get_index = 0 /\ put_index = 0 /\ is_empty = TRUE /\ is_full = FALSE
  /\ item = [i \in 0 .. dq_size - 1 |-> NoArg]
  /\ data = [t \in Thread |-> NoArg]

rt_data_queue_len ==
  IF is_empty THEN 0
  ELSE IF put_index > get_index THEN put_index - get_index
  ELSE dq_size + put_index - get_index

Drained == get_index' = 0 /\ put_index' = 0 /\ is_empty' = TRUE /\ is_full' = FALSE

rt_data_queue_init(t) ==
  /\ Creating(t, "dq")
  /\ Drained
  /\ UNCHANGED <<threadVars, item, data>>

-----------------------------------------------------------------------------
Following(i) == IF i + 1 = dq_size THEN 0 ELSE i + 1

\* Mutant of Push: a full ring is not marked.
PushUnmarked(t, m) ==
  /\ item' = [item EXCEPT ![put_index] = m]
  /\ put_index' = Following(put_index)
  /\ is_empty' = FALSE
  /\ Resume(First("dq_pop"), [pc EXCEPT ![t] = "run"])
  /\ Returned(t)
  /\ UNCHANGED <<exists, error, rt_tick, lists, get_index, is_full, data>>

\* The end of rt_data_queue_push: m goes in, and a popper is woken.
Push(t, m) ==
  /\ item' = [item EXCEPT ![put_index] = m]
  /\ put_index' = Following(put_index)
  /\ is_empty' = FALSE
  /\ is_full' = (is_full \/ put_index' = get_index)
  /\ Resume(First("dq_pop"), [pc EXCEPT ![t] = "run"])
  /\ Returned(t)
  /\ UNCHANGED <<exists, error, rt_tick, lists, get_index, data>>

\* The end of rt_data_queue_pop: the oldest item comes out and, at the low water
\* mark or below, a pusher is woken.
Pop(t) ==
  /\ data' = [data EXCEPT ![t] = item[get_index]]
  /\ get_index' = Following(get_index)
  /\ is_full' = FALSE
  /\ is_empty' = (is_empty \/ put_index = get_index')
  /\ UNCHANGED <<put_index, item>>
  /\ Resume(IF rt_data_queue_len' <= lwm THEN First("dq_push") ELSE {},
            [pc EXCEPT ![t] = "return"])
  /\ Returned(t)
  /\ UNCHANGED <<exists, error, rt_tick, lists>>

DqPush(t, m, n) ==
  /\ Calling(t, "dq")
  /\ IF is_full THEN Wait(t, "dq_push", m, "dq_push", n) /\ UNCHANGED <<tick_delta, dqVars>>
     ELSE Push(t, m)

DqPop(t, n) ==
  /\ Calling(t, "dq")
  /\ IF is_empty THEN Wait(t, "dq_pop", NoArg, "dq_pop", n) /\ UNCHANGED <<tick_delta, dqVars>>
     ELSE Pop(t)

\* A woken thread enters the loop again, with the timeout it was called with.
DqRetry(t) ==
  \/ t \in Retrying("dq_push") /\ ~is_full /\ Push(t, arg[t])
  \/ t \in Retrying("dq_pop") /\ ~is_empty /\ Pop(t)
  \/ /\ \/ t \in Retrying("dq_push") /\ is_full
        \/ t \in Retrying("dq_pop") /\ is_empty
     /\ Suspend(t, op[t], timeout[t])
     /\ UNCHANGED <<exists, op, arg, rt_tick, timeout, tick_delta, budget, lists, dqVars>>

DqReturn(t) ==
  /\ pc[t] = "return" /\ data[t] # NoArg
  /\ data' = [data EXCEPT ![t] = NoArg]
  /\ pc' = [pc EXCEPT ![t] = "run"]
  /\ UNCHANGED <<exists, op, arg, error, rt_tick, thread_timer, timeout, tick_delta,
                 budget, suspend_thread, lists, get_index, put_index, is_empty, is_full,
                 item>>

-----------------------------------------------------------------------------
(***************************************************************************)
(* rt_data_queue_reset empties the ring and then, with the scheduler       *)
(* locked, both lists, in the loops of _ipc_list_resume_all.  As with      *)
(* Quiet, nobody waits with a timeout unless TimedDetach, and no interrupt *)
(* uses the queue during the loops.  rt_data_queue_deinit is a reset after *)
(* which the queue is gone: DetachStart and DetachEnd.                     *)
(***************************************************************************)

DqReset(t) ==
  /\ Calling(t, "dq")
  /\ Drained
  /\ op' = [op EXCEPT ![t] = "dq_reset"]
  /\ pc' = [pc EXCEPT ![t] = "lock"]
  /\ UNCHANGED <<exists, arg, error, rt_tick, thread_timer, timeout, tick_delta, budget,
                 suspend_thread, lists, item, data>>

\* Other threads may have used the queue before the scheduler is locked.
DqResetLock(t) ==
  /\ pc[t] = "lock"
  /\ \A u \in Waiters("dq_pop") \cup Waiters("dq_push") :
       TimedDetach \/ thread_timer[u] = NoTimer
  /\ lists' = [lists EXCEPT ![t] = ListsOf("dq")]
  /\ pc' = [pc EXCEPT ![t] = "test"]
  /\ UNCHANGED <<exists, op, arg, error, rt_tick, thread_timer, timeout, tick_delta,
                 budget, suspend_thread, dqVars>>

DqResetEnd(t) ==
  /\ pc[t] = "test" /\ lists[t] = <<>> /\ op[t] = "dq_reset"
  /\ pc' = [pc EXCEPT ![t] = "run"]
  /\ Returned(t)
  /\ UNCHANGED <<exists, error, rt_tick, thread_timer, suspend_thread, lists, dqVars>>

\* The scheduler is not locked by another thread than t.
Unlocked(t) ==
  \A u \in Thread \ {t} :
    ~(\/ op[u] = "dq_reset" /\ pc[u] # "lock"
      \/ op[u] = "detach" /\ arg[u] = "dq")

DataQueueStep(t) ==
  \/ rt_data_queue_init(t) \/ DqRetry(t) \/ DqReturn(t) \/ DqReset(t) \/ DqResetLock(t)
  \/ DqResetEnd(t)
  \/ \E n \in Timeouts : DqPop(t, n) \/ \E m \in Msg : DqPush(t, m, n)

-----------------------------------------------------------------------------
\* While a thread waits to pop, every item has a woken popper on its way; while
\* one waits to push, the items and the pushers on their way are more than the
\* low water mark.
DataQueueWakeups ==
  /\ suspend_thread["dq_pop"] # <<>> => rt_data_queue_len <= Cardinality(Retrying("dq_pop"))
  /\ suspend_thread["dq_push"] # <<>> /\ (\A t \in Thread : op[t] # "dq_reset") =>
       rt_data_queue_len + Cardinality(Retrying("dq_push")) > lwm

DqChannel == INSTANCE Channel WITH
  None     <- NoArg,
  Capacity <- dq_size,
  queue    <- [i \in 1 .. rt_data_queue_len |-> item[(get_index + i - 1) % dq_size]],
  hand     <- data

\* The ring implements a bounded queue: what is_empty and is_full say when the
\* indices meet is right after every wrap and reset.  And it does not get stuck:
\* no item is left beside a sleeping popper, and the queue does not run dry while
\* all pushers sleep, although a pop wakes one only at the low water mark.
DataQueueChannel == DqChannel!Spec /\ []DataQueueWakeups

=============================================================================
