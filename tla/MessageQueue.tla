---------------------------- MODULE MessageQueue ----------------------------
(***************************************************************************)
(* The message queues of src/rt-thread/src/ipc.c: a pool of nodes linked   *)
(* in a free list and in the queue.  The contents are copied with          *)
(* interrupts enabled, while the node is in neither list: a send takes a   *)
(* node, copies and links it, a receive unlinks a node, copies and frees   *)
(* it, and other calls come in between.                                    *)
(*                                                                         *)
(* A call that cannot be served and must not wait leaves the state alone.  *)
(* entry stays below RT_MQ_ENTRY_MAX because max_msgs has the same width.  *)
(***************************************************************************)
EXTENDS IpcThread

CONSTANT max_msgs

ASSUME QueueAssumption == max_msgs \in Nat \ {0}

NULL == 0
Node == 1 .. max_msgs

VARIABLES
  next,            \* [Node -> Node or NULL] msg->next
  body,            \* [Node -> Msg or NoArg] the message behind the node
  msg_queue_head, msg_queue_tail, msg_queue_free,
  mq_entry,        \* mq->entry
  msg,             \* [Thread -> Node or NULL] the local variable msg
  buffer           \* [Thread -> Msg or NoArg] the buffer of an rt_mq_recv

mqVars == <<next, body, msg_queue_head, msg_queue_tail, msg_queue_free, mq_entry,
            msg, buffer>>

MqInit ==
  /\ next = [i \in Node |-> NULL]
  /\ body = [i \in Node |-> NoArg]
  /\ msg_queue_head = NULL /\ msg_queue_tail = NULL /\ msg_queue_free = NULL
  /\ mq_entry = 0
  /\ msg = [t \in Thread |-> NULL]
  /\ buffer = [t \in Thread |-> NoArg]

\* The nodes from p on.
Path(p) ==
  LET at[i \in Node] == IF i = 1 THEN p
                        ELSE IF at[i - 1] = NULL THEN NULL ELSE next[at[i - 1]]
  IN  [i \in 1 .. Cardinality({j \in Node : at[j] # NULL}) |-> at[i]]

rt_mq_init(t) ==
  /\ Creating(t, "mq")
  /\ next' = [i \in Node |-> i - 1]
  /\ msg_queue_free' = max_msgs
  /\ msg_queue_head' = NULL /\ msg_queue_tail' = NULL /\ mq_entry' = 0
  /\ UNCHANGED <<threadVars, body, msg, buffer>>

-----------------------------------------------------------------------------
(***************************************************************************)
(* rt_mq_send_wait and rt_mq_urgent                                        *)
(***************************************************************************)

\* The head of the free list goes to t.
TakeNode(t, o, m) ==
  /\ msg' = [msg EXCEPT ![t] = msg_queue_free]
  /\ msg_queue_free' = next[msg_queue_free]
  /\ pc' = [pc EXCEPT ![t] = "copy"]
  /\ op' = [op EXCEPT ![t] = o]
  /\ arg' = [arg EXCEPT ![t] = m]
  /\ timeout' = [timeout EXCEPT ![t] = 0]
  /\ tick_delta' = [tick_delta EXCEPT ![t] = 0]
  /\ budget' = [budget EXCEPT ![t] = 0]
  /\ UNCHANGED <<exists, error, rt_tick, thread_timer, suspend_thread, lists, next,
                 body, msg_queue_head, msg_queue_tail, mq_entry, buffer>>

MqSend(t, m, n) ==
  /\ Calling(t, "mq")
  /\ IF msg_queue_free = NULL THEN TimedWait(t, "mq_send", m, n) /\ UNCHANGED mqVars
     ELSE TakeNode(t, "mq_send", m)

MqUrgent(t, m) ==
  /\ Calling(t, "mq") /\ msg_queue_free # NULL
  /\ TakeNode(t, "mq_urgent", m)

\* msg->next = RT_NULL and the copy into the node; rt_mq_urgent only copies.
SendCopy(t) ==
  /\ pc[t] = "copy"
  /\ body' = [body EXCEPT ![msg[t]] = arg[t]]
  /\ next' = IF op[t] = "mq_send" THEN [next EXCEPT ![msg[t]] = NULL] ELSE next
  /\ pc' = [pc EXCEPT ![t] = "link"]
  /\ UNCHANGED <<exists, op, arg, error, rt_tick, thread_timer, timeout, tick_delta,
                 budget, suspend_thread, lists, msg_queue_head, msg_queue_tail,
                 msg_queue_free, mq_entry, msg, buffer>>

\* What both calls end with: one more entry, and a receiver is woken.
Linked(t) ==
  /\ mq_entry' = mq_entry + 1
  /\ msg' = [msg EXCEPT ![t] = NULL]
  /\ Resume(First("mq"), [pc EXCEPT ![t] = "run"])
  /\ Returned(t)
  /\ UNCHANGED <<exists, error, rt_tick, lists, body, msg_queue_free, buffer>>

SendLink(t) ==
  /\ pc[t] = "link" /\ op[t] = "mq_send"
  /\ next' = IF msg_queue_tail = NULL THEN next
             ELSE [next EXCEPT ![msg_queue_tail] = msg[t]]
  /\ msg_queue_tail' = msg[t]
  /\ msg_queue_head' = IF msg_queue_head = NULL THEN msg[t] ELSE msg_queue_head
  /\ Linked(t)

\* Mutant of UrgentLink: the tail of an empty queue is not set.
UrgentLinkNoTail(t) ==
  /\ pc[t] = "link" /\ op[t] = "mq_urgent"
  /\ next' = [next EXCEPT ![msg[t]] = msg_queue_head]
  /\ msg_queue_head' = msg[t]
  /\ UNCHANGED msg_queue_tail
  /\ Linked(t)

UrgentLink(t) ==
  /\ pc[t] = "link" /\ op[t] = "mq_urgent"
  /\ next' = [next EXCEPT ![msg[t]] = msg_queue_head]
  /\ msg_queue_head' = msg[t]
  /\ msg_queue_tail' = IF msg_queue_tail = NULL THEN msg[t] ELSE msg_queue_tail
  /\ Linked(t)

-----------------------------------------------------------------------------
(***************************************************************************)
(* rt_mq_recv                                                              *)
(***************************************************************************)

\* Mutant of TakeMessage: the node is freed before its contents are copied.
TakeMessageFrees(t) ==
  /\ msg' = [msg EXCEPT ![t] = msg_queue_head]
  /\ msg_queue_head' = next[msg_queue_head]
  /\ msg_queue_tail' = IF msg_queue_tail = msg_queue_head THEN NULL ELSE msg_queue_tail
  /\ next' = [next EXCEPT ![msg_queue_head] = msg_queue_free]
  /\ msg_queue_free' = msg_queue_head
  /\ mq_entry' = mq_entry - 1
  /\ pc' = [pc EXCEPT ![t] = "fetch"]
  /\ op' = [op EXCEPT ![t] = "mq_recv"]
  /\ timeout' = [timeout EXCEPT ![t] = 0]
  /\ tick_delta' = [tick_delta EXCEPT ![t] = 0]
  /\ budget' = [budget EXCEPT ![t] = 0]
  /\ UNCHANGED <<exists, arg, error, rt_tick, thread_timer, suspend_thread, lists,
                 body, buffer>>

\* The head of the queue goes to t.
TakeMessage(t) ==
  /\ msg' = [msg EXCEPT ![t] = msg_queue_head]
  /\ msg_queue_head' = next[msg_queue_head]
  /\ msg_queue_tail' = IF msg_queue_tail = msg_queue_head THEN NULL ELSE msg_queue_tail
  /\ mq_entry' = mq_entry - 1
  /\ pc' = [pc EXCEPT ![t] = "fetch"]
  /\ op' = [op EXCEPT ![t] = "mq_recv"]
  /\ timeout' = [timeout EXCEPT ![t] = 0]
  /\ tick_delta' = [tick_delta EXCEPT ![t] = 0]
  /\ budget' = [budget EXCEPT ![t] = 0]
  /\ UNCHANGED <<exists, arg, error, rt_tick, thread_timer, suspend_thread, lists,
                 next, body, msg_queue_free, buffer>>

MqRecv(t, n) ==
  /\ Calling(t, "mq")
  /\ IF mq_entry = 0 THEN TimedWait(t, "mq_recv", NoArg, n) /\ UNCHANGED mqVars
     ELSE TakeMessage(t)

RecvCopy(t) ==
  /\ pc[t] = "fetch"
  /\ buffer' = [buffer EXCEPT ![t] = body[msg[t]]]
  /\ pc' = [pc EXCEPT ![t] = "free"]
  /\ UNCHANGED <<exists, op, arg, error, rt_tick, thread_timer, timeout, tick_delta,
                 budget, suspend_thread, lists, next, body, msg_queue_head,
                 msg_queue_tail, msg_queue_free, mq_entry, msg>>

\* The node goes back to the free list, a sender is woken, the call returns.
RecvFree(t) ==
  /\ pc[t] = "free"
  /\ next' = [next EXCEPT ![msg[t]] = msg_queue_free]
  /\ msg_queue_free' = msg[t]
  /\ msg' = [msg EXCEPT ![t] = NULL]
  /\ buffer' = [buffer EXCEPT ![t] = NoArg]
  /\ Resume(First("mq_sender"), [pc EXCEPT ![t] = "run"])
  /\ Returned(t)
  /\ UNCHANGED <<exists, error, rt_tick, lists, body, msg_queue_head, msg_queue_tail,
                 mq_entry>>

\* A woken sender or receiver enters the loop again.
MqRetry(t) ==
  \/ t \in Retrying("mq_send") /\ msg_queue_free # NULL /\ TakeNode(t, "mq_send", arg[t])
  \/ t \in Retrying("mq_recv") /\ mq_entry > 0 /\ TakeMessage(t)
  \/ /\ \/ t \in Retrying("mq_send") /\ msg_queue_free = NULL
        \/ t \in Retrying("mq_recv") /\ mq_entry = 0
     /\ WaitAgain(t)
     /\ UNCHANGED mqVars

\* rt_mq_control with RT_IPC_CMD_RESET: the nodes of the queue are pushed, one
\* after the other, on the free list.
MqReset(t) ==
  /\ Calling(t, "mq")
  /\ LET S == Waiters("mq") \cup Waiters("mq_sender")
     IN  SetError(S, "ERROR") /\ Resume(S, pc)
  /\ LET q == Path(msg_queue_head)
         Pushed(i) == LET k == SelectInSeq(q, LAMBDA j : j = i)
                      IN  IF k = 0 THEN next[i]
                          ELSE IF k = 1 THEN msg_queue_free ELSE q[k - 1]
     IN  /\ next' = [i \in Node |-> Pushed(i)]
         /\ msg_queue_free' = IF q = <<>> THEN msg_queue_free ELSE Last(q)
  /\ msg_queue_head' = NULL /\ msg_queue_tail' = NULL /\ mq_entry' = 0
  /\ UNCHANGED <<exists, op, arg, rt_tick, timeout, tick_delta, budget, lists, body,
                 msg, buffer>>

MqStep(t) ==
  \/ rt_mq_init(t) \/ MqRetry(t) \/ MqReset(t)
  \/ SendCopy(t) \/ SendLink(t) \/ UrgentLink(t) \/ RecvCopy(t) \/ RecvFree(t)
  \/ \E n \in Timeouts : MqRecv(t, n) \/ \E m \in Msg : MqSend(t, m, n)
  \/ \E m \in Msg : MqUrgent(t, m)

-----------------------------------------------------------------------------
\* Every node of the pool is in exactly one place, the free list, the queue or
\* the hands of a thread that copies, and head, tail and entry agree, however
\* the three parts of the calls and a reset interleave.
NodesConserved ==
  "mq" \in exists =>
    LET free == Path(msg_queue_free)
        q    == Path(msg_queue_head)
        Places(i) == {l \in {free, q} : i \in ToSet(l)} \cup {t \in Thread : msg[t] = i}
    IN  /\ \A i \in Node : Cardinality(Places(i)) = 1
        /\ IsInjective(free) /\ IsInjective(q)
        /\ Len(q) = mq_entry
        /\ msg_queue_tail = IF q = <<>> THEN NULL ELSE Last(q)

\* Ipc!ChannelWakeups: while a receiver waits, every message has a woken receiver
\* on its way, and while a sender waits, every free node a woken sender.
QueueWakeups ==
  /\ suspend_thread["mq"] # <<>> => mq_entry <= Cardinality(Retrying("mq_recv"))
  /\ suspend_thread["mq_sender"] # <<>> =>
       Len(Path(msg_queue_free)) <= Cardinality(Retrying("mq_send"))

\* The message queue implements a bounded queue: order, urgency and contents are
\* kept although messages are copied outside the critical sections.
MqChannel == INSTANCE Channel WITH
  None     <- NoArg,
  Capacity <- max_msgs,
  queue    <- LET q == Path(msg_queue_head) IN [i \in DOMAIN q |-> body[q[i]]],
  hand     <- [t \in Thread |-> CASE pc[t] = "fetch" -> body[msg[t]]
                                  [] pc[t] = "free" -> buffer[t]
                                  [] OTHER -> NoArg]

QueueChannel == MqChannel!Spec

=============================================================================
