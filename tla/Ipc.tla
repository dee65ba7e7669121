-------------------------------- MODULE Ipc --------------------------------
(***************************************************************************)
(* Threads that share the IPC objects of ipc.c and mempool.c in            *)
(* src/rt-thread/src and of src/rt-thread/components/drivers/ipc: the      *)
(* composition of the objects with the threads' wait lists, the tick       *)
(* interrupt and signals.                                                  *)
(***************************************************************************)
EXTENDS Semaphore, Event, Mailbox, MessageQueue, MemPool, Completion, WaitQueue,
        DataQueue, Signal

objectVars == <<semVars, eventVars, mbVars, mqVars, mpVars, completionVars, wqVars,
                dqVars>>
vars == <<exists, threadVars, objectVars, sigVars>>

Init ==
  /\ ThreadInit /\ SignalInit
  /\ SemInit /\ EventInit /\ MailboxInit /\ MqInit /\ MemPoolInit
  /\ CompletionInit /\ WaitQueueInit /\ DataQueueInit

\* A step of thread t itself.
OwnStep(t) ==
  /\ Free(t) /\ Unlocked(t)
  /\ \/ ThreadStep(t) /\ UNCHANGED objectVars
     \/ SemStep(t)
          /\ UNCHANGED <<eventVars, mbVars, mqVars, mpVars, completionVars, wqVars,
                         dqVars>>
     \/ EventStep(t)
          /\ UNCHANGED <<semVars, mbVars, mqVars, mpVars, completionVars, wqVars,
                         dqVars>>
     \/ MailboxStep(t)
          /\ UNCHANGED <<semVars, eventVars, mqVars, mpVars, completionVars, wqVars,
                         dqVars>>
     \/ MqStep(t)
          /\ UNCHANGED <<semVars, eventVars, mbVars, mpVars, completionVars, wqVars,
                         dqVars>>
     \/ MemPoolStep(t)
          /\ UNCHANGED <<semVars, eventVars, mbVars, mqVars, completionVars, wqVars,
                         dqVars>>
     \/ CompletionStep(t)
          /\ UNCHANGED <<semVars, eventVars, mbVars, mqVars, mpVars, wqVars,
                         dqVars>>
     \/ WaitQueueStep(t)
          /\ UNCHANGED <<semVars, eventVars, mbVars, mqVars, mpVars, completionVars,
                         dqVars>>
     \/ DataQueueStep(t)
          /\ UNCHANGED <<semVars, eventVars, mbVars, mqVars, mpVars, completionVars,
                         wqVars>>
  /\ Enter

Next ==
  \/ Tick /\ UNCHANGED <<objectVars, sigVars>>
  \/ \E t \in Thread : OwnStep(t) \/ (SignalStep(t) /\ UNCHANGED objectVars)

Spec == Init /\ [][Next]_vars

-----------------------------------------------------------------------------
\* Every variable has the type its C declaration and its use give it.
TypeOK ==
  /\ ThreadTypeOK
  /\ value \in 0 .. RT_SEM_VALUE_MAX
  /\ set \subseteq Bit
  /\ in_offset \in 0 .. mb_size - 1 /\ out_offset \in 0 .. mb_size - 1
  /\ entry \in 0 .. mb_size
  /\ mq_entry \in 0 .. max_msgs
  /\ block_list \in Seq(Block) /\ block_free_count \in 0 .. Cardinality(Block)
  /\ {completed, wq_flag} \subseteq BOOLEAN
  /\ waiting_list \in Seq(Thread)
  /\ get_index \in 0 .. dq_size - 1 /\ put_index \in 0 .. dq_size - 1
  /\ {is_empty, is_full} \subseteq BOOLEAN
  /\ {msg_queue_head, msg_queue_tail, msg_queue_free} \subseteq Node \cup {NULL}
  /\ sig \in [Thread -> {"none", "pending", "entry", "left"}]
  /\ at \in [Thread -> {"before", "out", "back"}]

\* rt_sem_take: "ONLY When the return value is RT_EOK, the operation is
\* successful": a thread that looks at thread->error after its wait finds RT_EOK
\* if and only if a release has handed it a unit.  Timeout, reset, detach and
\* signal must not be mistaken for one, nor hide one.
SemHandOver ==
  \A t \in Thread :
    pc[t] = "woken" /\ op[t] = "sem_take" /\ Free(t) =>
      (error[t] = "EOK" <=> t \in granted)

\* rt_sem_take: "If the return value is any other values, it means that the
\* semaphore take failed": a thread that has been handed a unit does not come
\* back from its wait with an error, whatever arrives before it gets the CPU.
UnitKept ==
  \A t \in Thread :
    pc[t] = "woken" /\ op[t] = "sem_take" /\ Free(t) /\ t \in granted => error[t] = "EOK"

\* No wakeup is lost in a mailbox or a message queue: a woken thread holds
\* nothing and others may be faster, but as long as a thread waits every message,
\* and every free place, has a woken thread on its way to it.
ChannelWakeups == MailboxWakeups /\ QueueWakeups

=============================================================================
