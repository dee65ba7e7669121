------------------------------ MODULE MemPool ------------------------------
(***************************************************************************)
(* The memory pools of src/rt-thread/src/mempool.c: a list of free blocks  *)
(* of one size and a list of threads that wait for one, the last to come   *)
(* being the first.  A woken thread looks at the pool again, and computes  *)
(* the rest of its timeout before it disables interrupts.                  *)
(*                                                                         *)
(* rt_mp_alloc with a timeout of 0 on an empty pool leaves the state       *)
(* alone.  The application frees each block it got once.                   *)
(***************************************************************************)
EXTENDS IpcThread

CONSTANT Block   \* the blocks of the pool

ASSUME BlockAssumption == IsFiniteSet(Block)

VARIABLES
  block_list,        \* the free blocks, in the order of their links
  block_free_count,
  held               \* history: the blocks the application has

mpVars == <<block_list, block_free_count, held>>

MemPoolInit == block_list = <<>> /\ block_free_count = 0 /\ held = {}

rt_mp_init(t) ==
  /\ Creating(t, "mp")
  /\ block_list' = SetToSeq(Block)
  /\ block_free_count' = Cardinality(Block)
  /\ held' = {}
  /\ UNCHANGED threadVars

\* The end of rt_mp_alloc: the first free block goes to t.
TakeBlock(t) ==
  /\ block_free_count' = block_free_count - 1
  /\ held' = held \cup {Head(block_list)}
  /\ block_list' = Tail(block_list)
  /\ pc' = [pc EXCEPT ![t] = "run"]
  /\ Returned(t)
  /\ UNCHANGED <<exists, error, rt_tick, thread_timer, suspend_thread, lists>>

MpAlloc(t, n) ==
  /\ Calling(t, "mp")
  /\ IF block_free_count = 0 THEN TimedWait(t, "mp_alloc", NoArg, n) /\ UNCHANGED mpVars
     ELSE TakeBlock(t)

\* A woken thread computes what is left of its timeout ...
MpTimeLeft(t) ==
  /\ t \in Retrying("mp_alloc")
  /\ timeout' = [timeout EXCEPT ![t] = TimeLeft(t)]
  /\ pc' = [pc EXCEPT ![t] = "relock"]
  /\ UNCHANGED <<exists, op, arg, error, rt_tick, thread_timer, tick_delta, budget,
                 suspend_thread, lists, mpVars>>

\* ... and, with interrupts disabled, takes a block, gives up or waits again.
MpAgain(t) ==
  /\ pc[t] = "relock"
  /\ \/ block_free_count > 0 /\ TakeBlock(t)
     \/ /\ block_free_count = 0 /\ timeout[t] = 0
        /\ error' = [error EXCEPT ![t] = "ETIMEOUT"]
        /\ pc' = [pc EXCEPT ![t] = "run"]
        /\ Returned(t)
        /\ UNCHANGED <<exists, rt_tick, thread_timer, suspend_thread, lists, mpVars>>
     \/ /\ block_free_count = 0 /\ timeout[t] # 0
        /\ Suspend(t, "mp", timeout[t])
        /\ tick_delta' = [tick_delta EXCEPT ![t] = IF timeout[t] > 0 THEN rt_tick ELSE @]
        /\ UNCHANGED <<exists, op, arg, rt_tick, timeout, budget, lists, mpVars>>

\* Mutant of rt_mp_free: a thread is woken only if the pool was empty.
FreeWakesIfEmpty(t, b) ==
  /\ Calling(t, "mp") /\ b \in held
  /\ block_free_count' = block_free_count + 1
  /\ block_list' = <<b>> \o block_list
  /\ held' = held \ {b}
  /\ Resume(IF block_free_count = 0 THEN First("mp") ELSE {}, pc)
  /\ UNCHANGED <<exists, op, arg, error, rt_tick, timeout, tick_delta, budget, lists>>

\* The block goes back to the front of the list, and a thread is woken.
rt_mp_free(t, b) ==
  /\ Calling(t, "mp") /\ b \in held
  /\ block_free_count' = block_free_count + 1
  /\ block_list' = <<b>> \o block_list
  /\ held' = held \ {b}
  /\ Resume(First("mp"), pc)
  /\ UNCHANGED <<exists, op, arg, error, rt_tick, timeout, tick_delta, budget, lists>>

MemPoolStep(t) ==
  \/ rt_mp_init(t) \/ MpTimeLeft(t) \/ MpAgain(t)
  \/ \E n \in Timeouts : MpAlloc(t, n)
  \/ \E b \in Block : rt_mp_free(t, b)

-----------------------------------------------------------------------------
\* No wakeup is lost: while a thread waits, every free block has a woken thread
\* on its way to it, and the list has as many blocks as the counter says, which
\* is what RT_ASSERT(block_ptr != RT_NULL) in rt_mp_alloc relies on.
PoolWakeups ==
  "mp" \in exists =>
    /\ suspend_thread["mp"] # <<>> =>
         block_free_count <= Cardinality(Retrying("mp_alloc")
                                         \cup {t \in Thread : pc[t] = "relock"})
    /\ block_free_count = Len(block_list)
    /\ ToSet(block_list) = Block \ held

=============================================================================
