----------------------------- MODULE Semaphore -----------------------------
(***************************************************************************)
(* The semaphores of src/rt-thread/src/ipc.c.  rt_sem_take with a timeout  *)
(* of 0 on a semaphore that is not available leaves the state alone.       *)
(***************************************************************************)
EXTENDS IpcThread

CONSTANT RT_SEM_VALUE_MAX

ASSUME SemAssumption == RT_SEM_VALUE_MAX \in Nat \ {0}

VARIABLES
  value,    \* sem->value
  granted   \* history: the threads a release has resumed and which have not
            \* returned yet

semVars == <<value, granted>>

SemInit == value = 0 /\ granted = {}

rt_sem_init(t, v) ==
  /\ Creating(t, "sem")
  /\ value' = v
  /\ UNCHANGED <<threadVars, granted>>

TakeNow(t) ==
  /\ Calling(t, "sem") /\ value > 0
  /\ value' = value - 1
  /\ UNCHANGED <<exists, threadVars, granted>>

TakeWait(t, n) ==
  /\ Calling(t, "sem") /\ value = 0
  /\ Wait(t, "sem_take", NoArg, "sem", n)
  /\ UNCHANGED <<tick_delta, value, granted>>

TakeReturn(t) ==
  /\ pc[t] = "woken" /\ op[t] = "sem_take" /\ error[t] = "EOK"
  /\ pc' = [pc EXCEPT ![t] = "run"]
  /\ Returned(t)
  /\ granted' = granted \ {t}
  /\ UNCHANGED <<exists, error, rt_tick, thread_timer, suspend_thread, lists, value>>

\* Mutants of rt_sem_release: the value goes up although a waiter gets the unit;
\* the limit is not checked.
ReleaseTwice(t) ==
  /\ Calling(t, "sem")
  /\ Resume(First("sem"), pc)
  /\ granted' = granted \cup First("sem")
  /\ value' = IF value < RT_SEM_VALUE_MAX THEN value + 1 ELSE value
  /\ UNCHANGED <<exists, op, arg, error, rt_tick, timeout, tick_delta, budget, lists>>

ReleaseUnbounded(t) ==
  /\ Calling(t, "sem")
  /\ Resume(First("sem"), pc)
  /\ granted' = granted \cup First("sem")
  /\ value' = IF First("sem") = {} THEN value + 1 ELSE value
  /\ UNCHANGED <<exists, op, arg, error, rt_tick, timeout, tick_delta, budget, lists>>

\* The first waiter gets the unit; without one the value goes up, and at its
\* limit the call fails with -RT_EFULL.
rt_sem_release(t) ==
  /\ Calling(t, "sem")
  /\ Resume(First("sem"), pc)
  /\ granted' = granted \cup First("sem")
  /\ value' = IF First("sem") = {} /\ value < RT_SEM_VALUE_MAX THEN value + 1 ELSE value
  /\ UNCHANGED <<exists, op, arg, error, rt_tick, timeout, tick_delta, budget, lists>>

\* rt_sem_control with RT_IPC_CMD_RESET
SemReset(t, v) ==
  /\ Calling(t, "sem")
  /\ SetError(Waiters("sem"), "ERROR")
  /\ Resume(Waiters("sem"), pc)
  /\ value' = v
  /\ UNCHANGED <<exists, op, arg, rt_tick, timeout, tick_delta, budget, lists, granted>>

SemStep(t) ==
  \/ TakeNow(t) \/ TakeReturn(t) \/ rt_sem_release(t)
  \/ \E n \in Timeouts : TakeWait(t, n)
  \/ \E v \in 0 .. RT_SEM_VALUE_MAX : rt_sem_init(t, v) \/ SemReset(t, v)

-----------------------------------------------------------------------------
\* No unit of the semaphore lies idle while a thread waits for one, whatever
\* order releases, timeouts and resets come in.
NoIdleUnit == suspend_thread["sem"] # <<>> => value = 0

=============================================================================
