----------------------------- MODULE Completion -----------------------------
(***************************************************************************)
(* The completions of src/rt-thread/components/drivers/ipc/completion.c: a *)
(* flag and at most one thread that waits for it.  The caller sees to it   *)
(* that no two threads wait at once, which the code asserts.  A wait with  *)
(* a timeout of 0 that finds nothing leaves the state alone.               *)
(***************************************************************************)
EXTENDS IpcThread

VARIABLES
  completed,  \* completion->flag = RT_COMPLETED
  notified,   \* history: threads rt_completion_done has resumed and which have
              \* not returned yet
  posted,     \* history: there was a done that no successful wait has followed
  late        \* history: a done came when a waiter had timed out but not run yet

completionVars == <<completed, notified, posted, late>>

CompletionInit == completed = FALSE /\ notified = {} /\ posted = FALSE /\ late = FALSE

rt_completion_init(t) ==
  /\ Creating(t, "completion")
  /\ completed' = FALSE
  /\ UNCHANGED <<threadVars, notified, posted, late>>

CompletionTake(t) ==
  /\ Calling(t, "completion") /\ completed
  /\ completed' = FALSE
  /\ posted' = FALSE
  /\ UNCHANGED <<exists, threadVars, notified, late>>

CompletionWait(t, n) ==
  /\ Calling(t, "completion") /\ ~completed /\ suspend_thread["completion"] = <<>>
  /\ Wait(t, "completion_wait", NoArg, "completion", n)
  /\ UNCHANGED <<tick_delta, completionVars>>

\* The woken thread clears the flag, whatever it returns: RT_EOK or an error.
CompletionReturn(t) ==
  /\ pc[t] = "woken" /\ op[t] = "completion_wait"
  /\ completed' = FALSE
  /\ posted' = (posted /\ error[t] # "EOK")
  /\ notified' = notified \ {t}
  /\ pc' = [pc EXCEPT ![t] = "run"]
  /\ Returned(t)
  /\ UNCHANGED <<exists, error, rt_tick, thread_timer, suspend_thread, lists, late>>

\* rt_completion_done looks at the flag with interrupts enabled and returns if
\* it is set ...
DoneTest(t) ==
  /\ Calling(t, "completion") /\ ~completed
  /\ pc' = [pc EXCEPT ![t] = "done"]
  /\ UNCHANGED <<exists, op, arg, error, rt_tick, thread_timer, timeout, tick_delta,
                 budget, suspend_thread, lists, completionVars>>

\* The waiters whose timeout came first and which have not returned yet.
TimedOut(o) ==
  {t \in Thread : pc[t] = "woken" /\ op[t] = o /\ error[t] = "ETIMEOUT"}

\* Mutant of DoneAct: the flag is set only if nobody waits and it is clear.
DoneActIfAlone(t) ==
  /\ pc[t] = "done"
  /\ completed' = (suspend_thread["completion"] = <<>> /\ ~completed)
  /\ posted' = TRUE
  /\ late' = (late \/ TimedOut("completion_wait") # {})
  /\ notified' = notified \cup First("completion")
  /\ Resume(First("completion"), [pc EXCEPT ![t] = "run"])
  /\ UNCHANGED <<exists, op, arg, error, rt_tick, timeout, tick_delta, budget, lists>>

\* ... and then sets it and resumes the waiter.
DoneAct(t) ==
  /\ pc[t] = "done"
  /\ completed' = TRUE
  /\ posted' = TRUE
  /\ late' = (late \/ TimedOut("completion_wait") # {})
  /\ notified' = notified \cup First("completion")
  /\ Resume(First("completion"), [pc EXCEPT ![t] = "run"])
  /\ UNCHANGED <<exists, op, arg, error, rt_tick, timeout, tick_delta, budget, lists>>

CompletionStep(t) ==
  \/ rt_completion_init(t) \/ CompletionTake(t) \/ CompletionReturn(t)
  \/ DoneTest(t) \/ DoneAct(t)
  \/ \E n \in Timeouts : CompletionWait(t, n)

-----------------------------------------------------------------------------
\* rt_completion_wait: "ONLY when the return value is RT_EOK, the operation is
\* successful": a woken waiter finds RT_EOK exactly if a done has resumed it.
\* And a done is not forgotten: until a wait succeeds the flag is set or a
\* thread is on its way with RT_EOK, unless the done came between the timeout of
\* a waiter and its return, when that waiter wipes it out.  The early return of
\* rt_completion_done is sound: while a thread waits the flag is clear.
CompletionKept ==
  /\ \A t \in Thread : pc[t] = "woken" /\ op[t] = "completion_wait" =>
                         (error[t] = "EOK" <=> t \in notified)
  /\ posted /\ ~late => completed \/ notified # {}
  /\ suspend_thread["completion"] # <<>> => ~completed

=============================================================================
