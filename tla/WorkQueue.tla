------------------------------ MODULE WorkQueue ------------------------------
(***************************************************************************)
(* The work queues of src/rt-thread/components/drivers/ipc/workqueue.c: a  *)
(* thread that executes the works of a list, works whose submission is     *)
(* delayed by a timer, and the calls that cancel them.  Clients and work   *)
(* functions make the calls; the timers end in the tick interrupt, at any  *)
(* time.  A step is a section with interrupts disabled, or an access       *)
(* without.                                                                *)
(*                                                                         *)
(* The semaphore of the queue only serves _workqueue_work_completion, one  *)
(* section under rt_enter_critical that releases it until nobody waits     *)
(* and leaves its value at 0.                                              *)
(***************************************************************************)
EXTENDS Naturals, FiniteSets, SequencesExt

CONSTANTS
  Client,       \* the threads that use the queue
  work_thread,  \* the thread of the queue
  Work,         \* the works
  User,         \* [Work -> Client or work_thread] who submits and cancels it
  NULL,         \* no work
  Careful       \* do the callers observe the rules below?

Caller == Client \cup {work_thread}

ASSUME ThreadAssumption == work_thread \notin Client /\ NULL \notin Work
ASSUME UserAssumption == User \in [Work -> Caller]
ASSUME CarefulAssumption == Careful \in BOOLEAN

VARIABLES
  pc,            \* where each caller is, see below
  arg,           \* [Caller -> the work of the call it is in]
  work_list,     \* the works to execute
  delayed_list,  \* the works whose timers run
  work_current,  \* the work that is executed, or NULL
  pending,       \* the works with RT_WORK_STATE_PENDING
  submitting,    \* the works with RT_WORK_STATE_SUBMITTING
  timer,         \* the works whose timers are active
  workqueue,     \* the works with work->workqueue set
  accepted,      \* history: works whose last submission was accepted, and which
                 \* neither have been started since nor cancelled
  overrun        \* history: works whose delay ended while they were executed

queueVars == <<work_list, delayed_list, pending, submitting, timer, workqueue>>
vars == <<pc, arg, work_current, queueVars, accepted, overrun>>

\* The values of pc.  Clients: "start" before rt_timer_start, "take" and "cancel"
\* after the test of rt_workqueue_cancel_work_sync, "sync" waiting there,
\* "all_work", "all_delayed" and "all_first" inside rt_workqueue_cancel_all_work.
\* The work thread: "loop", "idle" (suspended), "doing" (in a work function), "ack".

Init ==
  /\ pc = [t \in Caller |-> IF t = work_thread THEN "loop" ELSE "run"]
  /\ arg = [t \in Caller |-> NULL]
  /\ work_list = <<>> /\ delayed_list = <<>>
  /\ work_current = NULL
  /\ pending = {} /\ submitting = {} /\ timer = {} /\ workqueue = {}
  /\ accepted = {} /\ overrun = {}

\* A thread that executes code of its own: a client, or a work function.
Home(t) == IF t = work_thread THEN "doing" ELSE "run"

\* rt_workqueue_cancel_all_work locks the scheduler.
Critical == \E t \in Caller : pc[t] \in {"all_work", "all_delayed", "all_first"}

Calling(t, w) == pc[t] = Home(t) /\ User[w] = t /\ ~Critical

-----------------------------------------------------------------------------
(***************************************************************************)
(* The rules for callers, if Careful.  The code breaks without them.       *)
(***************************************************************************)

\* A work whose delay is running is cancelled before it is submitted directly.
MaySubmit(w) == Careful => w \notin submitting

\* A thread in rt_workqueue_cancel_work_sync is more urgent than the work thread.
WorkerMay == ~Critical /\ (Careful => \A t \in Client : pc[t] # "take")

\* No delay ends while rt_workqueue_cancel_all_work runs.
MayExpire == Careful => ~Critical

-----------------------------------------------------------------------------
(***************************************************************************)
(* Submitting.                                                             *)
(***************************************************************************)

\* rt_list_remove
Without(s, w) == RemoveFirst(s, w)

\* "whether the workqueue is doing work": the thread is resumed if it is idle.
Resumed(p) ==
  pc' = IF work_current = NULL /\ p[work_thread] = "idle"
        THEN [p EXCEPT ![work_thread] = "loop"] ELSE p

\* rt_workqueue_dowork, and rt_workqueue_submit_work without delay
SubmitNow(t, w) ==
  /\ Calling(t, w) /\ MaySubmit(w)
  /\ delayed_list' = Without(delayed_list, w)
  /\ IF work_current # w
     THEN /\ work_list' = Append(Without(work_list, w), w)
          /\ pending' = pending \cup {w}
          /\ workqueue' = workqueue \cup {w}
          /\ accepted' = accepted \cup {w}
     ELSE /\ work_list' = Without(work_list, w)
          /\ pending' = pending \ {w}
          /\ accepted' = accepted \ {w}
          /\ UNCHANGED workqueue
  /\ overrun' = overrun \ {w}
  /\ Resumed(pc)
  /\ UNCHANGED <<arg, work_current, submitting, timer>>

\* rt_workqueue_submit_work with a delay: a timer that runs is stopped ...
SubmitDelayed(t, w) ==
  /\ Calling(t, w)
  /\ work_list' = Without(work_list, w)
  /\ delayed_list' = Append(Without(delayed_list, w), w)
  /\ pending' = pending \ {w}
  /\ timer' = timer \ {w}
  /\ submitting' = submitting \cup {w}
  /\ workqueue' = workqueue \cup {w}
  /\ accepted' = accepted \cup {w}
  /\ overrun' = overrun \ {w}
  /\ pc' = [pc EXCEPT ![t] = "start"]
  /\ arg' = [arg EXCEPT ![t] = w]
  /\ UNCHANGED work_current

\* ... and started after interrupts have been enabled.
StartTimer(t) ==
  /\ pc[t] = "start" /\ ~Critical
  /\ timer' = timer \cup {arg[t]}
  /\ pc' = [pc EXCEPT ![t] = Home(t)]
  /\ arg' = [arg EXCEPT ![t] = NULL]
  /\ UNCHANGED <<work_list, delayed_list, work_current, pending, submitting, workqueue,
                 accepted, overrun>>

rt_workqueue_urgent_work(t, w) ==
  /\ Calling(t, w) /\ MaySubmit(w)
  /\ work_list' = <<w>> \o Without(work_list, w)
  /\ delayed_list' = Without(delayed_list, w)
  /\ accepted' = accepted \cup {w}
  /\ overrun' = overrun \ {w}
  /\ Resumed(pc)
  /\ UNCHANGED <<arg, work_current, pending, submitting, timer, workqueue>>

\* Mutants of _delayed_work_timeout_handler: the idle thread is not resumed; the
\* work is dropped while any work is executed.
HandlerNoResume(w) ==
  /\ w \in timer /\ w \in workqueue /\ MayExpire
  /\ timer' = timer \ {w}
  /\ submitting' = submitting \ {w}
  /\ delayed_list' = Without(delayed_list, w)
  /\ IF work_current # w
     THEN work_list' = Append(Without(work_list, w), w) /\ pending' = pending \cup {w}
     ELSE work_list' = Without(work_list, w) /\ UNCHANGED pending
  /\ overrun' = IF work_current = w THEN overrun \cup {w} ELSE overrun
  /\ UNCHANGED <<pc, arg, work_current, workqueue, accepted>>

HandlerDropsIfBusy(w) ==
  /\ w \in timer /\ w \in workqueue /\ MayExpire
  /\ timer' = timer \ {w}
  /\ submitting' = submitting \ {w}
  /\ delayed_list' = Without(delayed_list, w)
  /\ IF work_current = NULL
     THEN work_list' = Append(Without(work_list, w), w) /\ pending' = pending \cup {w}
     ELSE work_list' = Without(work_list, w) /\ UNCHANGED pending
  /\ overrun' = IF work_current = w THEN overrun \cup {w} ELSE overrun
  /\ Resumed(pc)
  /\ UNCHANGED <<arg, work_current, workqueue, accepted>>

\* The timer of w ends.  The code asserts that the work has a queue; without one
\* the behaviours modelled end.
_delayed_work_timeout_handler(w) ==
  /\ w \in timer /\ w \in workqueue /\ MayExpire
  /\ timer' = timer \ {w}
  /\ submitting' = submitting \ {w}
  /\ delayed_list' = Without(delayed_list, w)
  /\ IF work_current # w
     THEN work_list' = Append(Without(work_list, w), w) /\ pending' = pending \cup {w}
     ELSE work_list' = Without(work_list, w) /\ UNCHANGED pending
  /\ overrun' = IF work_current = w THEN overrun \cup {w} ELSE overrun
  /\ Resumed(pc)
  /\ UNCHANGED <<arg, work_current, workqueue, accepted>>

-----------------------------------------------------------------------------
(***************************************************************************)
(* Cancelling.                                                             *)
(***************************************************************************)

\* Mutant of _workqueue_cancel_work: the timer runs on.
CancelKeepsTimer(w) ==
  /\ work_list' = Without(work_list, w)
  /\ delayed_list' = Without(delayed_list, w)
  /\ pending' = pending \ {w}
  /\ submitting' = submitting \ {w}
  /\ workqueue' = workqueue \ {w}
  /\ accepted' = accepted \ {w}
  /\ overrun' = overrun \ {w}
  /\ UNCHANGED timer

_workqueue_cancel_work(w) ==
  /\ work_list' = Without(work_list, w)
  /\ delayed_list' = Without(delayed_list, w)
  /\ pending' = pending \ {w}
  /\ timer' = IF w \in submitting THEN timer \ {w} ELSE timer
  /\ submitting' = submitting \ {w}
  /\ workqueue' = workqueue \ {w}
  /\ accepted' = accepted \ {w}
  /\ overrun' = overrun \ {w}

rt_workqueue_cancel_work(t, w) ==
  /\ Calling(t, w)
  /\ _workqueue_cancel_work(w)
  /\ UNCHANGED <<pc, arg, work_current>>

\* rt_workqueue_cancel_work_sync looks at the current work with interrupts
\* enabled; a work function does not wait for itself.
CancelSync(t, w) ==
  /\ t \in Client /\ Calling(t, w)
  /\ pc' = [pc EXCEPT ![t] = IF work_current = w THEN "take" ELSE "cancel"]
  /\ arg' = [arg EXCEPT ![t] = w]
  /\ UNCHANGED <<work_current, queueVars, accepted, overrun>>

SyncTake(t) ==
  /\ pc[t] = "take" /\ ~Critical
  /\ pc' = [pc EXCEPT ![t] = "sync"]
  /\ UNCHANGED <<arg, work_current, queueVars, accepted, overrun>>

SyncCancel(t) ==
  /\ pc[t] = "cancel" /\ ~Critical
  /\ _workqueue_cancel_work(arg[t])
  /\ pc' = [pc EXCEPT ![t] = "run"]
  /\ arg' = [arg EXCEPT ![t] = NULL]
  /\ UNCHANGED work_current

\* rt_workqueue_cancel_all_work, when no other thread is about to start a timer.
CancelAll(t) ==
  /\ t \in Client /\ pc[t] = "run" /\ ~Critical
  /\ \A u \in Caller : pc[u] # "start"
  /\ pc' = [pc EXCEPT ![t] = "all_work"]
  /\ UNCHANGED <<arg, work_current, queueVars, accepted, overrun>>

\* The first loop; interrupts can only add to its list.
CancelAllWork(t) ==
  /\ pc[t] = "all_work"
  /\ IF work_list # <<>>
     THEN _workqueue_cancel_work(Head(work_list)) /\ UNCHANGED pc
     ELSE pc' = [pc EXCEPT ![t] = "all_delayed"] /\ UNCHANGED <<queueVars, accepted, overrun>>
  /\ UNCHANGED <<arg, work_current>>

\* The second loop: its test ...
CancelAllTest(t) ==
  /\ pc[t] = "all_delayed"
  /\ pc' = [pc EXCEPT ![t] = IF delayed_list # <<>> THEN "all_first" ELSE "run"]
  /\ UNCHANGED <<arg, work_current, queueVars, accepted, overrun>>

\* ... and its body, for which a list that a timer has emptied has no first work.
CancelAllDelayed(t) ==
  /\ pc[t] = "all_first" /\ delayed_list # <<>>
  /\ _workqueue_cancel_work(Head(delayed_list))
  /\ pc' = [pc EXCEPT ![t] = "all_delayed"]
  /\ UNCHANGED <<arg, work_current>>

-----------------------------------------------------------------------------
(***************************************************************************)
(* _workqueue_thread_entry                                                 *)
(***************************************************************************)

WorkerIdle ==
  /\ WorkerMay /\ pc[work_thread] = "loop" /\ work_list = <<>>
  /\ pc' = [pc EXCEPT ![work_thread] = "idle"]
  /\ UNCHANGED <<arg, work_current, queueVars, accepted, overrun>>

WorkerTake ==
  /\ WorkerMay /\ pc[work_thread] = "loop" /\ work_list # <<>>
  /\ LET w == Head(work_list)
     IN  /\ work_current' = w
         /\ pending' = pending \ {w}
         /\ workqueue' = workqueue \ {w}
         /\ accepted' = accepted \ {w}
  /\ work_list' = Tail(work_list)
  /\ pc' = [pc EXCEPT ![work_thread] = "doing"]
  /\ UNCHANGED <<arg, delayed_list, submitting, timer, overrun>>

\* The work function returns, and the thread writes work_current.
WorkerDone ==
  /\ WorkerMay /\ pc[work_thread] = "doing"
  /\ work_current' = NULL
  /\ pc' = [pc EXCEPT ![work_thread] = "ack"]
  /\ UNCHANGED <<arg, queueVars, accepted, overrun>>

\* Mutant of _workqueue_work_completion: only when the list is empty.
CompletionLazy ==
  /\ WorkerMay /\ pc[work_thread] = "ack"
  /\ pc' = [t \in Caller |-> IF t = work_thread THEN "loop"
                             ELSE IF pc[t] = "sync" /\ work_list = <<>> THEN "run" ELSE pc[t]]
  /\ arg' = [t \in Caller |-> IF pc'[t] = "run" THEN NULL ELSE arg[t]]
  /\ UNCHANGED <<work_current, queueVars, accepted, overrun>>

\* Everybody who waits for a completion is released.
_workqueue_work_completion ==
  /\ WorkerMay /\ pc[work_thread] = "ack"
  /\ pc' = [t \in Caller |-> IF t = work_thread THEN "loop"
                             ELSE IF pc[t] = "sync" THEN "run" ELSE pc[t]]
  /\ arg' = [t \in Caller |-> IF pc[t] = "sync" THEN NULL ELSE arg[t]]
  /\ UNCHANGED <<work_current, queueVars, accepted, overrun>>

-----------------------------------------------------------------------------
Worker == WorkerIdle \/ WorkerTake \/ WorkerDone \/ _workqueue_work_completion

\* What a caller that is inside a call goes on with.
Continue(t) ==
  \/ StartTimer(t) \/ SyncTake(t) \/ SyncCancel(t)
  \/ CancelAllWork(t) \/ CancelAllTest(t) \/ CancelAllDelayed(t)

Next ==
  \/ Worker
  \/ \E w \in Work :
       \/ _delayed_work_timeout_handler(w)
       \/ \E t \in Caller : \/ SubmitNow(t, w) \/ SubmitDelayed(t, w)
                            \/ rt_workqueue_urgent_work(t, w)
                            \/ rt_workqueue_cancel_work(t, w) \/ CancelSync(t, w)
  \/ \E t \in Caller : Continue(t) \/ CancelAll(t)

Spec == Init /\ [][Next]_vars

\* Work functions end, and the callers leave the work thread the CPU again and
\* again.
FairSpec == Spec /\ SF_vars(Worker) /\ \A t \in Caller : WF_vars(Continue(t))

-----------------------------------------------------------------------------
(***************************************************************************)
(* Correctness.                                                            *)
(***************************************************************************)

\* The thread does not sleep over work: when it is suspended the list is empty,
\* although submissions from clients, works and timers only resume it after a
\* look at work_current and its state.
NoWorkAsleep == pc[work_thread] = "idle" => work_list = <<>>

\* A work whose last submission was accepted is executed or cancelled later: it
\* stands in the list, or in the list of delays with its timer running or about
\* to be started.  The exception is a delay that ends while the work itself is
\* still executed from an earlier submission: the handler drops it.
WorkAccounted ==
  \A w \in accepted \ overrun :
    \/ w \in ToSet(work_list)
    \/ /\ w \in ToSet(delayed_list)
       /\ w \in timer \/ \E t \in Caller : pc[t] = "start" /\ arg[t] = w

\* A work is in one list at most, and the flags tell which: cancel and submit
\* decide by them whether there is a timer to stop.  A work whose timer runs
\* belongs to a queue: RT_ASSERT(queue != RT_NULL) in
\* _delayed_work_timeout_handler.
FlagsExact ==
  /\ IsInjective(work_list \o delayed_list)
  /\ submitting = ToSet(delayed_list)
  /\ pending \subseteq ToSet(work_list)
  /\ timer \subseteq submitting \cap workqueue

\* rt_workqueue_cancel_work_sync: "If the work item is executing, this function
\* will block until it is done", and not longer.
SyncReturns == \A t \in Client : pc[t] = "sync" ~> pc[t] # "sync"

=============================================================================
