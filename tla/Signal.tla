------------------------------- MODULE Signal -------------------------------
(***************************************************************************)
(* Signals to threads inside blocking calls: rt_thread_kill and the        *)
(* delivery of src/rt-thread/src/signal.c, for one signal that every       *)
(* thread has unmasked.  A suspended thread is resumed and runs its        *)
(* handler at the end of rt_schedule; a ready thread that is off the CPU   *)
(* gets a frame on its stack and runs the handler before anything else; a  *)
(* thread that signals itself runs it at once.  In these cases the handler *)
(* leaves -RT_EINTR in thread->error.  Nothing handles the signal of an    *)
(* interrupt to the thread that has the CPU.                               *)
(***************************************************************************)
EXTENDS IpcThread

CONSTANTS
  Signals,   \* the kinds of objects whose users get signals
  Polite     \* do signals spare threads that enter or leave a wait, and objects
             \* that are being detached?

ASSUME SignalAssumption == Signals \subseteq Object /\ Polite \in BOOLEAN

VARIABLES
  sig,  \* [Thread -> "none", "pending" (RT_THREAD_STAT_SIGNAL_PENDING),
        \*  "entry" (a frame of _signal_entry on the stack) or "left" (in
        \*  sig_pending for good)]
  at    \* [Thread -> "before" (suspended, rt_schedule not reached), "out"
        \*  (another thread has the CPU) or "back" (rt_schedule has returned)]

sigVars == <<sig, at>>

SignalInit ==
  /\ sig = [t \in Thread |-> "none"]
  /\ at = [t \in Thread |-> "back"]

\* t has run its handler, is past rt_schedule and takes the next step of its own.
Free(t) == at[t] = "back" /\ sig[t] # "entry"

\* A thread that suspends itself has rt_schedule before it.
Enter ==
  /\ at' = [t \in Thread |-> IF pc'[t] = "wait" /\ pc[t] # "wait" /\ exists \cap Signals # {}
                             THEN "before" ELSE at[t]]
  /\ UNCHANGED sig

\* Whom a signal may hit.  One that is in sig_pending already is not sent again.
Killable(t) ==
  /\ exists \cap Signals # {} /\ sig[t] = "none"
  /\ Polite => /\ pc[t] = "run" \/ (pc[t] = "wait" /\ at[t] = "out")
               /\ \A u \in Thread : op[u] \notin {"detach", "dq_reset"}

\* rt_thread_kill by an interrupt or another thread.  A suspended thread is
\* resumed; another one is off the CPU ("entry"), or has it and is interrupted.
rt_thread_kill(t) ==
  /\ Killable(t)
  /\ \/ pc[t] = "wait" /\ Resume({t}, pc) /\ sig' = [sig EXCEPT ![t] = "pending"]
     \/ /\ pc[t] # "wait"
        /\ \E s \in {"entry", "left"} : sig' = [sig EXCEPT ![t] = s]
        /\ UNCHANGED <<pc, thread_timer, suspend_thread>>
  /\ UNCHANGED <<exists, op, arg, error, rt_tick, timeout, tick_delta, budget, lists, at>>

\* rt_thread_kill(rt_thread_self(), ...)
KillSelf(t) ==
  /\ Killable(t) /\ pc[t] = "run" /\ at[t] = "back"
  /\ error' = [error EXCEPT ![t] = "EINTR"]
  /\ UNCHANGED <<exists, pc, op, arg, rt_tick, thread_timer, timeout, tick_delta,
                 budget, suspend_thread, lists, sig, at>>

\* _signal_entry, when the thread gets the CPU again: before the rest of a call
\* of rt_schedule it is in.
_signal_entry(t) ==
  /\ sig[t] = "entry"
  /\ sig' = [sig EXCEPT ![t] = "none"]
  /\ error' = [error EXCEPT ![t] = "EINTR"]
  /\ UNCHANGED <<exists, pc, op, arg, rt_tick, thread_timer, timeout, tick_delta,
                 budget, suspend_thread, lists, at>>

\* rt_schedule of a thread that has suspended itself.  One that has been resumed
\* before it gets there may keep the CPU, and then no signal is looked at.
Schedule(t) ==
  /\ at[t] = "before" /\ sig[t] # "entry"
  /\ \/ at' = [at EXCEPT ![t] = "out"]
     \/ pc[t] # "wait" /\ at' = [at EXCEPT ![t] = "back"]
  /\ UNCHANGED <<exists, threadVars, sig>>

\* The thread has the CPU again and handles a signal marked pending.
ScheduleEnd(t) ==
  /\ at[t] = "out" /\ pc[t] # "wait" /\ sig[t] # "entry"
  /\ at' = [at EXCEPT ![t] = "back"]
  /\ sig' = [sig EXCEPT ![t] = IF @ = "pending" THEN "none" ELSE @]
  /\ error' = IF sig[t] = "pending" THEN [error EXCEPT ![t] = "EINTR"] ELSE error
  /\ UNCHANGED <<exists, pc, op, arg, rt_tick, thread_timer, timeout, tick_delta,
                 budget, suspend_thread, lists>>

SignalStep(t) ==
  rt_thread_kill(t) \/ KillSelf(t) \/ _signal_entry(t) \/ Schedule(t) \/ ScheduleEnd(t)

=============================================================================
