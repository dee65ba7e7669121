----------------------------- MODULE MCScheduler -----------------------------
(***************************************************************************)
(* Instances of Scheduler for TLC: idle, the main thread and one thread of *)
(* the application on three priorities, or two of them on two.             *)
(***************************************************************************)
EXTENDS Scheduler

CONSTANTS a, b, idle, main

MCThread == {idle, main, a}

\* a starts with main's priority.
MCInitPriority == [t \in Thread |-> IF t = idle THEN 2 ELSE 1]
OneTick == [t \in Thread |-> 1]

\* Three threads of one priority: two wait in its list while the third runs.
ThreeEquals == {idle, main, a, b}
EqualPriority == [t \in Thread |-> IF t = idle THEN 1 ELSE 0]
MixedTick == [t \in Thread |-> IF t = a THEN 2 ELSE 1]

\* States that differ only in values nothing reads before writing are one: the
\* priority and slice of a free control block, `from' and `to' without flag.
LiveState ==
  <<stat, yield, thread_timer, table, group, defunct, waiting,
    rt_current_thread, lock_nest, isr, flag, cpu, pc, arg, deferred,
    [t \in Thread |-> IF stat[t] = "NULL" THEN <<>>
                      ELSE <<current_priority[t], remaining_tick[t]>>],
    IF flag THEN <<from, to>> ELSE <<>> >>

=============================================================================
