------------------------------ MODULE MCMutex ------------------------------
(* Small instances of Mutex for TLC.                                        *)
EXTENDS Mutex

CONSTANTS high, mid, low, m, n

ThreeThreads == {high, mid, low}
OneMutex     == {m}
TwoMutexes   == {m, n}

MCInitPriority == [t \in Thread |-> CASE t = high -> 0 [] t = mid -> 1 [] OTHER -> 2]

\* Left out, because no action and no property reads it: thread->error and the
\* last mutex of a thread outside rt_mutex_take, and the fields of a mutex that
\* does not exist.
LiveState ==
  <<current_priority, thread_timer, inited,
    [t \in Thread |-> IF pc[t] = "run" THEN <<>> ELSE <<pc[t], error[t], wanted[t]>>],
    [x \in inited |-> <<value[x], owner[x], original_priority[x], hold[x],
                        suspend_thread[x]>>]>>

=============================================================================
