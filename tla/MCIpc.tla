------------------------------- MODULE MCIpc -------------------------------
(* Small instances of Ipc for TLC.                                          *)
EXTENDS Ipc

CONSTANTS a, b, c, m1, m2

ThreeThreads == {a, b, c}
MCPriority == [t \in Thread |-> IF t = a THEN 0 ELSE 1]
MCTimeouts == {-1, 2}
MCBit == {1, 2}
MCBlock == {1, 2}
MCMsg == {m1, m2}

\* Nothing tells b from c, nor one message from the other.
Equals == Permutations({b, c}) \cup Permutations({m1, m2})

\* The message queue with its nodes numbered in the order of the queue, the free
\* list and the threads: which node is which does not matter.
LiveQueue ==
  LET q == Path(msg_queue_head)
      free == Path(msg_queue_free)
      nodes == q \o free \o <<msg[a], msg[b], msg[c]>>
      Number(i) == IF i = NULL THEN NULL ELSE SelectInSeq(nodes, LAMBDA j : j = i)
      Numbers(f) == [x \in DOMAIN f |-> Number(f[x])]
  IN  <<Numbers(q), Numbers(free), Numbers(msg), Number(msg_queue_tail), mq_entry,
        [i \in DOMAIN q |-> body[q[i]]],
        [t \in Thread |-> IF pc[t] \in {"link", "fetch"} THEN body[msg[t]] ELSE NoArg]>>

\* A signal left in sig_pending takes a thread no step but another signal, so what
\* a thread with one does, one without does as well.
LiveSignals ==
  <<[t \in Thread |-> IF sig[t] = "left" THEN "none" ELSE sig[t]], at>>

\* Ticks enter only through differences.  Left out besides: thread->error and
\* the event fields of a thread outside a call, and what is not in use in the
\* buffers; no action and no property reads them before they are written.
LiveState ==
  <<exists, pc, op, arg, budget, timeout, suspend_thread, lists,
    [t \in Thread |-> IF pc[t] = "woken" THEN error[t] ELSE "EOK"],
    [t \in Thread |-> IF thread_timer[t] = NoTimer THEN NoTimer
                      ELSE Minus(thread_timer[t], rt_tick)],
    [t \in Thread |-> IF op[t] \in Recomputing /\ timeout[t] > 0
                      THEN Minus(rt_tick, tick_delta[t]) ELSE 0],
    IF "sem" \in exists THEN semVars ELSE <<>>,
    IF "event" \in exists
    THEN <<set, [t \in Waiters("event") |-> <<event_set[t], event_info[t]>>]>> ELSE <<>>,
    IF "mb" \in exists
    THEN <<in_offset, out_offset, [i \in 1 .. entry |-> msg_pool[(out_offset + i - 1) % mb_size]]>>
    ELSE <<>>, mail,
    IF "mq" \in exists THEN LiveQueue ELSE <<>>, buffer,
    IF "dq" \in exists
    THEN <<get_index, put_index, is_empty, is_full,
           [i \in 1 .. rt_data_queue_len |-> item[(get_index + i - 1) % dq_size]]>>
    ELSE <<>>, data, completionVars, wqVars, LiveSignals,
    IF "mp" \in exists THEN mpVars ELSE <<>> >>

=============================================================================
