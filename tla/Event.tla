------------------------------- MODULE Event -------------------------------
(***************************************************************************)
(* The event sets of src/rt-thread/src/ipc.c.  A thread waits for one of   *)
(* several bits or for all of them, and may clear the bits it received.    *)
(* rt_event_recv with a timeout of 0 that is not satisfied only sets       *)
(* thread->error, which nobody reads before the next call.                 *)
(***************************************************************************)
EXTENDS IpcThread

CONSTANT Bit   \* the bits of the event set in use

VARIABLES
  set,         \* event->set
  event_set,   \* [Thread -> bits] wanted, and once received the bits received
  event_info   \* [Thread -> option]

eventVars == <<set, event_set, event_info>>

BitSet == (SUBSET Bit) \ {{}}
Option == [all : BOOLEAN, clear : BOOLEAN]   \* RT_EVENT_FLAG_AND, ..._CLEAR
NoOption == [all |-> FALSE, clear |-> FALSE]

EventInit ==
  /\ set = {}
  /\ event_set = [t \in Thread |-> {}]
  /\ event_info = [t \in Thread |-> NoOption]

rt_event_init(t) ==
  /\ Creating(t, "event")
  /\ set' = {}
  /\ UNCHANGED <<threadVars, event_set, event_info>>

\* Do the bits b satisfy a call that wants w?
Satisfied(w, all, b) == IF all THEN w \subseteq b ELSE w \cap b # {}

RecvNow(t, w, o) ==
  /\ Calling(t, "event") /\ Satisfied(w, o.all, set)
  /\ error' = [error EXCEPT ![t] = "EOK"]
  /\ event_set' = [event_set EXCEPT ![t] = set \cap w]
  /\ event_info' = [event_info EXCEPT ![t] = o]
  /\ set' = IF o.clear THEN set \ w ELSE set
  /\ UNCHANGED <<exists, pc, op, arg, rt_tick, thread_timer, timeout, tick_delta,
                 budget, suspend_thread, lists>>

RecvWait(t, w, o, n) ==
  /\ Calling(t, "event") /\ ~Satisfied(w, o.all, set)
  /\ Wait(t, "event_recv", NoArg, "event", n)
  /\ event_set' = [event_set EXCEPT ![t] = w]
  /\ event_info' = [event_info EXCEPT ![t] = o]
  /\ UNCHANGED <<tick_delta, set>>

\* *recved = thread->event_set
RecvReturn(t) ==
  /\ pc[t] = "woken" /\ op[t] = "event_recv" /\ error[t] = "EOK"
  /\ pc' = [pc EXCEPT ![t] = "run"]
  /\ Returned(t)
  /\ UNCHANGED <<exists, error, rt_tick, thread_timer, suspend_thread, lists, set,
                 event_set, event_info>>

\* Mutant of Visit: the scan ends with the first thread it wakes.
VisitFirst(k, t) ==
  LET s == event_set[t]
      o == event_info[t]
  IN  IF k.woken # {} \/ ~Satisfied(s, o.all, k.set) THEN k
      ELSE [set      |-> IF o.clear THEN k.set \ s ELSE k.set,
            woken    |-> k.woken \cup {t},
            received |-> [k.received EXCEPT ![t] = IF o.all THEN s ELSE s \cap k.set]]

\* One turn of the loop of rt_event_send: waiter t takes what it waits for out
\* of the set the waiters before it have left.
Visit(k, t) ==
  LET s == event_set[t]
      o == event_info[t]
  IN  IF ~Satisfied(s, o.all, k.set) THEN k
      ELSE [set      |-> IF o.clear THEN k.set \ s ELSE k.set,
            woken    |-> k.woken \cup {t},
            received |-> [k.received EXCEPT ![t] = IF o.all THEN s ELSE s \cap k.set]]

\* The loop, over the waiters s, with the bits b set.
Scan(s, b) ==
  LET scan[i \in 0 .. Len(s)] ==
        IF i = 0 THEN [set |-> b, woken |-> {}, received |-> event_set]
        ELSE Visit(scan[i - 1], s[i])
  IN  scan[Len(s)]

rt_event_send(t, b) ==
  /\ Calling(t, "event")
  /\ LET k == Scan(suspend_thread["event"], set \cup b)
     IN  /\ set' = k.set
         /\ event_set' = k.received
         /\ Resume(k.woken, pc)
  /\ UNCHANGED <<exists, op, arg, error, rt_tick, timeout, tick_delta, budget, lists,
                 event_info>>

\* rt_event_control with RT_IPC_CMD_RESET
EventReset(t) ==
  /\ Calling(t, "event")
  /\ SetError(Waiters("event"), "ERROR")
  /\ Resume(Waiters("event"), pc)
  /\ set' = {}
  /\ UNCHANGED <<exists, op, arg, rt_tick, timeout, tick_delta, budget, lists,
                 event_set, event_info>>

EventStep(t) ==
  \/ rt_event_init(t) \/ RecvReturn(t) \/ EventReset(t)
  \/ \E b \in BitSet : rt_event_send(t, b)
  \/ \E w \in BitSet, o \in Option :
       RecvNow(t, w, o) \/ \E n \in Timeouts : RecvWait(t, w, o, n)

-----------------------------------------------------------------------------
\* No thread waits for bits that are set: the scan of rt_event_send reaches
\* every waiter the new set satisfies, although those before it in the list may
\* clear bits and leave the list during the scan.
NoMissedEvent ==
  \A t \in Waiters("event") : ~Satisfied(event_set[t], event_info[t].all, set)

=============================================================================
