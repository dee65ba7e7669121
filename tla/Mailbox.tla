------------------------------ MODULE Mailbox ------------------------------
(***************************************************************************)
(* The mailboxes of src/rt-thread/src/ipc.c: a ring of words with a list   *)
(* of waiting receivers and one of waiting senders.  A woken thread holds  *)
(* nothing: it looks at the mailbox again and may have to wait again, for  *)
(* what is left of its timeout.                                            *)
(*                                                                         *)
(* A call that cannot be served and must not wait returns at once, and     *)
(* leaves the state alone.  entry stays below RT_MB_ENTRY_MAX because size *)
(* is a word of the same width.                                            *)
(***************************************************************************)
EXTENDS IpcThread

CONSTANT mb_size

ASSUME MailboxAssumption == mb_size \in Nat \ {0}

VARIABLES msg_pool, in_offset, out_offset, entry,
          mail   \* [Thread -> Msg or NoArg] *value of an rt_mb_recv about to return

mbVars == <<msg_pool, in_offset, out_offset, entry, mail>>

MailboxInit ==
  /\ msg_pool = [i \in 0 .. mb_size - 1 |-> NoArg]
  /\ in_offset = 0 /\ out_offset = 0 /\ entry = 0
  /\ mail = [t \in Thread |-> NoArg]

\* Mutant of Emptied: in_offset stays where it was.
EmptiedKeepsIn == out_offset' = 0 /\ entry' = 0 /\ UNCHANGED in_offset

Emptied == in_offset' = 0 /\ out_offset' = 0 /\ entry' = 0

rt_mb_init(t) ==
  /\ Creating(t, "mb")
  /\ Emptied
  /\ UNCHANGED <<threadVars, msg_pool, mail>>

-----------------------------------------------------------------------------
\* The end of rt_mb_send_wait: m goes in, and a receiver is woken.
Put(t, m) ==
  /\ msg_pool' = [msg_pool EXCEPT ![in_offset] = m]
  /\ in_offset' = IF in_offset + 1 >= mb_size THEN 0 ELSE in_offset + 1
  /\ entry' = entry + 1
  /\ Resume(First("mb"), [pc EXCEPT ![t] = "run"])
  /\ Returned(t)
  /\ UNCHANGED <<exists, error, rt_tick, lists, out_offset, mail>>

\* Mutant of Get: no sender is woken unless the mailbox was full.
GetWakesIfFull(t) ==
  /\ mail' = [mail EXCEPT ![t] = msg_pool[out_offset]]
  /\ out_offset' = IF out_offset + 1 >= mb_size THEN 0 ELSE out_offset + 1
  /\ entry' = entry - 1
  /\ Resume(IF entry = mb_size THEN First("mb_sender") ELSE {},
            [pc EXCEPT ![t] = "return"])
  /\ Returned(t)
  /\ UNCHANGED <<exists, error, rt_tick, lists, msg_pool, in_offset>>

\* The end of rt_mb_recv: the oldest message comes out, and a sender is woken.
Get(t) ==
  /\ mail' = [mail EXCEPT ![t] = msg_pool[out_offset]]
  /\ out_offset' = IF out_offset + 1 >= mb_size THEN 0 ELSE out_offset + 1
  /\ entry' = entry - 1
  /\ Resume(First("mb_sender"), [pc EXCEPT ![t] = "return"])
  /\ Returned(t)
  /\ UNCHANGED <<exists, error, rt_tick, lists, msg_pool, in_offset>>

MbSend(t, m, n) ==
  /\ Calling(t, "mb")
  /\ IF entry = mb_size THEN TimedWait(t, "mb_send", m, n) /\ UNCHANGED mbVars ELSE Put(t, m)

MbRecv(t, n) ==
  /\ Calling(t, "mb")
  /\ IF entry = 0 THEN TimedWait(t, "mb_recv", NoArg, n) /\ UNCHANGED mbVars ELSE Get(t)

\* A woken sender or receiver enters the loop again.
MbRetry(t) ==
  \/ t \in Retrying("mb_send") /\ entry < mb_size /\ Put(t, arg[t])
  \/ t \in Retrying("mb_recv") /\ entry > 0 /\ Get(t)
  \/ /\ \/ t \in Retrying("mb_send") /\ entry = mb_size
        \/ t \in Retrying("mb_recv") /\ entry = 0
     /\ WaitAgain(t)
     /\ UNCHANGED mbVars

MbReturn(t) ==
  /\ pc[t] = "return" /\ mail[t] # NoArg
  /\ mail' = [mail EXCEPT ![t] = NoArg]
  /\ pc' = [pc EXCEPT ![t] = "run"]
  /\ UNCHANGED <<exists, op, arg, error, rt_tick, thread_timer, timeout, tick_delta,
                 budget, suspend_thread, lists, msg_pool, in_offset, out_offset, entry>>

rt_mb_urgent(t, m) ==
  /\ Calling(t, "mb") /\ entry # mb_size
  /\ LET i == IF out_offset > 0 THEN out_offset - 1 ELSE mb_size - 1
     IN  /\ out_offset' = i
         /\ msg_pool' = [msg_pool EXCEPT ![i] = m]
  /\ entry' = entry + 1
  /\ Resume(First("mb"), pc)
  /\ UNCHANGED <<exists, op, arg, error, rt_tick, timeout, tick_delta, budget, lists,
                 in_offset, mail>>

\* rt_mb_control with RT_IPC_CMD_RESET
MbReset(t) ==
  /\ Calling(t, "mb")
  /\ LET S == Waiters("mb") \cup Waiters("mb_sender")
     IN  SetError(S, "ERROR") /\ Resume(S, pc)
  /\ Emptied
  /\ UNCHANGED <<exists, op, arg, rt_tick, timeout, tick_delta, budget, lists,
                 msg_pool, mail>>

MailboxStep(t) ==
  \/ rt_mb_init(t) \/ MbRetry(t) \/ MbReturn(t) \/ MbReset(t)
  \/ \E n \in Timeouts : MbRecv(t, n) \/ \E m \in Msg : MbSend(t, m, n)
  \/ \E m \in Msg : rt_mb_urgent(t, m)

-----------------------------------------------------------------------------
\* Ipc!ChannelWakeups: while a receiver waits, every message has a woken receiver
\* on its way, and while a sender waits, every free place a woken sender, even
\* though others may take the message or the place first.
MailboxWakeups ==
  /\ suspend_thread["mb"] # <<>> => entry <= Cardinality(Retrying("mb_recv"))
  /\ suspend_thread["mb_sender"] # <<>> =>
       mb_size - entry <= Cardinality(Retrying("mb_send"))

\* The ring implements a bounded queue, with urgent messages put in front and
\* wherever its offsets wrap.
MbChannel == INSTANCE Channel WITH
  None     <- NoArg,
  Capacity <- mb_size,
  queue    <- [i \in 1 .. entry |-> msg_pool[(out_offset + i - 1) % mb_size]],
  hand     <- mail

MailboxChannel == MbChannel!Spec

=============================================================================
