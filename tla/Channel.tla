------------------------------ MODULE Channel ------------------------------
(***************************************************************************)
(* What mailboxes and message queues promise: a queue of at most Capacity  *)
(* messages.  A message goes to exactly one receiver, the oldest first     *)
(* unless it was sent urgently, and what the receiver gets is what was     *)
(* sent, however long it takes to return with it.  Modules Mailbox and     *)
(* MessageQueue implement this specification.                              *)
(***************************************************************************)
EXTENDS Sequences, Naturals

CONSTANTS
  Thread,    \* the receivers
  Msg,       \* the messages
  None,      \* no message
  Capacity   \* the size of the queue

VARIABLES
  queue,  \* the messages under way, the next to be received first
  hand    \* [Thread -> Msg or None] the message a receiver returns with

cvars == <<queue, hand>>

Init ==
  /\ queue = <<>>
  /\ hand = [t \in Thread |-> None]

Send(m) ==
  /\ Len(queue) < Capacity
  /\ queue' = Append(queue, m)
  /\ UNCHANGED hand

Urgent(m) ==
  /\ Len(queue) < Capacity
  /\ queue' = <<m>> \o queue
  /\ UNCHANGED hand

Receive(t) ==
  /\ hand[t] = None /\ queue # <<>>
  /\ hand' = [hand EXCEPT ![t] = Head(queue)]
  /\ queue' = Tail(queue)

Return(t) ==
  /\ hand[t] # None
  /\ hand' = [hand EXCEPT ![t] = None]
  /\ UNCHANGED queue

\* The queue is reset, or detached and set up again.
Reset ==
  /\ queue' = <<>>
  /\ UNCHANGED hand

Next ==
  \/ \E m \in Msg : Send(m) \/ Urgent(m)
  \/ \E t \in Thread : Receive(t) \/ Return(t)
  \/ Reset

Spec == Init /\ [][Next]_cvars

=============================================================================
