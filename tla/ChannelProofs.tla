--------------------------- MODULE ChannelProofs ---------------------------
(***************************************************************************)
(* Mailboxes and data queues of any size implement Channel, and no wakeup  *)
(* is lost in a mailbox, a data queue or a memory pool.  Their calls hand  *)
(* nothing to the thread they wake: it has to come back and look at the    *)
(* object again, and others may be faster.                                 *)
(***************************************************************************)
EXTENDS IpcProofs, FiniteSetTheorems

-----------------------------------------------------------------------------
(***************************************************************************)
(* A ring read as a sequence.                                              *)
(***************************************************************************)

\* The n elements of a ring from place out on.
Ring(pool, out, n, size) == [i \in 1 .. n |-> pool[(out + i - 1) % size]]

\* The place of its element i.
At(out, i, size) == IF out + i - 1 < size THEN out + i - 1 ELSE out + i - 1 - size

\* A place of the ring, without the modulus.
LEMMA Place ==
  ASSUME NEW size \in Nat, size > 0, NEW x \in Int, 0 <= x, x < size + size
  PROVE  /\ x % size = IF x < size THEN x ELSE x - size
         /\ x % size \in 0 .. size - 1
  OBVIOUS

\* s consists of the n elements of a ring from place out on.
Reads(s, S, pool, out, n, size) ==
  s \in Seq(S) /\ Len(s) = n /\ \A i \in 1 .. n : s[i] = pool[At(out, i, size)]

\* The elements of the ring are a sequence.
LEMMA RingSeq ==
  ASSUME NEW S, NEW size \in Nat, size > 0, NEW pool \in [0 .. size - 1 -> S],
         NEW out \in 0 .. size - 1, NEW n \in 0 .. size
  PROVE  Reads(Ring(pool, out, n, size), S, pool, out, n, size)
<1>1. ASSUME NEW i \in 1 .. n
      PROVE  /\ (out + i - 1) % size \in 0 .. size - 1
             /\ (out + i - 1) % size = At(out, i, size)
  <2>1. out + i - 1 \in Int /\ 0 <= out + i - 1 /\ out + i - 1 < size + size
    OBVIOUS
  <2> QED
    BY <2>1, Place DEF At
<1>2. \A i \in 1 .. n : Ring(pool, out, n, size)[i] = pool[(out + i - 1) % size]
  BY DEF Ring
<1>3. Ring(pool, out, n, size) \in [1 .. n -> S]
  BY <1>1 DEF Ring
<1>4. Ring(pool, out, n, size) \in Seq(S) /\ Len(Ring(pool, out, n, size)) = n
  BY <1>3
<1> QED
  BY <1>1, <1>2, <1>4 DEF Reads

\* p is the ring with m written to place k.
Written(p, pool, k, m) == p = [pool EXCEPT ![k] = m]

\* r is s with m behind it, or before it.
Longer(r, s, m) == r = Append(s, m)
Fronted(r, s, m) == r = <<m>> \o s

\* Two sequences with the same elements are the same.
LEMMA SameSeq ==
  ASSUME NEW S, NEW s \in Seq(S), NEW r \in Seq(S), Len(s) = Len(r),
         \A i \in 1 .. Len(s) : s[i] = r[i]
  PROVE  s = r
  OBVIOUS

\* Writing behind the last element appends it.
LEMMA RingAppend ==
  ASSUME NEW S, NEW size \in Nat, size > 0, NEW pool \in [0 .. size - 1 -> S],
         NEW out \in 0 .. size - 1, NEW n \in 0 .. size - 1, NEW m \in S,
         NEW k, k = (out + n) % size, NEW p, Written(p, pool, k, m)
  PROVE  Longer(Ring(p, out, n + 1, size), Ring(pool, out, n, size), m)
<1> DEFINE r == Ring(p, out, n + 1, size)
           s == Ring(pool, out, n, size)
<1>1. k \in 0 .. size - 1 /\ k = IF out + n < size THEN out + n ELSE out + n - size
  <2>1. out + n \in Int /\ 0 <= out + n /\ out + n < size + size
    OBVIOUS
  <2> QED
    BY <2>1, Place
<1>2. p \in [0 .. size - 1 -> S] /\ p[k] = m
      /\ \A j \in 0 .. size - 1 : j # k => p[j] = pool[j]
  BY <1>1 DEF Written
<1>3. /\ r \in Seq(S) /\ Len(r) = n + 1
      /\ \A i \in 1 .. n + 1 : r[i] = p[At(out, i, size)]
  <2>1. n + 1 \in 0 .. size
    OBVIOUS
  <2>2. Reads(r, S, p, out, n + 1, size)
    BY <1>2, <2>1, RingSeq
  <2> QED
    BY <2>2 DEF Reads
<1>4. /\ s \in Seq(S) /\ Len(s) = n
      /\ \A i \in 1 .. n : s[i] = pool[At(out, i, size)]
  <2>1. n \in 0 .. size
    OBVIOUS
  <2>2. Reads(s, S, pool, out, n, size)
    BY <2>1, RingSeq
  <2> QED
    BY <2>2 DEF Reads
<1> HIDE DEF r, s
<1>5. /\ Append(s, m) \in Seq(S) /\ Len(Append(s, m)) = n + 1
      /\ \A i \in 1 .. n : Append(s, m)[i] = s[i]
      /\ Append(s, m)[n + 1] = m
  BY <1>4
<1>6. ASSUME NEW i \in 1 .. n + 1 PROVE r[i] = Append(s, m)[i]
  <2>1. CASE i = n + 1
    <3>1. At(out, n + 1, size) = k
      BY <1>1 DEF At
    <3> QED
      BY <1>2, <1>3, <1>5, <2>1, <3>1
  <2>2. CASE i \in 1 .. n
    <3> DEFINE j == At(out, i, size)
    <3>1. j \in 0 .. size - 1 /\ j # k
      BY <1>1, <2>2 DEF At
    <3>2. r[i] = p[j] /\ s[i] = pool[j]
      BY <1>3, <1>4, <2>2
    <3> QED
      BY <1>2, <1>5, <2>2, <3>1, <3>2
  <2>3. i = n + 1 \/ i \in 1 .. n
    OBVIOUS
  <2> QED
    BY <2>1, <2>2, <2>3
<1>7. r = Append(s, m)
  BY <1>3, <1>5, <1>6, SameSeq
<1> QED
  BY <1>7 DEF r, s, Longer

\* Writing before the first element puts it in front.
LEMMA RingFront ==
  ASSUME NEW S, NEW size \in Nat, size > 0, NEW pool \in [0 .. size - 1 -> S],
         NEW out \in 0 .. size - 1, NEW n \in 0 .. size - 1, NEW m \in S,
         NEW k, k = IF out > 0 THEN out - 1 ELSE size - 1,
         NEW p, Written(p, pool, k, m)
  PROVE  Fronted(Ring(p, k, n + 1, size), Ring(pool, out, n, size), m)
<1> DEFINE r == Ring(p, k, n + 1, size)
           s == Ring(pool, out, n, size)
<1>1. k \in 0 .. size - 1
  OBVIOUS
<1>2. p \in [0 .. size - 1 -> S] /\ p[k] = m
      /\ \A j \in 0 .. size - 1 : j # k => p[j] = pool[j]
  BY <1>1 DEF Written
<1>3. /\ r \in Seq(S) /\ Len(r) = n + 1
      /\ \A i \in 1 .. n + 1 : r[i] = p[At(k, i, size)]
  <2>1. n + 1 \in 0 .. size
    OBVIOUS
  <2>2. Reads(r, S, p, k, n + 1, size)
    BY <1>1, <1>2, <2>1, RingSeq
  <2> QED
    BY <2>2 DEF Reads
<1>4. /\ s \in Seq(S) /\ Len(s) = n
      /\ \A i \in 1 .. n : s[i] = pool[At(out, i, size)]
  <2>1. n \in 0 .. size
    OBVIOUS
  <2>2. Reads(s, S, pool, out, n, size)
    BY <2>1, RingSeq
  <2> QED
    BY <2>2 DEF Reads
<1> HIDE DEF r, s
<1>5. /\ <<m>> \o s \in Seq(S) /\ Len(<<m>> \o s) = n + 1
      /\ (<<m>> \o s)[1] = m
      /\ \A i \in 2 .. n + 1 : (<<m>> \o s)[i] = s[i - 1]
  BY <1>4
<1>6. ASSUME NEW i \in 1 .. n + 1 PROVE r[i] = (<<m>> \o s)[i]
  <2>1. CASE i = 1
    <3>1. At(k, 1, size) = k
      BY <1>1 DEF At
    <3> QED
      BY <1>2, <1>3, <1>5, <2>1, <3>1
  <2>2. CASE i \in 2 .. n + 1
    <3> DEFINE j == At(k, i, size)
    <3>1. j \in 0 .. size - 1 /\ j # k
      BY <1>1, <2>2 DEF At
    <3>2. r[i] = p[j]
      BY <1>3, <2>2
    <3>3. i - 1 \in 1 .. n /\ j = At(out, i - 1, size)
      BY <1>1, <2>2 DEF At
    <3>4. s[i - 1] = pool[j]
      BY <1>4, <3>3
    <3> QED
      BY <1>2, <1>5, <2>2, <3>1, <3>2, <3>4
  <2>3. i = 1 \/ i \in 2 .. n + 1
    OBVIOUS
  <2> QED
    BY <2>1, <2>2, <2>3
<1>7. r = <<m>> \o s
  BY <1>3, <1>5, <1>6, SameSeq
<1> QED
  BY <1>7 DEF r, s, Fronted

\* Moving out on takes the first element off.
LEMMA RingTail ==
  ASSUME NEW S, NEW size \in Nat, size > 0, NEW pool \in [0 .. size - 1 -> S],
         NEW out \in 0 .. size - 1, NEW n \in 1 .. size,
         NEW k, k = IF out + 1 >= size THEN 0 ELSE out + 1
  PROVE  /\ Ring(pool, k, n - 1, size) = Tail(Ring(pool, out, n, size))
         /\ Head(Ring(pool, out, n, size)) = pool[out]
         /\ Ring(pool, out, n, size) # <<>>
<1> DEFINE r == Ring(pool, k, n - 1, size)
           s == Ring(pool, out, n, size)
<1>1. k \in 0 .. size - 1 /\ n - 1 \in 0 .. size /\ n \in 0 .. size
  OBVIOUS
<1>3. /\ r \in Seq(S) /\ Len(r) = n - 1
      /\ \A i \in 1 .. n - 1 : r[i] = pool[At(k, i, size)]
  <2>1. Reads(r, S, pool, k, n - 1, size)
    BY <1>1, RingSeq
  <2> QED
    BY <2>1 DEF Reads
<1>4. /\ s \in Seq(S) /\ Len(s) = n
      /\ \A i \in 1 .. n : s[i] = pool[At(out, i, size)]
  <2>1. Reads(s, S, pool, out, n, size)
    BY <1>1, RingSeq
  <2> QED
    BY <2>1 DEF Reads
<1> HIDE DEF r, s
<1>5. /\ Tail(s) \in Seq(S) /\ Len(Tail(s)) = n - 1
      /\ \A i \in 1 .. n - 1 : Tail(s)[i] = s[i + 1]
  BY <1>4
<1>6. ASSUME NEW i \in 1 .. n - 1 PROVE r[i] = Tail(s)[i]
  <2>1. i + 1 \in 1 .. n /\ At(k, i, size) = At(out, i + 1, size)
    BY <1>1 DEF At
  <2>2. s[i + 1] = pool[At(out, i + 1, size)]
    BY <1>4, <2>1
  <2> QED
    BY <1>3, <1>5, <2>1, <2>2
<1>7. r = Tail(s)
  BY <1>3, <1>5, <1>6, SameSeq
<1>8. s # <<>> /\ Head(s) = pool[out]
  <2>1. 1 \in 1 .. n /\ At(out, 1, size) = out
    BY <1>1 DEF At
  <2> QED
    BY <1>4, <2>1
<1> QED
  BY <1>7, <1>8 DEF r, s

-----------------------------------------------------------------------------
(***************************************************************************)
(* The invariants of the channels.                                         *)
(***************************************************************************)

Word == Msg \cup {NoArg}

\* A message in the hand of a receiver is about to be returned, and only one is.
RecvInv ==
  \A t \in Thread :
    /\ mail[t] # NoArg => pc[t] = "return" /\ data[t] = NoArg
    /\ data[t] # NoArg => pc[t] = "return"

\* A sender that waits, or copies, has its message.
Sends == {"mb_send", "dq_push", "mq_send", "mq_urgent"}
SendInv == \A t \in Thread : op[t] \in Sends => arg[t] \in Msg

\* The offsets of the mailbox are as far apart as it has messages.
MailboxInv ==
  /\ msg_pool \in [0 .. mb_size - 1 -> Word] /\ mail \in [Thread -> Word]
  /\ in_offset \in 0 .. mb_size - 1 /\ out_offset \in 0 .. mb_size - 1
  /\ entry \in 0 .. mb_size
  /\ in_offset = (out_offset + entry) % mb_size

\* The indices of the data queue meet if and only if it is empty or full.
DataInv ==
  /\ item \in [0 .. dq_size - 1 -> Word] /\ data \in [Thread -> Word]
  /\ get_index \in 0 .. dq_size - 1 /\ put_index \in 0 .. dq_size - 1
  /\ is_empty \in BOOLEAN /\ is_full \in BOOLEAN /\ ~(is_empty /\ is_full)
  /\ get_index = put_index <=> is_empty \/ is_full

ChannelInv == RecvInv /\ SendInv /\ MailboxInv /\ DataInv

-----------------------------------------------------------------------------
(***************************************************************************)
(* Mailboxes.                                                              *)
(***************************************************************************)

\* What a step does to the ring: a message goes in behind the others, ...
MbPut(m) ==
  /\ m \in Msg /\ entry # mb_size
  /\ msg_pool' = [msg_pool EXCEPT ![in_offset] = m]
  /\ in_offset' = IF in_offset + 1 >= mb_size THEN 0 ELSE in_offset + 1
  /\ entry' = entry + 1 /\ UNCHANGED <<out_offset, mail>>

\* ... or before them, ...
MbFront(m) ==
  /\ m \in Msg /\ entry # mb_size
  /\ out_offset' = IF out_offset > 0 THEN out_offset - 1 ELSE mb_size - 1
  /\ msg_pool' = [msg_pool EXCEPT ![out_offset'] = m]
  /\ entry' = entry + 1 /\ UNCHANGED <<in_offset, mail>>

\* ... or the first one comes out.
MbGet(t) ==
  /\ entry # 0 /\ pc'[t] = "return"
  /\ mail' = [mail EXCEPT ![t] = msg_pool[out_offset]]
  /\ out_offset' = IF out_offset + 1 >= mb_size THEN 0 ELSE out_offset + 1
  /\ entry' = entry - 1 /\ UNCHANGED <<msg_pool, in_offset>>

\* Every step of the mailbox does one of these, or empties the ring, or leaves it
\* alone, or returns with a message.
LEMMA MailboxMoves ==
  ASSUME CoreInv, SendInv, MailboxInv, NEW t \in Thread, MailboxStep(t)
  PROVE  \/ /\ pc[t] # "return"
            /\ \/ UNCHANGED mbVars
               \/ Emptied /\ UNCHANGED <<msg_pool, mail>>
               \/ \E m \in Msg : MbPut(m) \/ MbFront(m)
               \/ MbGet(t)
         \/ MbReturn(t)
<1>0. ThreadInv /\ "mb_sender" \in List
  BY ListOps DEF CoreInv
<1>1. ASSUME NEW m \in Msg, entry # mb_size, Put(t, m) PROVE MbPut(m)
  BY <1>1 DEF Put, MbPut
<1>2. ASSUME pc[t] # "wait", entry # 0, Get(t) PROVE MbGet(t)
  <2>1. t \notin First("mb_sender")
    BY <1>0, <1>2, FirstFacts
  <2>2. pc'[t] = "return"
    BY <1>0, <1>2, <2>1 DEF Get, Resume, ThreadInv, ThreadTypeOK
  <2> QED
    BY <1>2, <2>2 DEF Get, MbGet
<1>3. CASE rt_mb_init(t)
  BY <1>3 DEF rt_mb_init, Creating
<1>4. CASE MbRetry(t)
  <2>1. CASE t \in Retrying("mb_send") /\ entry < mb_size /\ Put(t, arg[t])
    <3>1. arg[t] \in Msg /\ pc[t] = "woken"
      BY <2>1 DEF Retrying, SendInv, Sends
    <3>2. entry # mb_size
      BY <2>1, MailboxAssumption DEF MailboxInv
    <3> QED
      BY <1>1, <2>1, <3>1, <3>2
  <2>2. CASE t \in Retrying("mb_recv") /\ entry > 0 /\ Get(t)
    BY <1>2, <2>2 DEF Retrying
  <2>3. CASE (t \in Retrying("mb_send") \/ t \in Retrying("mb_recv")) /\ UNCHANGED mbVars
    BY <2>3 DEF Retrying
  <2> QED
    BY <1>4, <2>1, <2>2, <2>3 DEF MbRetry
<1>5. CASE MbReset(t)
  BY <1>5 DEF MbReset, Calling
<1>6. ASSUME NEW n \in Timeouts, MbRecv(t, n)
      PROVE  pc[t] # "return" /\ (UNCHANGED mbVars \/ MbGet(t))
  BY <1>2, <1>6 DEF MbRecv, Calling
<1>7. ASSUME NEW n \in Timeouts, NEW m \in Msg, MbSend(t, m, n)
      PROVE  pc[t] # "return" /\ (UNCHANGED mbVars \/ MbPut(m))
  BY <1>1, <1>7 DEF MbSend, Calling
<1>8. ASSUME NEW m \in Msg, rt_mb_urgent(t, m)
      PROVE  pc[t] # "return" /\ MbFront(m)
  BY <1>8 DEF rt_mb_urgent, Calling, MbFront
<1> QED
  BY <1>3, <1>4, <1>5, <1>6, <1>7, <1>8 DEF MailboxStep

\* The offsets keep their distance.
LEMMA MailboxMoved ==
  ASSUME MailboxInv, NEW t \in Thread,
         \/ Emptied /\ UNCHANGED <<msg_pool, mail>>
         \/ \E m \in Msg : MbPut(m) \/ MbFront(m)
         \/ MbGet(t)
         \/ MbReturn(t)
         \/ UNCHANGED mbVars
  PROVE  MailboxInv'
<1>0. /\ mb_size \in Nat /\ mb_size > 0
      /\ msg_pool \in [0 .. mb_size - 1 -> Word] /\ mail \in [Thread -> Word]
      /\ in_offset \in 0 .. mb_size - 1 /\ out_offset \in 0 .. mb_size - 1
      /\ entry \in 0 .. mb_size /\ in_offset = (out_offset + entry) % mb_size
  BY MailboxAssumption DEF MailboxInv
<1>1. /\ out_offset + entry \in Int /\ 0 <= out_offset + entry
      /\ out_offset + entry < mb_size + mb_size
  BY <1>0
<1>2. in_offset = IF out_offset + entry < mb_size THEN out_offset + entry
                  ELSE out_offset + entry - mb_size
  BY <1>0, <1>1, Place
<1> DEFINE Gap(i, o, n) == /\ i \in 0 .. mb_size - 1 /\ o \in 0 .. mb_size - 1
                           /\ n \in 0 .. mb_size
                           /\ i = IF o + n < mb_size THEN o + n ELSE o + n - mb_size
<1>3. ASSUME NEW i, NEW o, NEW n, Gap(i, o, n) PROVE i = (o + n) % mb_size
  <2>1. o + n \in Int /\ 0 <= o + n /\ o + n < mb_size + mb_size
    BY <1>0, <1>3
  <2> QED
    BY <1>0, <1>3, <2>1, Place
<1>4. ASSUME msg_pool' \in [0 .. mb_size - 1 -> Word], mail' \in [Thread -> Word],
             Gap(in_offset', out_offset', entry')
      PROVE  MailboxInv'
  <2>1. in_offset' = (out_offset' + entry') % mb_size
    <3> HIDE DEF Gap
    <3> QED
      BY <1>3, <1>4
  <2> QED
    BY <1>4, <2>1 DEF MailboxInv
<1>5. Msg \subseteq Word /\ NoArg \in Word
  BY DEF Word
<1>6. CASE Emptied /\ UNCHANGED <<msg_pool, mail>>
  <2>1. Gap(in_offset', out_offset', entry')
    BY <1>0, <1>6 DEF Emptied
  <2> QED
    BY <1>0, <1>4, <1>6, <2>1
<1>7. ASSUME NEW m \in Msg, MbPut(m) PROVE MailboxInv'
  <2>1. Gap(in_offset', out_offset', entry')
    BY <1>0, <1>2, <1>7 DEF MbPut
  <2>2. msg_pool' \in [0 .. mb_size - 1 -> Word] /\ mail' \in [Thread -> Word]
    BY <1>0, <1>5, <1>7 DEF MbPut
  <2> QED
    BY <1>4, <2>1, <2>2
<1>8. ASSUME NEW m \in Msg, MbFront(m) PROVE MailboxInv'
  <2>1. Gap(in_offset', out_offset', entry')
    BY <1>0, <1>2, <1>8 DEF MbFront
  <2>2. msg_pool' \in [0 .. mb_size - 1 -> Word] /\ mail' \in [Thread -> Word]
    BY <1>0, <1>5, <1>8 DEF MbFront
  <2> QED
    BY <1>4, <2>1, <2>2
<1>9. CASE MbGet(t)
  <2>1. Gap(in_offset', out_offset', entry')
    BY <1>0, <1>2, <1>9 DEF MbGet
  <2>2. msg_pool' \in [0 .. mb_size - 1 -> Word] /\ mail' \in [Thread -> Word]
    BY <1>0, <1>5, <1>9 DEF MbGet
  <2> QED
    BY <1>4, <2>1, <2>2
<1>10. CASE MbReturn(t)
  BY <1>0, <1>5, <1>10 DEF MbReturn, MailboxInv
<1>11. CASE UNCHANGED mbVars
  BY <1>11 DEF mbVars, MailboxInv
<1> QED
  BY <1>6, <1>7, <1>8, <1>9, <1>10, <1>11

\* Every move of the ring is a step of the channel.
LEMMA MailboxRefines ==
  ASSUME MailboxInv, NEW t \in Thread,
         \/ UNCHANGED mbVars
         \/ Emptied /\ UNCHANGED <<msg_pool, mail>>
         \/ \E m \in Msg : MbPut(m) \/ MbFront(m)
         \/ MbGet(t) /\ mail[t] = NoArg
         \/ MbReturn(t)
  PROVE  [MbChannel!Next]_(MbChannel!cvars)
<1>0. /\ mb_size \in Nat /\ mb_size > 0
      /\ msg_pool \in [0 .. mb_size - 1 -> Word] /\ mail \in [Thread -> Word]
      /\ in_offset \in 0 .. mb_size - 1 /\ out_offset \in 0 .. mb_size - 1
      /\ entry \in 0 .. mb_size /\ in_offset = (out_offset + entry) % mb_size
  BY MailboxAssumption DEF MailboxInv
<1>a. Msg \subseteq Word /\ NoArg \in Word
  BY DEF Word
<1> DEFINE Q == Ring(msg_pool, out_offset, entry, mb_size)
           R == Ring(msg_pool', out_offset', entry', mb_size)
<1>q. /\ Q = [i \in 1 .. entry |-> msg_pool[(out_offset + i - 1) % mb_size]]
      /\ R = [i \in 1 .. entry' |-> msg_pool'[(out_offset' + i - 1) % mb_size]]
  BY DEF Ring
<1>l. Len(Q) = entry
  <2>1. Reads(Q, Word, msg_pool, out_offset, entry, mb_size)
    BY <1>0, RingSeq
  <2> QED
    BY <2>1 DEF Reads
<1>1. CASE UNCHANGED mbVars
  BY <1>1, <1>q DEF mbVars, MbChannel!cvars
<1>2. CASE Emptied /\ UNCHANGED <<msg_pool, mail>>
  <2>1. R = <<>>
    <3>1. entry' = 0 /\ 1 .. 0 = {}
      BY <1>2 DEF Emptied
    <3> QED
      BY <1>q, <3>1
  <2>2. MbChannel!Reset
    BY <1>2, <1>q, <2>1 DEF MbChannel!Reset
  <2> QED
    BY <2>2 DEF MbChannel!Next
<1>3. ASSUME NEW m \in Msg, MbPut(m) PROVE MbChannel!Next
  <2>1. R = Append(Q, m)
    <3>1. /\ entry \in 0 .. mb_size - 1 /\ m \in Word /\ entry' = entry + 1
          /\ out_offset' = out_offset
          /\ Written(msg_pool', msg_pool, in_offset, m)
      BY <1>0, <1>a, <1>3 DEF MbPut, Written
    <3>2. Longer(Ring(msg_pool', out_offset, entry + 1, mb_size),
                 Ring(msg_pool, out_offset, entry, mb_size), m)
      BY <1>0, <3>1, RingAppend
    <3> QED
      BY <3>1, <3>2 DEF Longer
  <2>2. entry < mb_size /\ mail' = mail
    BY <1>0, <1>3 DEF MbPut
  <2> HIDE DEF Q, R
  <2>3. MbChannel!Send(m)
    BY <1>q, <1>l, <2>1, <2>2 DEF MbChannel!Send
  <2> QED
    BY <2>3 DEF MbChannel!Next
<1>4. ASSUME NEW m \in Msg, MbFront(m) PROVE MbChannel!Next
  <2>1. R = <<m>> \o Q
    <3>0. PICK k : k = IF out_offset > 0 THEN out_offset - 1 ELSE mb_size - 1
      OBVIOUS
    <3>1. /\ entry \in 0 .. mb_size - 1 /\ m \in Word /\ entry' = entry + 1
          /\ out_offset' = k /\ Written(msg_pool', msg_pool, k, m)
      BY <1>0, <1>a, <1>4, <3>0 DEF MbFront, Written
    <3>2. Fronted(Ring(msg_pool', k, entry + 1, mb_size),
                  Ring(msg_pool, out_offset, entry, mb_size), m)
      BY <1>0, <3>0, <3>1, RingFront
    <3> QED
      BY <3>1, <3>2 DEF Fronted
  <2>2. entry < mb_size /\ mail' = mail
    BY <1>0, <1>4 DEF MbFront
  <2> HIDE DEF Q, R
  <2>3. MbChannel!Urgent(m)
    BY <1>q, <1>l, <2>1, <2>2 DEF MbChannel!Urgent
  <2> QED
    BY <2>3 DEF MbChannel!Next
<1>5. ASSUME MbGet(t), mail[t] = NoArg PROVE MbChannel!Next
  <2>1. R = Tail(Q) /\ Head(Q) = msg_pool[out_offset] /\ Q # <<>>
    <3> DEFINE k == IF out_offset + 1 >= mb_size THEN 0 ELSE out_offset + 1
    <3>1. /\ entry \in 1 .. mb_size /\ entry' = entry - 1
          /\ out_offset' = k /\ msg_pool' = msg_pool
      BY <1>0, <1>5 DEF MbGet
    <3>2. /\ Ring(msg_pool, k, entry - 1, mb_size) = Tail(Q)
          /\ Head(Q) = msg_pool[out_offset] /\ Q # <<>>
      BY <1>0, <3>1, RingTail
    <3> QED
      BY <3>1, <3>2
  <2>2. MbChannel!Receive(t)
    BY <1>5, <1>q, <2>1 DEF MbGet, MbChannel!Receive
  <2> QED
    BY <2>2 DEF MbChannel!Next
<1>6. CASE MbReturn(t)
  <2>1. R = Q /\ mail[t] # NoArg /\ mail' = [mail EXCEPT ![t] = NoArg]
    BY <1>6 DEF MbReturn
  <2>2. MbChannel!Return(t)
    BY <1>q, <2>1 DEF MbChannel!Return
  <2> QED
    BY <2>2 DEF MbChannel!Next
<1> QED
  BY <1>1, <1>2, <1>3, <1>4, <1>5, <1>6

-----------------------------------------------------------------------------
(***************************************************************************)
(* Data queues.                                                            *)
(***************************************************************************)

\* What a step does to the ring: an item goes in behind the others, ...
DqPut(m) ==
  /\ m \in Msg /\ ~is_full
  /\ item' = [item EXCEPT ![put_index] = m]
  /\ put_index' = Following(put_index)
  /\ is_empty' \in BOOLEAN /\ ~is_empty'
  /\ is_full' \in BOOLEAN /\ (is_full' <=> is_full \/ put_index' = get_index)
  /\ UNCHANGED <<get_index, data>>

\* ... or the first one comes out.
DqGet(t) ==
  /\ ~is_empty /\ pc'[t] = "return"
  /\ data' = [data EXCEPT ![t] = item[get_index]]
  /\ get_index' = Following(get_index)
  /\ is_full' \in BOOLEAN /\ ~is_full'
  /\ is_empty' \in BOOLEAN /\ (is_empty' <=> is_empty \/ put_index = get_index')
  /\ UNCHANGED <<put_index, item>>

\* Every step of the data queue does one of these, or empties the ring, or leaves
\* it alone, or returns with an item.
LEMMA DataQueueMoves ==
  ASSUME CoreInv, SendInv, NEW t \in Thread, DataQueueStep(t)
  PROVE  \/ /\ pc[t] # "return"
            /\ \/ UNCHANGED dqVars
               \/ Drained /\ UNCHANGED <<item, data>>
               \/ \E m \in Msg : DqPut(m)
               \/ DqGet(t)
         \/ DqReturn(t)
<1>0. ThreadInv /\ "dq_push" \in List
  BY ListOps DEF CoreInv
<1>1. ASSUME NEW m \in Msg, ~is_full, Push(t, m) PROVE DqPut(m)
  BY <1>1 DEF Push, DqPut
<1>2. ASSUME pc[t] # "wait", ~is_empty, Pop(t) PROVE DqGet(t)
  <2> DEFINE S == IF rt_data_queue_len' <= lwm THEN First("dq_push") ELSE {}
  <2>1. t \notin S
    BY <1>0, <1>2, FirstFacts
  <2>2. pc' = [u \in Thread |-> IF u \in S THEN "woken" ELSE [pc EXCEPT ![t] = "return"][u]]
    BY <1>2 DEF Pop, Resume
  <2> HIDE DEF S
  <2>3. pc'[t] = "return"
    BY <1>0, <2>1, <2>2 DEF ThreadInv, ThreadTypeOK
  <2> QED
    BY <1>2, <2>3 DEF Pop, DqGet
<1>3. CASE rt_data_queue_init(t)
  BY <1>3 DEF rt_data_queue_init, Creating
<1>4. CASE DqRetry(t)
  <2>1. CASE t \in Retrying("dq_push") /\ ~is_full /\ Push(t, arg[t])
    <3>1. arg[t] \in Msg /\ pc[t] = "woken"
      BY <2>1 DEF Retrying, SendInv, Sends
    <3> QED
      BY <1>1, <2>1, <3>1
  <2>2. CASE t \in Retrying("dq_pop") /\ ~is_empty /\ Pop(t)
    BY <1>2, <2>2 DEF Retrying
  <2>3. CASE (t \in Retrying("dq_push") \/ t \in Retrying("dq_pop")) /\ UNCHANGED dqVars
    BY <2>3 DEF Retrying
  <2> QED
    BY <1>4, <2>1, <2>2, <2>3 DEF DqRetry
<1>5. CASE DqReset(t)
  BY <1>5 DEF DqReset, Calling
<1>6. CASE DqResetLock(t) \/ DqResetEnd(t)
  BY <1>6 DEF DqResetLock, DqResetEnd
<1>7. ASSUME NEW n \in Timeouts, DqPop(t, n)
      PROVE  pc[t] # "return" /\ (UNCHANGED dqVars \/ DqGet(t))
  BY <1>2, <1>7 DEF DqPop, Calling
<1>8. ASSUME NEW n \in Timeouts, NEW m \in Msg, DqPush(t, m, n)
      PROVE  pc[t] # "return" /\ (UNCHANGED dqVars \/ DqPut(m))
  BY <1>1, <1>8 DEF DqPush, Calling
<1> QED
  BY <1>3, <1>4, <1>5, <1>6, <1>7, <1>8 DEF DataQueueStep

\* The number of items, from the indices.
LenOf(get, put, empty) ==
  IF empty THEN 0 ELSE IF put > get THEN put - get ELSE dq_size + put - get

\* The indices keep their distance, and the flags tell what it is.
Far(get, put, empty, full) ==
  /\ get \in 0 .. dq_size - 1 /\ put \in 0 .. dq_size - 1
  /\ empty \in BOOLEAN /\ full \in BOOLEAN
  /\ ~(empty /\ full) /\ (get = put <=> empty \/ full)

\* So rt_data_queue_len counts the items between the indices.
LEMMA LenFacts ==
  ASSUME NEW get, NEW put, NEW empty, NEW full, Far(get, put, empty, full)
  PROVE  /\ LenOf(get, put, empty) \in 0 .. dq_size
         /\ empty <=> LenOf(get, put, empty) = 0
         /\ full <=> LenOf(get, put, empty) = dq_size
         /\ put = IF get + LenOf(get, put, empty) < dq_size
                  THEN get + LenOf(get, put, empty)
                  ELSE get + LenOf(get, put, empty) - dq_size
  BY DataQueueAssumption DEF Far, LenOf

\* A push makes it one more.
LEMMA LenPut ==
  ASSUME NEW get, NEW put, NEW empty, NEW full, Far(get, put, empty, full), ~full,
         NEW put1, put1 = Following(put), NEW empty1 \in BOOLEAN, ~empty1,
         NEW full1 \in BOOLEAN, full1 <=> full \/ put1 = get
  PROVE  /\ Far(get, put1, empty1, full1)
         /\ LenOf(get, put1, empty1) = LenOf(get, put, empty) + 1
  BY DataQueueAssumption DEF Far, LenOf, Following

\* A pop makes it one less.
LEMMA LenGet ==
  ASSUME NEW get, NEW put, NEW empty, NEW full, Far(get, put, empty, full), ~empty,
         NEW get1, get1 = Following(get), NEW full1 \in BOOLEAN, ~full1,
         NEW empty1 \in BOOLEAN, empty1 <=> empty \/ put = get1
  PROVE  /\ Far(get1, put, empty1, full1)
         /\ LenOf(get1, put, empty1) = LenOf(get, put, empty) - 1
  BY DataQueueAssumption DEF Far, LenOf, Following

\* The flags stay right.
LEMMA DataQueueMoved ==
  ASSUME DataInv, NEW t \in Thread,
         \/ UNCHANGED dqVars
         \/ Drained /\ UNCHANGED <<item, data>>
         \/ \E m \in Msg : DqPut(m)
         \/ DqGet(t)
         \/ DqReturn(t)
  PROVE  DataInv'
<1>0. /\ item \in [0 .. dq_size - 1 -> Word] /\ data \in [Thread -> Word]
      /\ Far(get_index, put_index, is_empty, is_full)
  BY DEF DataInv, Far
<1>a. Msg \subseteq Word /\ NoArg \in Word
  BY DEF Word
<1>b. get_index \in 0 .. dq_size - 1 /\ put_index \in 0 .. dq_size - 1
  BY DEF DataInv
<1>1. ASSUME item' \in [0 .. dq_size - 1 -> Word], data' \in [Thread -> Word],
             Far(get_index', put_index', is_empty', is_full')
      PROVE  DataInv'
  BY <1>1 DEF DataInv, Far
<1>2. CASE UNCHANGED dqVars
  BY <1>2 DEF dqVars, DataInv
<1>3. CASE Drained /\ UNCHANGED <<item, data>>
  <2>1. Far(0, 0, TRUE, FALSE)
    BY DataQueueAssumption DEF Far
  <2>2. Far(get_index', put_index', is_empty', is_full')
    BY <1>3, <2>1, Zenon DEF Drained
  <2> QED
    BY <1>0, <1>1, <1>3, <2>2
<1>4. ASSUME NEW m \in Msg, DqPut(m) PROVE DataInv'
  <2>1. Far(get_index, put_index', is_empty', is_full')
    BY <1>0, <1>4, LenPut DEF DqPut
  <2>2. get_index' = get_index
    BY <1>4 DEF DqPut
  <2>3. item' \in [0 .. dq_size - 1 -> Word] /\ data' \in [Thread -> Word]
    BY <1>0, <1>a, <1>4 DEF DqPut
  <2> QED
    BY <1>1, <2>1, <2>2, <2>3
<1>5. CASE DqGet(t)
  <2>1. Far(get_index', put_index, is_empty', is_full')
    BY <1>0, <1>5, LenGet DEF DqGet
  <2>2. put_index' = put_index
    BY <1>5 DEF DqGet
  <2>3. item' \in [0 .. dq_size - 1 -> Word] /\ data' \in [Thread -> Word]
    BY <1>0, <1>b, <1>5 DEF DqGet
  <2> QED
    BY <1>1, <2>1, <2>2, <2>3
<1>6. CASE DqReturn(t)
  <2>1. data' \in [Thread -> Word]
    BY <1>0, <1>a, <1>6 DEF DqReturn
  <2>2. UNCHANGED <<get_index, put_index, is_empty, is_full, item>>
    BY <1>6 DEF DqReturn
  <2> QED
    BY <1>0, <1>1, <2>1, <2>2
<1> QED
  BY <1>2, <1>3, <1>4, <1>5, <1>6

\* Every move of the ring is a step of the channel.
LEMMA DataQueueRefines ==
  ASSUME DataInv, NEW t \in Thread,
         \/ UNCHANGED dqVars
         \/ Drained /\ UNCHANGED <<item, data>>
         \/ \E m \in Msg : DqPut(m)
         \/ DqGet(t) /\ data[t] = NoArg
         \/ DqReturn(t)
  PROVE  [DqChannel!Next]_(DqChannel!cvars)
<1> DEFINE n == LenOf(get_index, put_index, is_empty)
           k == LenOf(get_index', put_index', is_empty')
           Q == Ring(item, get_index, n, dq_size)
           R == Ring(item', get_index', k, dq_size)
<1>n. n = rt_data_queue_len /\ k = rt_data_queue_len'
  BY DEF LenOf, rt_data_queue_len
<1>f. Far(get_index, put_index, is_empty, is_full)
  BY DEF DataInv, Far
<1>0. /\ dq_size \in Nat /\ dq_size > 0
      /\ item \in [0 .. dq_size - 1 -> Word] /\ data \in [Thread -> Word]
      /\ get_index \in 0 .. dq_size - 1 /\ put_index \in 0 .. dq_size - 1
  BY DataQueueAssumption DEF DataInv
<1>1. /\ n \in 0 .. dq_size /\ (is_empty <=> n = 0) /\ (is_full <=> n = dq_size)
      /\ put_index = IF get_index + n < dq_size THEN get_index + n
                     ELSE get_index + n - dq_size
  BY <1>f, LenFacts
<1>2. put_index = (get_index + n) % dq_size
  <2> HIDE DEF n
  <2>1. get_index + n \in Int /\ 0 <= get_index + n /\ get_index + n < dq_size + dq_size
    BY <1>0, <1>1
  <2> QED
    BY <1>0, <1>1, <2>1, Place
<1>a. Msg \subseteq Word /\ NoArg \in Word
  BY DEF Word
<1>q. /\ Q = [i \in 1 .. rt_data_queue_len |-> item[(get_index + i - 1) % dq_size]]
      /\ R = [i \in 1 .. rt_data_queue_len' |-> item'[(get_index' + i - 1) % dq_size]]
  <2> HIDE DEF n, k
  <2> QED
    BY <1>n DEF Ring
<1>l. Len(Q) = n
  <2> HIDE DEF n
  <2>1. Reads(Q, Word, item, get_index, n, dq_size)
    BY <1>0, <1>1, RingSeq
  <2> QED
    BY <2>1 DEF Reads
<1>3. CASE UNCHANGED dqVars
  BY <1>3 DEF dqVars, DqChannel!cvars, rt_data_queue_len
<1>4. CASE Drained /\ UNCHANGED <<item, data>>
  <2>1. R = <<>>
    <3>1. k = 0 /\ 1 .. 0 = {}
      BY <1>4 DEF Drained, LenOf
    <3> HIDE DEF k
    <3> QED
      BY <3>1 DEF Ring
  <2> HIDE DEF R
  <2>2. DqChannel!Reset
    BY <1>4, <1>q, <2>1 DEF DqChannel!Reset
  <2> QED
    BY <2>2 DEF DqChannel!Next
<1>5. ASSUME NEW m \in Msg, DqPut(m) PROVE DqChannel!Next
  <2>1. k = n + 1
    BY <1>f, <1>5, LenPut DEF DqPut
  <2> HIDE DEF n, k
  <2>2. R = Append(Q, m)
    <3>1. /\ n \in 0 .. dq_size - 1 /\ m \in Word /\ get_index' = get_index
          /\ Written(item', item, put_index, m)
      BY <1>0, <1>1, <1>a, <1>5 DEF DqPut, Written
    <3>2. Longer(Ring(item', get_index, n + 1, dq_size),
                 Ring(item, get_index, n, dq_size), m)
      BY <1>0, <1>2, <3>1, RingAppend
    <3> QED
      BY <2>1, <3>1, <3>2 DEF Longer
  <2>3. n < dq_size /\ data' = data
    BY <1>0, <1>1, <1>5 DEF DqPut
  <2> HIDE DEF Q, R
  <2>4. DqChannel!Send(m)
    BY <1>q, <1>l, <2>2, <2>3 DEF DqChannel!Send
  <2> QED
    BY <2>4 DEF DqChannel!Next
<1>6. ASSUME DqGet(t), data[t] = NoArg PROVE DqChannel!Next
  <2>1. k = n - 1
    BY <1>f, <1>6, LenGet DEF DqGet
  <2> HIDE DEF n, k
  <2>2. R = Tail(Q) /\ Head(Q) = item[get_index] /\ Q # <<>>
    <3> DEFINE j == IF get_index + 1 >= dq_size THEN 0 ELSE get_index + 1
    <3>1. /\ n \in 1 .. dq_size /\ get_index' = j /\ item' = item
      BY <1>0, <1>1, <1>6 DEF DqGet, Following
    <3>2. /\ Ring(item, j, n - 1, dq_size) = Tail(Q)
          /\ Head(Q) = item[get_index] /\ Q # <<>>
      BY <1>0, <3>1, RingTail
    <3> QED
      BY <2>1, <3>1, <3>2
  <2>3. data' = [data EXCEPT ![t] = item[get_index]]
    BY <1>6 DEF DqGet
  <2> HIDE DEF Q, R
  <2>4. DqChannel!Receive(t)
    BY <1>6, <1>q, <2>2, <2>3 DEF DqChannel!Receive
  <2> QED
    BY <2>4 DEF DqChannel!Next
<1>7. CASE DqReturn(t)
  <2>1. /\ data[t] # NoArg /\ data' = [data EXCEPT ![t] = NoArg]
        /\ UNCHANGED <<get_index, put_index, is_empty, item>>
    BY <1>7 DEF DqReturn
  <2>2. DqChannel!Return(t)
    BY <2>1 DEF DqChannel!Return, rt_data_queue_len
  <2> QED
    BY <2>2 DEF DqChannel!Next
<1> QED
  BY <1>3, <1>4, <1>5, <1>6, <1>7

-----------------------------------------------------------------------------
(***************************************************************************)
(* The invariants hold of every execution.                                 *)
(***************************************************************************)

\* Only a mailbox or a data queue returns with something in its hand.
LEMMA NotReturning ==
  ASSUME NEW t \in Thread, pc[t] = "return",
         \/ ThreadStep(t) \/ SemStep(t) \/ EventStep(t) \/ MqStep(t) \/ MemPoolStep(t)
         \/ CompletionStep(t) \/ WaitQueueStep(t)
  PROVE  FALSE
<1>1. CASE ThreadStep(t)
  BY <1>1 DEF ThreadStep, WaitFailed, DetachStart, Calling, ResumeAllTest, ResumeAllNext,
              DetachEnd
<1>2. CASE SemStep(t)
  BY <1>2 DEF SemStep, rt_sem_init, Creating, TakeNow, TakeWait, Calling, TakeReturn,
              rt_sem_release, SemReset
<1>3. CASE EventStep(t)
  BY <1>3 DEF EventStep, rt_event_init, Creating, RecvNow, RecvWait, Calling, RecvReturn,
              rt_event_send, EventReset
<1>4. CASE MqStep(t)
  BY <1>4 DEF MqStep, rt_mq_init, Creating, MqRetry, Retrying, MqReset, Calling, SendCopy,
              SendLink, UrgentLink, RecvCopy, RecvFree, MqRecv, MqSend, MqUrgent
<1>5. CASE MemPoolStep(t)
  BY <1>5 DEF MemPoolStep, rt_mp_init, Creating, MpTimeLeft, Retrying, MpAgain, MpAlloc,
              Calling, rt_mp_free
<1>6. CASE CompletionStep(t)
  BY <1>6 DEF CompletionStep, rt_completion_init, Creating, CompletionTake, CompletionWait,
              Calling, CompletionReturn, DoneTest, DoneAct
<1>7. CASE WaitQueueStep(t)
  BY <1>7 DEF WaitQueueStep, rt_wqueue_init, Creating, WqueuePass, WqueueWait, Calling,
              WqueueWoken, WqueueReturn, rt_wqueue_wakeup
<1> QED
  BY <1>1, <1>2, <1>3, <1>4, <1>5, <1>6, <1>7

\* Who waits to send has its message.
LEMMA SendOwn ==
  ASSUME CoreInv, SendInv, NEW t \in Thread, OwnStep(t)
  PROVE  SendInv'
<1>0. ThreadInv /\ EventType /\ NodesInv /\ DOMAIN arg = Thread
  BY DEF CoreInv, ArgInv
<1>1. LocalsKept(t)
  BY OwnKind, DetachEndKind DEF CoreInv, Steps
<1>2. \A u \in Thread \ {t} : op'[u] = op[u] /\ arg'[u] = arg[u]
  BY <1>0, <1>1, OwnOthers DEF LocalsKept
<1> SUFFICES op'[t] \in Sends => arg'[t] \in Msg
  BY <1>2 DEF SendInv
<1>3. ASSUME NEW P, Steps(t, P), P \cap Sends = {} PROVE op'[t] \notin Sends
  <2>1. op'[t] \in P
    BY <1>0, <1>3, StepsFacts
  <2> QED
    BY <1>3, <2>1
<1>4. ASSUME UNCHANGED <<op, arg>> PROVE op'[t] \in Sends => arg'[t] \in Msg
  BY <1>4 DEF SendInv
<1>5. ASSUME NEW o \in Op, op' = [op EXCEPT ![t] = o] PROVE op'[t] = o
  BY <1>0, <1>5 DEF ThreadInv, ThreadTypeOK
<1>6. ASSUME Returned(t) PROVE op'[t] = "none"
  BY <1>5, <1>6 DEF Returned, Op
<1>7. ASSUME NEW o \in Op, NEW a, NEW l, NEW n, Wait(t, o, a, l, n)
      PROVE  op'[t] = o /\ arg'[t] = a
  <2>1. op' = [op EXCEPT ![t] = o] /\ arg' = [arg EXCEPT ![t] = a]
    BY <1>7 DEF Wait
  <2> QED
    BY <1>0, <1>5, <2>1
<1>8. CASE ThreadStep(t)
  <2>1. CASE WaitFailed(t) \/ DetachEnd(t)
    BY <1>6, <2>1 DEF WaitFailed, DetachEnd, Sends
  <2>2. ASSUME NEW o \in Detachable, DetachStart(t, o) PROVE op'[t] = "detach"
    BY <1>5, <2>2 DEF DetachStart, Op
  <2>3. CASE ResumeAllTest(t) \/ ResumeAllNext(t)
    BY <1>4, <2>3 DEF ResumeAllTest, ResumeAllNext
  <2> QED
    BY <1>8, <2>1, <2>2, <2>3 DEF ThreadStep, Sends
<1>9. CASE \/ SemStep(t) \/ EventStep(t) \/ MemPoolStep(t)
           \/ CompletionStep(t) \/ WaitQueueStep(t)
  <2>1. \E P \in {SemOps, EventOps, MemPoolOps, CompletionOps, WaitQueueOps} :
          Steps(t, P)
    BY <1>0, <1>9, SemKind, EventKind, MemPoolKind, CompletionKind, WaitQueueKind
  <2>2. \A P \in {SemOps, EventOps, MemPoolOps, CompletionOps, WaitQueueOps} :
          P \cap Sends = {}
    BY DEF SemOps, EventOps, MemPoolOps, CompletionOps, WaitQueueOps, Sends
  <2> QED
    BY <1>3, <2>1, <2>2
<1>10. CASE MailboxStep(t)
  <2>1. CASE rt_mb_init(t) \/ MbReturn(t) \/ MbReset(t)
    BY <1>4, <2>1 DEF rt_mb_init, threadVars, MbReturn, MbReset
  <2>2. CASE \/ \E m : Put(t, m)
             \/ Get(t)
    BY <1>6, <2>2 DEF Put, Get, Sends
  <2>3. CASE WaitAgain(t)
    BY <1>4, <1>6, <2>3 DEF WaitAgain, Sends
  <2>4. ASSUME NEW n, NEW m \in Msg, TimedWait(t, "mb_send", m, n)
        PROVE  arg'[t] \in Msg
    BY <1>7, <2>4 DEF TimedWait, Op
  <2>5. ASSUME NEW n, TimedWait(t, "mb_recv", NoArg, n) PROVE op'[t] = "mb_recv"
    BY <1>7, <2>5 DEF TimedWait, Op
  <2>6. ASSUME NEW m \in Msg, rt_mb_urgent(t, m) PROVE UNCHANGED <<op, arg>>
    BY <2>6 DEF rt_mb_urgent
  <2> QED
    BY <1>4, <1>10, <2>1, <2>2, <2>3, <2>4, <2>5, <2>6
       DEF MailboxStep, MbRetry, MbRecv, MbSend, Sends
<1>11. CASE DataQueueStep(t)
  <2>1. CASE rt_data_queue_init(t) \/ DqReturn(t) \/ DqResetLock(t)
    BY <1>4, <2>1 DEF rt_data_queue_init, threadVars, DqReturn, DqResetLock
  <2>2. CASE \/ \E m : Push(t, m)
             \/ Pop(t)
             \/ DqResetEnd(t)
    BY <1>6, <2>2 DEF Push, Pop, DqResetEnd, Sends
  <2>3. CASE DqReset(t)
    BY <1>5, <2>3 DEF DqReset, Op, Sends
  <2>4. ASSUME NEW n, NEW m \in Msg, Wait(t, "dq_push", m, "dq_push", n)
        PROVE  arg'[t] \in Msg
    BY <1>7, <2>4 DEF Op
  <2>5. ASSUME NEW n, Wait(t, "dq_pop", NoArg, "dq_pop", n) PROVE op'[t] = "dq_pop"
    BY <1>7, <2>5 DEF Op
  <2> QED
    BY <1>4, <1>11, <2>1, <2>2, <2>3, <2>4, <2>5
       DEF DataQueueStep, DqRetry, DqPop, DqPush, Sends
<1>12. CASE MqStep(t)
  <2>1. CASE rt_mq_init(t) \/ SendCopy(t) \/ RecvCopy(t) \/ MqReset(t)
    BY <1>4, <2>1 DEF rt_mq_init, threadVars, SendCopy, RecvCopy, MqReset
  <2>2. CASE SendLink(t) \/ UrgentLink(t) \/ RecvFree(t)
    BY <1>6, <2>2 DEF SendLink, UrgentLink, Linked, RecvFree, Sends
  <2>3. CASE WaitAgain(t)
    BY <1>4, <1>6, <2>3 DEF WaitAgain, Sends
  <2>4. ASSUME NEW n, NEW m \in Msg, TimedWait(t, "mq_send", m, n)
        PROVE  arg'[t] \in Msg
    BY <1>7, <2>4 DEF TimedWait, Op
  <2>5. ASSUME NEW n, TimedWait(t, "mq_recv", NoArg, n) PROVE op'[t] \notin Sends
    BY <1>7, <2>5 DEF TimedWait, Op, Sends
  <2>6. ASSUME NEW o, NEW m \in Msg, TakeNode(t, o, m) PROVE arg'[t] \in Msg
    BY <1>0, <2>6 DEF TakeNode
  <2>7. CASE TakeMessage(t)
    BY <1>5, <2>7 DEF TakeMessage, Op, Sends
  <2>8. CASE MqRetry(t)
    <3>1. CASE t \in Retrying("mq_send") /\ TakeNode(t, "mq_send", arg[t])
      BY <2>6, <3>1 DEF Retrying, SendInv, Sends
    <3> QED
      BY <2>3, <2>7, <2>8, <3>1 DEF MqRetry
  <2>9. ASSUME NEW n \in Timeouts, MqRecv(t, n) PROVE op'[t] \in Sends => arg'[t] \in Msg
    BY <2>5, <2>7, <2>9 DEF MqRecv
  <2>10. ASSUME NEW n \in Timeouts, NEW m \in Msg, MqSend(t, m, n) PROVE arg'[t] \in Msg
    BY <2>4, <2>6, <2>10 DEF MqSend
  <2>11. ASSUME NEW m \in Msg, MqUrgent(t, m) PROVE arg'[t] \in Msg
    BY <2>6, <2>11 DEF MqUrgent
  <2> QED
    BY <1>12, <2>1, <2>2, <2>8, <2>9, <2>10, <2>11 DEF MqStep
<1> QED
  BY <1>8, <1>9, <1>10, <1>11, <1>12 DEF OwnStep

\* Every step keeps the invariants of the channels, and is a step of each channel
\* or leaves it alone.
LEMMA ChannelNext ==
  ASSUME CoreInv, ChannelInv, [Next]_vars
  PROVE  /\ ChannelInv'
         /\ [MbChannel!Next]_(MbChannel!cvars)
         /\ [DqChannel!Next]_(DqChannel!cvars)
<1> DEFINE Goal == /\ ChannelInv'
                   /\ [MbChannel!Next]_(MbChannel!cvars)
                   /\ [DqChannel!Next]_(DqChannel!cvars)
<1> SUFFICES Goal
  OBVIOUS
<1>0. /\ ThreadInv /\ RecvInv /\ SendInv /\ MailboxInv /\ DataInv
      /\ mail \in [Thread -> Word] /\ data \in [Thread -> Word]
  BY DEF CoreInv, ChannelInv, MailboxInv, DataInv
<1>1. ASSUME NEW t \in Thread, UNCHANGED mbVars
      PROVE  MailboxInv' /\ [MbChannel!Next]_(MbChannel!cvars)
  BY <1>0, <1>1, MailboxMoved, MailboxRefines
<1>2. ASSUME NEW t \in Thread, UNCHANGED dqVars
      PROVE  DataInv' /\ [DqChannel!Next]_(DqChannel!cvars)
  BY <1>0, <1>2, DataQueueMoved, DataQueueRefines
<1>3. ASSUME UNCHANGED <<mbVars, dqVars>>, SendInv',
             \A u \in Thread : pc[u] = "return" => pc'[u] = "return"
      PROVE  Goal
  <2>1. RecvInv'
    BY <1>0, <1>3 DEF RecvInv, mbVars, dqVars
  <2>2. MailboxInv' /\ DataInv'
    BY <1>0, <1>3 DEF MailboxInv, DataInv, mbVars, dqVars
  <2>3. UNCHANGED MbChannel!cvars /\ UNCHANGED DqChannel!cvars
    BY <1>3 DEF MbChannel!cvars, DqChannel!cvars, mbVars, dqVars, rt_data_queue_len
  <2> QED
    BY <1>3, <2>1, <2>2, <2>3 DEF ChannelInv
<1>4. ASSUME NEW t \in Thread, OwnStep(t) PROVE Goal
  <2>1. SendInv'
    BY <1>0, <1>4, SendOwn
  <2>2. \A u \in Thread \ {t} : pc[u] = "return" => pc'[u] = "return"
    BY <1>4, OwnOthers
  <2>3. pc[t] # "return" => mail[t] = NoArg /\ data[t] = NoArg
    BY <1>0 DEF RecvInv
  <2>4. ASSUME \A u \in Thread \ {t} : mail'[u] = mail[u] /\ data'[u] = data[u],
               mail'[t] # NoArg => pc'[t] = "return" /\ data'[t] = NoArg,
               data'[t] # NoArg => pc'[t] = "return"
        PROVE  RecvInv'
    BY <1>0, <2>2, <2>4 DEF RecvInv
  <2>5. CASE MailboxStep(t) /\ UNCHANGED dqVars
    <3>1. \/ /\ pc[t] # "return"
             /\ \/ UNCHANGED mbVars
                \/ Emptied /\ UNCHANGED <<msg_pool, mail>>
                \/ \E m \in Msg : MbPut(m) \/ MbFront(m)
                \/ MbGet(t)
          \/ MbReturn(t)
      BY <1>0, <2>5, MailboxMoves
    <3>2. MailboxInv'
      BY <1>0, <3>1, MailboxMoved
    <3>3. [MbChannel!Next]_(MbChannel!cvars)
      BY <1>0, <2>3, <3>1, MailboxRefines
    <3>4. data' = data
      BY <2>5 DEF dqVars
    <3>5. RecvInv'
      <4>1. CASE pc[t] # "return" /\ mail' = mail
        BY <2>3, <2>4, <3>4, <4>1
      <4>2. CASE pc[t] # "return" /\ MbGet(t)
        BY <1>0, <2>3, <2>4, <3>4, <4>2 DEF MbGet
      <4>3. CASE MbReturn(t)
        <5>1. mail[t] # NoArg /\ mail' = [mail EXCEPT ![t] = NoArg]
          BY <4>3 DEF MbReturn
        <5>2. data[t] = NoArg
          BY <1>0, <5>1 DEF RecvInv
        <5> QED
          BY <1>0, <2>4, <3>4, <5>1, <5>2
      <4> QED
        BY <3>1, <4>1, <4>2, <4>3 DEF mbVars, MbPut, MbFront
    <3> QED
      BY <1>2, <2>1, <2>5, <3>2, <3>3, <3>5 DEF ChannelInv
  <2>6. CASE DataQueueStep(t) /\ UNCHANGED mbVars
    <3>1. \/ /\ pc[t] # "return"
             /\ \/ UNCHANGED dqVars
                \/ Drained /\ UNCHANGED <<item, data>>
                \/ \E m \in Msg : DqPut(m)
                \/ DqGet(t)
          \/ DqReturn(t)
      BY <1>0, <2>6, DataQueueMoves
    <3>2. DataInv'
      BY <1>0, <3>1, DataQueueMoved
    <3>3. [DqChannel!Next]_(DqChannel!cvars)
      BY <1>0, <2>3, <3>1, DataQueueRefines
    <3>4. mail' = mail
      BY <2>6 DEF mbVars
    <3>5. RecvInv'
      <4>1. CASE pc[t] # "return" /\ data' = data
        BY <2>3, <2>4, <3>4, <4>1
      <4>2. CASE pc[t] # "return" /\ DqGet(t)
        BY <1>0, <2>3, <2>4, <3>4, <4>2 DEF DqGet
      <4>3. CASE DqReturn(t)
        <5>1. data[t] # NoArg /\ data' = [data EXCEPT ![t] = NoArg]
          BY <4>3 DEF DqReturn
        <5>2. mail[t] = NoArg
          BY <1>0, <5>1 DEF RecvInv
        <5> QED
          BY <1>0, <2>4, <3>4, <5>1, <5>2
      <4> QED
        BY <3>1, <4>1, <4>2, <4>3 DEF dqVars, DqPut
    <3> QED
      BY <1>1, <2>1, <2>6, <3>2, <3>3, <3>5 DEF ChannelInv
  <2>7. CASE /\ \/ ThreadStep(t) \/ SemStep(t) \/ EventStep(t) \/ MqStep(t)
                \/ MemPoolStep(t) \/ CompletionStep(t) \/ WaitQueueStep(t)
             /\ UNCHANGED <<mbVars, dqVars>>
    <3>1. pc[t] # "return"
      BY <2>7, NotReturning
    <3> QED
      BY <1>3, <2>1, <2>2, <2>7, <3>1
  <2> QED
    BY <1>4, <2>5, <2>6, <2>7 DEF OwnStep, objectVars
<1>5. ASSUME UNCHANGED objectVars, UNCHANGED <<op, arg>>,
             \A u \in Thread : pc[u] # "wait" => pc'[u] = pc[u]
      PROVE  Goal
  <2>1. SendInv'
    BY <1>0, <1>5 DEF SendInv
  <2>2. UNCHANGED <<mbVars, dqVars>>
    BY <1>5 DEF objectVars
  <2> QED
    BY <1>3, <1>5, <2>1, <2>2
<1>6. CASE Tick /\ UNCHANGED <<objectVars, sigVars>>
  <2>1. \A u \in Thread : pc[u] # "wait" => pc'[u] = pc[u]
    BY <1>0, <1>6, TickKind DEF Wakes
  <2> QED
    BY <1>5, <1>6, <2>1 DEF Tick
<1>7. ASSUME NEW t \in Thread, SignalStep(t), UNCHANGED objectVars PROVE Goal
  <2>1. UNCHANGED <<op, arg>>
    BY <1>0, <1>7, SignalKind
  <2>2. \A u \in Thread : pc[u] # "wait" => pc'[u] = pc[u]
    BY <1>0, <1>7, SignalKind DEF Wakes
  <2> QED
    BY <1>5, <1>7, <2>1, <2>2
<1>8. CASE UNCHANGED vars
  BY <1>5, <1>8 DEF vars, threadVars
<1> HIDE DEF Goal
<1> QED
  BY <1>4, <1>6, <1>7, <1>8 DEF Next

\* The initial states.
LEMMA ChannelInit == Init => ChannelInv /\ MbChannel!Init /\ DqChannel!Init
<1> SUFFICES ASSUME Init PROVE ChannelInv /\ MbChannel!Init /\ DqChannel!Init
  OBVIOUS
<1> USE MailboxAssumption, DataQueueAssumption
<1>1. RecvInv /\ SendInv
  BY DEF Init, ThreadInit, MailboxInit, DataQueueInit, RecvInv, SendInv, Sends
<1>2. MailboxInv
  <2>1. 0 % mb_size = 0
    OBVIOUS
  <2> QED
    BY <2>1 DEF Init, MailboxInit, MailboxInv, Word
<1>3. DataInv
  <2>1. /\ get_index = 0 /\ put_index = 0 /\ is_empty = TRUE /\ is_full = FALSE
        /\ item = [i \in 0 .. dq_size - 1 |-> NoArg] /\ data = [t \in Thread |-> NoArg]
    BY DEF Init, DataQueueInit
  <2>2. item \in [0 .. dq_size - 1 -> Word] /\ data \in [Thread -> Word]
    BY <2>1 DEF Word
  <2>3. get_index \in 0 .. dq_size - 1 /\ put_index \in 0 .. dq_size - 1
    BY <2>1
  <2> QED
    BY <2>1, <2>2, <2>3, Zenon DEF DataInv
<1>4. 1 .. 0 = {}
  OBVIOUS
<1>5. MbChannel!Init
  BY <1>4 DEF Init, MailboxInit, MbChannel!Init
<1>6. DqChannel!Init
  BY <1>4 DEF Init, DataQueueInit, rt_data_queue_len, DqChannel!Init
<1> QED
  BY <1>1, <1>2, <1>3, <1>5, <1>6 DEF ChannelInv

\* A mailbox of any size implements Channel, for any number of senders and
\* receivers: every message is received once and in order, unless it was sent
\* urgently, whoever else waits, times out, resets the mailbox or gets a signal.
THEOREM MailboxChannelAlways == Spec => MailboxChannel
<1>1. Init => ChannelInv /\ MbChannel!Init
  BY ChannelInit
<1>2. CoreInv /\ ChannelInv /\ [Next]_vars =>
        ChannelInv' /\ [MbChannel!Next]_(MbChannel!cvars)
  BY ChannelNext
<1> QED
  BY Core, <1>1, <1>2, PTL DEF Spec, MailboxChannel, MbChannel!Spec

\* So does a data queue of any size: what is_empty and is_full say when the
\* indices meet is right after every wrap and reset.
THEOREM DataQueueIsChannel == Spec => DqChannel!Spec
<1>1. Init => ChannelInv /\ DqChannel!Init
  BY ChannelInit
<1>2. CoreInv /\ ChannelInv /\ [Next]_vars =>
        ChannelInv' /\ [DqChannel!Next]_(DqChannel!cvars)
  BY ChannelNext
<1> QED
  BY Core, <1>1, <1>2, PTL DEF Spec, DqChannel!Spec

-----------------------------------------------------------------------------
(***************************************************************************)
(* The threads that are on their way.                                      *)
(***************************************************************************)

\* The calls that a woken thread goes on with, and their objects.
RetryCalls == {"mb_send", "mb_recv", "mq_send", "mq_recv", "mp_alloc", "dq_push", "dq_pop"}

ObjectOf(c) ==
  CASE c \in {"mb_send", "mb_recv"} -> "mb" [] c \in {"mq_send", "mq_recv"} -> "mq"
    [] c = "mp_alloc" -> "mp" [] c \in {"dq_push", "dq_pop"} -> "dq" [] OTHER -> "none"

\* Thread u has been woken for what it waited for, and no signal stops it.
Ready(u) == /\ pc[u] \in {"woken", "relock"}
            /\ pc[u] = "woken" => error[u] = "EOK" /\ sig[u] \in {"none", "left"}

\* The threads that will look at the object again, in call c.
Coming(c) == {u \in Thread : op[u] = c /\ Ready(u)}

\* A suspended thread has RT_EOK in thread->error.
WaitInv == \A u \in Thread : pc[u] = "wait" => error[u] = "EOK"

\* Who waits for an object, or will look at it again, finds it there: a detach
\* begins when all its users are suspended, and wakes each of them with an error.
UseInv ==
  \A u \in Thread : op[u] \in RetryCalls =>
    /\ pc[u] = "wait" \/ Ready(u) => ObjectOf(op[u]) \in exists
    /\ \A t \in Thread : op[t] = "detach" /\ arg[t] = ObjectOf(op[u]) =>
         \/ pc[u] = "wait" /\ ListOf(op[u]) \in ToSet(lists[t])
         \/ pc[u] = "woken" /\ error[u] # "EOK"

\* Where a thread has a node of the message queue in its hands.
InHand == {"copy", "link", "fetch", "free"}

\* Who has a node finds the queue there, and nobody detaches it.
HoldInv ==
  \A u \in Thread : pc[u] \in InHand =>
    "mq" \in exists /\ \A t \in Thread : op[t] = "detach" => arg[t] # "mq"

BackInv == SigInv /\ WaitInv /\ UseInv /\ HoldInv

-----------------------------------------------------------------------------
\* The objects of the calls.
LEMMA ObjectOfFacts ==
  /\ ObjectOf("mb_send") = "mb" /\ ObjectOf("mb_recv") = "mb" /\ ObjectOf("mp_alloc") = "mp"
  /\ ObjectOf("dq_push") = "dq" /\ ObjectOf("dq_pop") = "dq"
  /\ ObjectOf("mq_send") = "mq" /\ ObjectOf("mq_recv") = "mq"
  BY DEF ObjectOf

\* A suspended thread has no signal to handle.
LEMMA WaitUnsignalled ==
  ASSUME SigInv, NEW u \in Thread, pc[u] = "wait"
  PROVE  sig[u] \in {"none", "left"}
  BY DEF SigInv

\* Every step keeps RT_EOK in the error of the suspended threads.
LEMMA WaitNext ==
  ASSUME CoreInv, SigInv, WaitInv, [Next]_vars
  PROVE  WaitInv'
<1>0. ThreadInv
  BY DEF CoreInv
<1>1. ASSUME NEW A, NEW S, NEW P, Wakes(A, S, P) PROVE WaitInv'
  BY <1>1 DEF Wakes, WaitInv
<1>2. ASSUME NEW t \in Thread, OwnStep(t) PROVE WaitInv'
  <2>1. ASSUME NEW P, Sleeps(t, P) PROVE WaitInv'
    BY <2>1 DEF Sleeps, Alone, WaitInv
  <2>2. CASE DetachEnd(t)
    BY <1>0, <1>1, <2>2, DetachEndKind
  <2> QED
    BY <1>1, <1>2, <2>1, <2>2, OwnKind DEF Steps
<1>3. CASE Tick
  BY <1>0, <1>1, <1>3, TickKind
<1>4. ASSUME NEW t \in Thread, SignalStep(t) PROVE WaitInv'
  <2>1. CASE rt_thread_kill(t)
    <3>1. error' = error /\ \A u \in Thread : pc'[u] = "wait" => pc[u] = "wait"
      BY <2>1 DEF rt_thread_kill, Resume
    <3> QED
      BY <3>1 DEF WaitInv
  <2>2. CASE _signal_entry(t)
    <3>1. /\ pc[t] = "run" /\ pc' = pc /\ error' = [error EXCEPT ![t] = "EINTR"]
      BY <2>2 DEF _signal_entry, SigInv
    <3> QED
      BY <1>0, <3>1 DEF WaitInv, ThreadInv, ThreadTypeOK
  <2>5. CASE KillSelf(t)
    BY <1>0, <2>5 DEF KillSelf, WaitInv, ThreadInv, ThreadTypeOK
  <2>3. CASE Schedule(t)
    BY <2>3 DEF Schedule, threadVars, WaitInv
  <2>4. CASE ScheduleEnd(t)
    <3>1. /\ pc[t] # "wait" /\ pc' = pc
          /\ error' \in {error, [error EXCEPT ![t] = "EINTR"]}
      BY <2>4 DEF ScheduleEnd
    <3> QED
      BY <1>0, <3>1 DEF WaitInv, ThreadInv, ThreadTypeOK
  <2> QED
    BY <1>4, <2>1, <2>2, <2>3, <2>4, <2>5 DEF SignalStep
<1>5. CASE UNCHANGED vars
  BY <1>5 DEF vars, threadVars, WaitInv
<1> QED
  BY <1>2, <1>3, <1>4, <1>5 DEF Next

\* The others, in a step of thread t: they stay on their way, and those who are
\* woken without an error join them.
LEMMA OwnReady ==
  ASSUME CoreInv, SigInv, NEW t \in Thread, OwnStep(t)
  PROVE  /\ pc[t] # "wait"
         /\ \A u \in Thread \ {t} :
              /\ op'[u] = op[u] /\ arg'[u] = arg[u] /\ lists'[u] = lists[u]
              /\ sig'[u] = sig[u]
              /\ Ready(u) => Ready(u)'
              /\ Ready(u)' => Ready(u) \/ pc[u] = "wait"
              /\ pc'[u] = "wait" => pc[u] = "wait"
         /\ sig' = sig
<1>0. ThreadInv /\ ArgInv
  BY DEF CoreInv
<1>1. sig' = sig
  BY DEF OwnStep, Enter
<1>2. \A u \in Thread \ {t} :
        /\ op'[u] = op[u]
        /\ \/ pc'[u] = pc[u] /\ error'[u] = error[u]
           \/ pc[u] = "wait" /\ pc'[u] = "woken"
  BY OwnOthers
<1>3. /\ pc[t] # "wait" /\ LocalsKept(t)
      /\ \A u \in Thread \ {t} : lists'[u] = lists[u]
  <2>1. ASSUME NEW P, Sleeps(t, P)
        PROVE  pc[t] # "wait" /\ \A u \in Thread \ {t} : lists'[u] = lists[u]
    BY <2>1 DEF Sleeps
  <2>2. ASSUME NEW S, NEW P, Wakes({t}, S, P)
        PROVE  pc[t] # "wait" /\ \A u \in Thread \ {t} : lists'[u] = lists[u]
    BY <2>2 DEF Wakes
  <2>3. CASE DetachEnd(t)
    BY <1>0, <2>2, <2>3, DetachEndKind
  <2> QED
    BY <2>1, <2>2, <2>3, OwnKind DEF Steps
<1>4. \A u \in Thread \ {t} : arg'[u] = arg[u]
  BY <1>0, <1>3 DEF LocalsKept, ArgInv
<1>5. \A u \in Thread \ {t} :
        (Ready(u) => Ready(u)') /\ (Ready(u)' => Ready(u) \/ pc[u] = "wait")
  BY <1>1, <1>2 DEF Ready
<1> QED
  BY <1>1, <1>2, <1>3, <1>4, <1>5

\* A step that belongs to object o: a call of a thread that finds it, or the next
\* turn of a woken one, or of one that has a node.
On(t, o) ==
  \/ Calling(t, o)
  \/ op[t] \in RetryCalls /\ ObjectOf(op[t]) = o /\ Ready(t)
  \/ pc[t] \in InHand /\ o = "mq"

\* A step that starts no wait, and leaves the waits of others in P alone.
Aside(t, P) ==
  /\ op'[t] \notin RetryCalls
  /\ \A u \in Thread \ {t} : op[u] \in P \cap RetryCalls =>
       pc'[u] = pc[u] /\ error'[u] = error[u]

\* An object that such a step belongs to is there, and nobody detaches it.
LEMMA OnFree ==
  ASSUME UseInv, HoldInv, NEW t \in Thread, NEW o, On(t, o)
  PROVE  o \in exists /\ \A v \in Thread : op[v] = "detach" => arg[v] # o
  BY DEF On, Calling, UseInv, HoldInv, Ready

\* A thread that takes its own steps has no signal.
LEMMA FreeReady ==
  ASSUME SigInv, NEW t \in Thread, Free(t), NEW c, t \in Retrying(c)
  PROVE  Ready(t) /\ op[t] = c
  BY DEF SigInv, Free, Retrying, Ready

\* The calls of the mailbox.
LEMMA MailboxOn ==
  ASSUME CoreInv, SigInv, NEW t \in Thread, Free(t), MailboxStep(t)
  PROVE  On(t, "mb") \/ Aside(t, MailboxOps)
<1>0. ThreadInv
  BY DEF CoreInv
<1>1. CASE rt_mb_init(t)
  <2>1. op'[t] = "none" /\ UNCHANGED <<pc, error>>
    BY <1>0, <1>1, CallingFacts DEF rt_mb_init, Creating, threadVars
  <2> QED
    BY <2>1 DEF Aside, RetryCalls
<1>2. CASE MbRetry(t)
  <2>1. t \in Retrying("mb_send") \/ t \in Retrying("mb_recv")
    BY <1>2 DEF MbRetry
  <2> QED
    BY <2>1, FreeReady, ObjectOfFacts DEF On, RetryCalls
<1>3. CASE MbReturn(t)
  <2>1. op'[t] = "none" /\ error' = error /\ \A u \in Thread \ {t} : pc'[u] = pc[u]
    BY <1>0, <1>3, OpsAtFacts DEF MbReturn, ThreadInv, CallFits, ThreadTypeOK
  <2> QED
    BY <2>1 DEF Aside, RetryCalls
<1>4. ASSUME \/ MbReset(t) \/ \E n : MbRecv(t, n) \/ \E m : MbSend(t, m, n)
             \/ \E m : rt_mb_urgent(t, m)
      PROVE  On(t, "mb")
  BY <1>4 DEF MbReset, MbRecv, MbSend, rt_mb_urgent, On
<1> QED
  BY <1>1, <1>2, <1>3, <1>4 DEF MailboxStep

\* The calls of the message queue.
LEMMA MqOn ==
  ASSUME CoreInv, SigInv, NEW t \in Thread, Free(t), MqStep(t)
  PROVE  On(t, "mq") \/ (rt_mq_init(t) /\ Aside(t, MqOps))
<1>0. ThreadInv
  BY DEF CoreInv
<1>1. CASE rt_mq_init(t)
  <2>1. op'[t] = "none" /\ UNCHANGED <<pc, error>>
    BY <1>0, <1>1, CallingFacts DEF rt_mq_init, Creating, threadVars
  <2> QED
    BY <1>1, <2>1 DEF Aside, RetryCalls
<1>2. CASE MqRetry(t)
  <2>1. t \in Retrying("mq_send") \/ t \in Retrying("mq_recv")
    BY <1>2 DEF MqRetry
  <2> QED
    BY <2>1, FreeReady, ObjectOfFacts DEF On, RetryCalls
<1>3. CASE SendCopy(t) \/ SendLink(t) \/ UrgentLink(t) \/ RecvCopy(t) \/ RecvFree(t)
  BY <1>3 DEF SendCopy, SendLink, UrgentLink, RecvCopy, RecvFree, On, InHand
<1>4. ASSUME \/ MqReset(t) \/ \E n : MqRecv(t, n) \/ \E m : MqSend(t, m, n)
             \/ \E m : MqUrgent(t, m)
      PROVE  On(t, "mq")
  BY <1>4 DEF MqReset, MqRecv, MqSend, MqUrgent, On
<1> QED
  BY <1>1, <1>2, <1>3, <1>4 DEF MqStep

\* The calls of the memory pool.
LEMMA MemPoolOn ==
  ASSUME CoreInv, SigInv, NEW t \in Thread, Free(t), MemPoolStep(t)
  PROVE  On(t, "mp") \/ (rt_mp_init(t) /\ Aside(t, MemPoolOps))
<1>0. ThreadInv
  BY DEF CoreInv
<1>1. CASE rt_mp_init(t)
  <2>1. op'[t] = "none" /\ UNCHANGED <<pc, error>>
    BY <1>0, <1>1, CallingFacts DEF rt_mp_init, Creating, threadVars
  <2> QED
    BY <1>1, <2>1 DEF Aside, RetryCalls
<1>2. CASE MpTimeLeft(t)
  BY <1>2, FreeReady, ObjectOfFacts DEF MpTimeLeft, On, RetryCalls
<1>3. CASE MpAgain(t)
  <2>1. pc[t] = "relock" /\ op[t] = "mp_alloc"
    BY <1>0, <1>3, OpsAtFacts DEF MpAgain, ThreadInv, CallFits
  <2> QED
    BY <2>1, ObjectOfFacts DEF On, RetryCalls, Ready
<1>4. ASSUME (\E n : MpAlloc(t, n)) \/ \E b : rt_mp_free(t, b) PROVE On(t, "mp")
  BY <1>4 DEF MpAlloc, rt_mp_free, On
<1> QED
  BY <1>1, <1>2, <1>3, <1>4 DEF MemPoolStep

\* The calls of the data queue.
LEMMA DataQueueOn ==
  ASSUME CoreInv, SigInv, NEW t \in Thread, Free(t), DataQueueStep(t)
  PROVE  On(t, "dq") \/ Aside(t, DataQueueOps)
<1>0. ThreadInv
  BY DEF CoreInv
<1>1. CASE rt_data_queue_init(t)
  <2>1. op'[t] = "none" /\ UNCHANGED <<pc, error>>
    BY <1>0, <1>1, CallingFacts DEF rt_data_queue_init, Creating, threadVars
  <2> QED
    BY <2>1 DEF Aside, RetryCalls
<1>2. CASE DqRetry(t)
  <2>1. t \in Retrying("dq_push") \/ t \in Retrying("dq_pop")
    BY <1>2 DEF DqRetry
  <2> QED
    BY <2>1, FreeReady, ObjectOfFacts DEF On, RetryCalls
<1>3. CASE DqReturn(t)
  <2>1. op'[t] = "none" /\ error' = error /\ \A u \in Thread \ {t} : pc'[u] = pc[u]
    BY <1>0, <1>3, OpsAtFacts DEF DqReturn, ThreadInv, CallFits, ThreadTypeOK
  <2> QED
    BY <2>1 DEF Aside, RetryCalls
<1>4. CASE DqResetLock(t)
  <2>1. op'[t] = "dq_reset" /\ error' = error /\ \A u \in Thread \ {t} : pc'[u] = pc[u]
    BY <1>0, <1>4, OpsAtFacts DEF DqResetLock, ThreadInv, CallFits, ThreadTypeOK
  <2> QED
    BY <2>1 DEF Aside, RetryCalls
<1>5. CASE DqResetEnd(t)
  <2>1. op'[t] = "none" /\ error' = error /\ \A u \in Thread \ {t} : pc'[u] = pc[u]
    BY <1>0, <1>5 DEF DqResetEnd, Returned, ThreadInv, ThreadTypeOK
  <2> QED
    BY <2>1 DEF Aside, RetryCalls
<1>6. ASSUME DqReset(t) \/ \E n : DqPop(t, n) \/ \E m : DqPush(t, m, n) PROVE On(t, "dq")
  BY <1>6 DEF DqReset, DqPop, DqPush, On
<1> QED
  BY <1>1, <1>2, <1>3, <1>4, <1>5, <1>6 DEF DataQueueStep

\* Who uses an object finds it, after a step that detaches nothing.
LEMMA UseObject ==
  ASSUME CoreInv, SigInv, UseInv, HoldInv, NEW t \in Thread, OwnStep(t),
         NEW P, Steps(t, P), "detach" \notin P,
         NEW o, \A c \in P \cap RetryCalls : ObjectOf(c) = o,
         On(t, o) \/ Aside(t, P)
  PROVE  UseInv'
<1>0. /\ Frame(P) /\ op'[t] \in P /\ exists \subseteq exists'
  BY StepsFacts DEF CoreInv, Steps
<1>1. \A v \in Thread : op'[v] = "detach" =>
        v # t /\ op[v] = "detach" /\ arg'[v] = arg[v] /\ lists'[v] = lists[v]
  BY <1>0, OwnReady
<1>2. ASSUME op'[t] \in RetryCalls
      PROVE  /\ ObjectOf(op'[t]) \in exists'
             /\ \A v \in Thread : op'[v] = "detach" => arg'[v] # ObjectOf(op'[t])
  <2>1. On(t, o) /\ ObjectOf(op'[t]) = o
    BY <1>0, <1>2 DEF Aside
  <2> QED
    BY <1>0, <1>1, <2>1, OnFree
<1>3. ASSUME NEW u \in Thread \ {t}, op'[u] \in RetryCalls
      PROVE  /\ pc'[u] = "wait" \/ Ready(u)' => ObjectOf(op'[u]) \in exists'
             /\ \A v \in Thread : op'[v] = "detach" /\ arg'[v] = ObjectOf(op'[u]) =>
                  \/ pc'[u] = "wait" /\ ListOf(op'[u]) \in ToSet(lists'[v])
                  \/ pc'[u] = "woken" /\ error'[u] # "EOK"
  <2>1. op'[u] = op[u]
    BY OwnReady
  <2>2. pc'[u] = "wait" \/ Ready(u)' => ObjectOf(op'[u]) \in exists'
    BY <1>0, <1>3, <2>1, OwnReady DEF UseInv
  <2>3. ASSUME NEW v \in Thread, op'[v] = "detach", arg'[v] = ObjectOf(op'[u])
        PROVE  \/ pc'[u] = "wait" /\ ListOf(op'[u]) \in ToSet(lists'[v])
               \/ pc'[u] = "woken" /\ error'[u] # "EOK"
    <3>1. op[v] = "detach" /\ arg[v] = ObjectOf(op[u]) /\ lists'[v] = lists[v]
      BY <1>1, <2>1, <2>3
    <3>2. pc'[u] = pc[u] /\ error'[u] = error[u]
      <4>1. CASE op[u] \notin P
        BY <1>0, <4>1 DEF Frame
      <4>2. CASE op[u] \in P
        <5>1. ObjectOf(op[u]) = o
          BY <1>3, <2>1, <4>2
        <5>2. ~ On(t, o)
          BY <3>1, <5>1, OnFree
        <5> QED
          BY <1>3, <2>1, <4>2, <5>2 DEF Aside
      <4> QED
        BY <4>1, <4>2
    <3> QED
      BY <1>3, <2>1, <3>1, <3>2 DEF UseInv
  <2> QED
    BY <2>2, <2>3
<1> QED
  BY <1>2, <1>3 DEF UseInv

\* The list of a call is one of the lists of its object.
LEMMA ObjectLists ==
  \A c \in RetryCalls : /\ ListOf(c) \in ToSet(ListsOf(ObjectOf(c)))
                        /\ c \notin {"none", "detach"} /\ c \in Blocking /\ ListOf(c) \in List
<1>1. /\ ListsOf("mb") = <<"mb", "mb_sender">> /\ ListsOf("mp") = <<"mp">>
      /\ ListsOf("dq") = <<"dq_pop", "dq_push">> /\ ListsOf("mq") = <<"mq", "mq_sender">>
  BY DEF ListsOf
<1>2. /\ ToSet(<<"mb", "mb_sender">>) = {"mb", "mb_sender"} /\ ToSet(<<"mp">>) = {"mp"}
      /\ ToSet(<<"mq", "mq_sender">>) = {"mq", "mq_sender"}
      /\ ToSet(<<"dq_pop", "dq_push">>) = {"dq_pop", "dq_push"}
  BY DEF ToSet
<1> QED
  BY <1>1, <1>2, ListOfFacts, ObjectOfFacts DEF RetryCalls, Blocking, List

\* What follows the first of a list.
LEMMA InTail ==
  ASSUME NEW T, NEW s \in Seq(T), s # <<>>, NEW x \in ToSet(s), x # Head(s)
  PROVE  x \in ToSet(Tail(s))
<1>1. PICK i \in 1 .. Len(s) : s[i] = x
  BY DEF ToSet
<1>2. i # 1 /\ i - 1 \in 1 .. Len(Tail(s)) /\ Tail(s)[i - 1] = x
  BY <1>1
<1>3. Tail(s) \in Seq(T) /\ DOMAIN Tail(s) = 1 .. Len(Tail(s))
  OBVIOUS
<1> QED
  BY <1>2, <1>3 DEF ToSet

\* Failed waits and detaches leave the users of an object what they need.
LEMMA UseThread ==
  ASSUME CoreInv, SigInv, UseInv, HoldInv, NEW t \in Thread, OwnStep(t), ThreadStep(t)
  PROVE  UseInv'
<1>0. ThreadInv
  BY DEF CoreInv
<1>a. /\ pc \in [Thread -> PC] /\ op \in [Thread -> Op] /\ error \in [Thread -> Error]
      /\ lists \in [Thread -> Seq(DetachList)] /\ DOMAIN arg = Thread
  BY DEF CoreInv, ThreadInv, ThreadTypeOK, ArgInv
<1>s. sig' = sig
  BY DEF OwnStep, Enter
<1>1. CASE WaitFailed(t)
  <2> DEFINE P == {"none", op[t]}
  <2>1. Steps(t, P)
    BY <1>0, <1>1, WaitFailedKind
  <2>2. op[t] # "detach" /\ op'[t] = "none"
    BY <1>0, <1>1, <1>a, OpsAtFacts DEF WaitFailed, Returned, ThreadInv, CallFits, Blocking
  <2>3. "detach" \notin P /\ \A c \in P \cap RetryCalls : ObjectOf(c) = ObjectOf(op[t])
    BY <2>2 DEF RetryCalls
  <2>4. error' = error /\ \A u \in Thread \ {t} : pc'[u] = pc[u]
    BY <1>1, <1>a DEF WaitFailed
  <2>5. Aside(t, P)
    BY <2>2, <2>4 DEF Aside, RetryCalls
  <2> HIDE DEF P
  <2> QED
    BY <2>1, <2>3, <2>5, UseObject
<1>2. ASSUME NEW o \in Detachable, DetachStart(t, o) PROVE UseInv'
  <2>1. /\ op'[t] = "detach" /\ arg'[t] = o /\ lists'[t] = ListsOf(o) /\ Quiet(o)
        /\ UNCHANGED <<exists, error>>
        /\ \A u \in Thread \ {t} :
             op'[u] = op[u] /\ pc'[u] = pc[u] /\ arg'[u] = arg[u] /\ lists'[u] = lists[u]
    BY <1>2, <1>a DEF DetachStart
  <2>2. \A u \in Thread : op'[u] \in RetryCalls => u # t /\ op[u] \in RetryCalls
    BY <2>1 DEF RetryCalls
  <2>3. \A u \in Thread : op'[u] \in RetryCalls /\ ObjectOf(op[u]) = o =>
          pc[u] = "wait" /\ ListOf(op[u]) \in ToSet(ListsOf(o))
    BY <2>1, <2>2, ObjectLists DEF Quiet, Inside
  <2>4. \A u \in Thread \ {t} : Ready(u)' => Ready(u)
    BY <1>s, <2>1 DEF Ready
  <2> QED
    BY <2>1, <2>2, <2>3, <2>4 DEF UseInv
<1>3. CASE ResumeAllTest(t)
  <2>1. /\ pc[t] = "test" /\ op[t] \in {"detach", "dq_reset"}
        /\ lists[t] # <<>> /\ UNCHANGED <<exists, op, arg, error>>
        /\ \A u \in Thread \ {t} : pc'[u] = pc[u] /\ lists'[u] = lists[u]
    BY <1>0, <1>3, <1>a, OpsAtFacts DEF ResumeAllTest, ThreadInv, CallFits
  <2>2. ASSUME NEW u \in Thread, op[u] \in RetryCalls, pc[u] = "wait",
               ListOf(op[u]) \in ToSet(lists[t])
        PROVE  ListOf(op[u]) \in ToSet(lists'[t])
    <3>1. suspend_thread[ListOf(op[u])] # <<>>
      <4>1. ListOf(op[u]) \in List
        BY <2>2, ObjectLists
      <4>2. u \in Waiters(ListOf(op[u]))
        BY <1>0, <2>2, <4>1 DEF ThreadInv, SuspendedListed
      <4> QED
        BY <4>2, EmptyList DEF Waiters
    <3>2. lists'[t] \in {lists[t], Tail(lists[t])}
      BY <1>3, <1>a DEF ResumeAllTest
    <3>3. CASE lists'[t] = Tail(lists[t]) /\ lists'[t] # lists[t]
      <4>1. suspend_thread[Head(lists[t])] = <<>>
        BY <1>3, <3>3 DEF ResumeAllTest
      <4>2. ListOf(op[u]) # Head(lists[t])
        BY <3>1, <4>1
      <4> QED
        BY <1>a, <2>1, <2>2, <3>3, <4>2, InTail
    <3> QED
      BY <2>2, <3>2, <3>3
  <2>3. \A u \in Thread : op[u] \in RetryCalls => u # t
    BY <2>1 DEF RetryCalls
  <2>4. \A u \in Thread \ {t} : Ready(u)' => Ready(u)
    BY <1>s, <2>1 DEF Ready
  <2> QED
    BY <2>1, <2>2, <2>3, <2>4 DEF UseInv
<1>4. CASE ResumeAllNext(t)
  <2> DEFINE S == First(Head(lists[t]))
  <2>1. /\ pc[t] = "resume" /\ UNCHANGED <<exists, op, arg, lists>>
        /\ error' = [u \in Thread |-> IF u \in S THEN "ERROR" ELSE error[u]]
        /\ pc' = [u \in Thread |-> IF u \in S THEN "woken" ELSE [pc EXCEPT ![t] = "test"][u]]
    BY <1>4 DEF ResumeAllNext, Resume, SetError
  <2> HIDE DEF S
  <2>2. op[t] \notin RetryCalls
    BY <1>0, <2>1, OpsAtFacts DEF ThreadInv, CallFits, RetryCalls
  <2>3. \A u \in Thread : op[u] \in RetryCalls =>
          /\ u # t
          /\ \/ pc'[u] = "woken" /\ error'[u] = "ERROR"
             \/ pc'[u] = pc[u] /\ error'[u] = error[u]
    BY <1>a, <2>1, <2>2
  <2>4. \A u \in Thread : op[u] \in RetryCalls /\ Ready(u)' => Ready(u)
    BY <1>s, <2>3 DEF Ready
  <2> QED
    BY <2>1, <2>3, <2>4 DEF UseInv
<1>5. CASE DetachEnd(t)
  <2>1. /\ lists[t] = <<>> /\ op[t] = "detach" /\ op'[t] = "none"
        /\ exists' = exists \ {arg[t]} /\ UNCHANGED <<error, lists>>
        /\ \A u \in Thread \ {t} : op'[u] = op[u] /\ pc'[u] = pc[u] /\ arg'[u] = arg[u]
    BY <1>5, <1>a DEF DetachEnd, Returned
  <2>2. \A u \in Thread : op'[u] \in RetryCalls => u # t
    BY <2>1 DEF RetryCalls
  <2>3. \A u \in Thread : op[u] \in RetryCalls /\ ObjectOf(op[u]) = arg[t] =>
          pc[u] = "woken" /\ error[u] # "EOK"
    BY <2>1, EmptyList DEF UseInv
  <2>4. \A u \in Thread \ {t} : Ready(u)' => Ready(u)
    BY <1>s, <2>1 DEF Ready
  <2>5. \A u \in Thread : op'[u] \in RetryCalls /\ (pc'[u] = "wait" \/ Ready(u)') =>
          ObjectOf(op[u]) # arg[t]
    BY <2>1, <2>2, <2>3, <2>4 DEF Ready
  <2>6. \A v \in Thread : op'[v] = "detach" => v # t
    BY <2>1
  <2> QED
    BY <2>1, <2>2, <2>4, <2>5, <2>6 DEF UseInv
<1> QED
  BY <1>1, <1>2, <1>3, <1>4, <1>5 DEF ThreadStep

\* Every step of the kernel leaves the users of an object what they need.
LEMMA UseNext ==
  ASSUME Polite, CoreInv, SigInv, UseInv, HoldInv, [Next]_vars
  PROVE  UseInv'
<1>0. ThreadInv /\ EventType /\ NodesInv
  BY DEF CoreInv
<1>a. /\ pc \in [Thread -> PC] /\ error \in [Thread -> Error]
  BY DEF CoreInv, ThreadInv, ThreadTypeOK
<1>1. ASSUME NEW t \in Thread, OwnStep(t) PROVE UseInv'
  <2>0. Free(t)
    BY <1>1 DEF OwnStep
  <2>1. CASE ThreadStep(t)
    BY <1>1, <2>1, UseThread
  <2>2. ASSUME NEW P, Steps(t, P), "detach" \notin P, P \cap RetryCalls = {} PROVE UseInv'
    <3>1. op'[t] \in P
      BY <1>0, <2>2, StepsFacts
    <3>2. Aside(t, P) /\ \A c \in P \cap RetryCalls : ObjectOf(c) = "none"
      BY <2>2, <3>1 DEF Aside
    <3> QED
      BY <1>1, <2>2, <3>2, UseObject
  <2>3. CASE SemStep(t) \/ EventStep(t) \/ CompletionStep(t) \/ WaitQueueStep(t)
    <3>1. /\ SemStep(t) => Steps(t, SemOps)
          /\ EventStep(t) => Steps(t, EventOps)
          /\ CompletionStep(t) => Steps(t, CompletionOps)
          /\ WaitQueueStep(t) => Steps(t, WaitQueueOps)
      BY <1>0, SemKind, EventKind, CompletionKind, WaitQueueKind
    <3>2. /\ "detach" \notin SemOps /\ SemOps \cap RetryCalls = {}
          /\ "detach" \notin EventOps /\ EventOps \cap RetryCalls = {}
          /\ "detach" \notin CompletionOps /\ CompletionOps \cap RetryCalls = {}
          /\ "detach" \notin WaitQueueOps /\ WaitQueueOps \cap RetryCalls = {}
      BY DEF SemOps, EventOps, CompletionOps, WaitQueueOps, RetryCalls
    <3>3. CASE SemStep(t)
      BY <2>2, <3>1, <3>2, <3>3
    <3>4. CASE EventStep(t)
      BY <2>2, <3>1, <3>2, <3>4
    <3>5. CASE CompletionStep(t)
      BY <2>2, <3>1, <3>2, <3>5
    <3>6. CASE WaitQueueStep(t)
      BY <2>2, <3>1, <3>2, <3>6
    <3> QED
      BY <2>3, <3>3, <3>4, <3>5, <3>6
  <2>4. CASE MailboxStep(t)
    <3>1. "detach" \notin MailboxOps /\ \A c \in MailboxOps \cap RetryCalls : ObjectOf(c) = "mb"
      BY ObjectOfFacts DEF MailboxOps, RetryCalls
    <3> QED
      BY <1>0, <1>1, <2>0, <2>4, <3>1, MailboxKind, MailboxOn, UseObject
  <2>5. CASE MemPoolStep(t)
    <3>1. "detach" \notin MemPoolOps /\ \A c \in MemPoolOps \cap RetryCalls : ObjectOf(c) = "mp"
      BY ObjectOfFacts DEF MemPoolOps, RetryCalls
    <3> QED
      BY <1>0, <1>1, <2>0, <2>5, <3>1, MemPoolKind, MemPoolOn, UseObject
  <2>6. CASE DataQueueStep(t)
    <3>1. /\ "detach" \notin DataQueueOps
          /\ \A c \in DataQueueOps \cap RetryCalls : ObjectOf(c) = "dq"
      BY ObjectOfFacts DEF DataQueueOps, RetryCalls
    <3> QED
      BY <1>0, <1>1, <2>0, <2>6, <3>1, DataQueueKind, DataQueueOn, UseObject
  <2>7. CASE MqStep(t)
    <3>1. "detach" \notin MqOps /\ \A c \in MqOps \cap RetryCalls : ObjectOf(c) = "mq"
      BY ObjectOfFacts DEF MqOps, RetryCalls
    <3> QED
      BY <1>0, <1>1, <2>0, <2>7, <3>1, MqKind, MqOn, UseObject
  <2> QED
    BY <1>1, <2>1, <2>3, <2>4, <2>5, <2>6, <2>7 DEF OwnStep
<1>2. CASE Tick /\ UNCHANGED sigVars
  <2> DEFINE S == Due((rt_tick + 1) % TickMod)
  <2>1. /\ UNCHANGED <<exists, op, arg, lists, sig>>
        /\ error' = [u \in Thread |-> IF u \in S THEN "ETIMEOUT" ELSE error[u]]
        /\ pc' = [u \in Thread |-> IF u \in S THEN "woken" ELSE pc[u]]
    BY <1>2 DEF Tick, Resume, SetError, sigVars
  <2> HIDE DEF S
  <2>2. \A u \in Thread : \/ pc'[u] = "woken" /\ error'[u] = "ETIMEOUT"
                          \/ pc'[u] = pc[u] /\ error'[u] = error[u]
    BY <2>1
  <2>3. \A u \in Thread : Ready(u)' => Ready(u)
    BY <2>1, <2>2 DEF Ready
  <2> QED
    BY <2>1, <2>2, <2>3 DEF UseInv
<1>3. ASSUME NEW t \in Thread, rt_thread_kill(t) PROVE UseInv'
  <2>1. /\ \A v \in Thread : op[v] # "detach"
        /\ UNCHANGED <<exists, op, arg, error, lists>>
        /\ pc[t] = "run" \/ pc[t] = "wait"
    BY <1>3, <1>a DEF rt_thread_kill, Killable
  <2>2. \A u \in Thread \ {t} : sig'[u] = sig[u]
    <3>1. PICK s : sig' = [sig EXCEPT ![t] = s]
      BY <1>3 DEF rt_thread_kill
    <3> QED
      BY <3>1, <1>a DEF SigInv
  <2>3. \A u \in Thread : pc'[u] = IF u = t /\ pc[t] = "wait" THEN "woken" ELSE pc[u]
    BY <1>3 DEF rt_thread_kill, Resume
  <2>4. \A u \in Thread : pc'[u] = "wait" \/ Ready(u)' => pc[u] = "wait" \/ Ready(u)
    BY <2>1, <2>2, <2>3 DEF Ready
  <2> QED
    BY <2>1, <2>4 DEF UseInv
<1>4. ASSUME NEW t \in Thread, _signal_entry(t) PROVE UseInv'
  <2>1. /\ pc[t] = "run" /\ UNCHANGED <<exists, op, arg, lists, pc>>
        /\ \A u \in Thread \ {t} : error'[u] = error[u] /\ sig'[u] = sig[u]
    BY <1>4, <1>a DEF _signal_entry, SigInv
  <2>2. \A u \in Thread : (pc[u] = "woken" => error'[u] = error[u]) /\ (Ready(u)' => Ready(u))
    BY <2>1 DEF Ready
  <2> QED
    BY <2>1, <2>2 DEF UseInv
<1>8. ASSUME NEW t \in Thread, KillSelf(t) PROVE UseInv'
  <2>1. /\ pc[t] = "run" /\ UNCHANGED <<exists, op, arg, lists, pc, sig>>
        /\ \A u \in Thread \ {t} : error'[u] = error[u]
    BY <1>8, <1>a DEF KillSelf
  <2>2. \A u \in Thread : (pc[u] = "woken" => error'[u] = error[u]) /\ (Ready(u)' => Ready(u))
    BY <2>1 DEF Ready
  <2> QED
    BY <2>1, <2>2 DEF UseInv
<1>5. ASSUME NEW t \in Thread, Schedule(t) PROVE UseInv'
  BY <1>5 DEF Schedule, threadVars, UseInv, Ready
<1>6. ASSUME NEW t \in Thread, ScheduleEnd(t) PROVE UseInv'
  <2>1. /\ UNCHANGED <<exists, op, arg, lists, pc>>
        /\ error'[t] = IF sig[t] = "pending" THEN "EINTR" ELSE error[t]
        /\ sig'[t] = IF sig[t] = "pending" THEN "none" ELSE sig[t]
        /\ \A u \in Thread \ {t} : error'[u] = error[u] /\ sig'[u] = sig[u]
    BY <1>6, <1>a DEF ScheduleEnd, SigInv
  <2>2. \A u \in Thread : (error'[u] = "EOK" => error[u] = "EOK") /\ (Ready(u)' => Ready(u))
    BY <2>1 DEF Ready
  <2> QED
    BY <2>1, <2>2 DEF UseInv
<1>7. CASE UNCHANGED vars
  BY <1>7 DEF vars, threadVars, sigVars, UseInv, Ready
<1> QED
  BY <1>1, <1>2, <1>3, <1>4, <1>5, <1>6, <1>7, <1>8 DEF Next, SignalStep

\* The calls between whose sections a thread has a node.
HandOps == {"mq_send", "mq_urgent", "mq_recv"}

\* Who has a node is in a call of the message queue, and is not suspended.
LEMMA InHandFacts ==
  ASSUME ThreadInv, NEW u \in Thread, pc[u] \in InHand
  PROVE  op[u] \in HandOps /\ Inside(u, "mq") /\ pc[u] \notin {"run", "wait", "woken"}
<1>1. op[u] \in HandOps
  BY OpsAtFacts DEF InHand, HandOps, ThreadInv, CallFits
<1>2. ListsOf("mq") = <<"mq", "mq_sender">> /\ ToSet(<<"mq", "mq_sender">>) = {"mq", "mq_sender"}
  BY DEF ListsOf, ToSet
<1>3. ListOf(op[u]) \in {"mq", "mq_sender"}
  BY <1>1 DEF HandOps, ListOf
<1> QED
  BY <1>1, <1>2, <1>3 DEF Inside, HandOps, InHand

\* Failed waits and detaches take the queue from nobody who has a node.
LEMMA HoldThread ==
  ASSUME CoreInv, HoldInv, NEW t \in Thread, ThreadStep(t)
  PROVE  /\ pc'[t] \notin InHand
         /\ \A u \in Thread : pc[u] \in InHand =>
              "mq" \in exists' /\ (op'[t] = "detach" => arg'[t] # "mq")
<1>0. ThreadInv
  BY DEF CoreInv
<1>a. /\ pc \in [Thread -> PC] /\ op \in [Thread -> Op] /\ DOMAIN arg = Thread
      /\ {"run", "test", "resume", "woken"} \cap InHand = {}
  BY DEF CoreInv, ThreadInv, ThreadTypeOK, ArgInv, InHand
<1>1. CASE WaitFailed(t)
  <2>1. pc'[t] = "run" /\ exists' = exists /\ op'[t] = "none"
    BY <1>1, <1>a DEF WaitFailed, Returned
  <2> QED
    BY <1>a, <2>1 DEF HoldInv
<1>2. ASSUME NEW o \in Detachable, DetachStart(t, o)
      PROVE  /\ pc'[t] \notin InHand
             /\ \A u \in Thread : pc[u] \in InHand =>
                  "mq" \in exists' /\ (op'[t] = "detach" => arg'[t] # "mq")
  <2>1. pc'[t] = "test" /\ exists' = exists /\ arg'[t] = o /\ Quiet(o)
    BY <1>2, <1>a DEF DetachStart
  <2>2. ASSUME NEW u \in Thread, pc[u] \in InHand PROVE o # "mq"
    BY <1>0, <2>1, <2>2, InHandFacts DEF Quiet
  <2> QED
    BY <1>a, <2>1, <2>2 DEF HoldInv
<1>3. CASE ResumeAllTest(t)
  <2>1. pc'[t] \in {"test", "resume"} /\ UNCHANGED <<exists, op, arg>>
    BY <1>3, <1>a DEF ResumeAllTest
  <2> QED
    BY <1>a, <2>1 DEF HoldInv
<1>4. CASE ResumeAllNext(t)
  <2>1. pc'[t] \in {"test", "woken"} /\ UNCHANGED <<exists, op, arg>>
    BY <1>4, <1>a DEF ResumeAllNext, Resume
  <2> QED
    BY <1>a, <2>1 DEF HoldInv
<1>5. CASE DetachEnd(t)
  <2>1. /\ pc'[t] = "run" /\ exists' = exists \ {arg[t]} /\ op[t] = "detach"
        /\ op'[t] = "none"
    BY <1>5, <1>a DEF DetachEnd, Returned
  <2> QED
    BY <1>a, <2>1 DEF HoldInv
<1> QED
  BY <1>1, <1>2, <1>3, <1>4, <1>5 DEF ThreadStep

\* Every step leaves the queue to those who have a node.
LEMMA HoldNext ==
  ASSUME Polite, CoreInv, SigInv, UseInv, HoldInv, [Next]_vars
  PROVE  HoldInv'
<1>0. ThreadInv /\ EventType /\ NodesInv
  BY DEF CoreInv
<1>a. pc \in [Thread -> PC] /\ "woken" \notin InHand
  BY DEF CoreInv, ThreadInv, ThreadTypeOK, InHand
<1>1. ASSUME NEW t \in Thread, OwnStep(t) PROVE HoldInv'
  <2>0. Free(t)
    BY <1>1 DEF OwnStep
  <2>1. \A u \in Thread \ {t} :
          (pc'[u] \in InHand => pc[u] \in InHand) /\ op'[u] = op[u] /\ arg'[u] = arg[u]
    BY <1>1, <1>a, OwnReady, OwnOthers
  <2>2. CASE ThreadStep(t)
    BY <2>1, <2>2, HoldThread DEF HoldInv
  <2>3. ASSUME NEW P, Steps(t, P), "detach" \notin P, pc'[t] \in InHand => On(t, "mq")
        PROVE  HoldInv'
    <3>1. exists \subseteq exists' /\ op'[t] # "detach"
      BY <1>0, <2>3, StepsFacts DEF Steps
    <3>2. ASSUME NEW u \in Thread, pc'[u] \in InHand
          PROVE  "mq" \in exists /\ \A v \in Thread : op[v] = "detach" => arg[v] # "mq"
      <4>1. CASE u = t
        BY <2>3, <3>2, <4>1, OnFree
      <4>2. CASE u # t
        BY <2>1, <3>2, <4>2 DEF HoldInv
      <4> QED
        BY <4>1, <4>2
    <3> QED
      BY <2>1, <3>1, <3>2 DEF HoldInv
  <2>4. ASSUME NEW P, Steps(t, P), "detach" \notin P, P \cap HandOps = {} PROVE HoldInv'
    <3>1. ThreadInv' /\ op'[t] \in P
      BY <1>0, <2>4, StepsFacts
    <3>2. pc'[t] \in InHand => op'[t] \in HandOps
      BY <3>1, OpsAtFacts DEF InHand, HandOps, ThreadInv, CallFits
    <3> QED
      BY <2>3, <2>4, <3>1, <3>2
  <2>5. CASE \/ SemStep(t) \/ EventStep(t) \/ CompletionStep(t) \/ WaitQueueStep(t)
             \/ MailboxStep(t) \/ MemPoolStep(t) \/ DataQueueStep(t)
    <3>1. /\ SemStep(t) => Steps(t, SemOps)
          /\ EventStep(t) => Steps(t, EventOps)
          /\ CompletionStep(t) => Steps(t, CompletionOps)
          /\ WaitQueueStep(t) => Steps(t, WaitQueueOps)
          /\ MailboxStep(t) => Steps(t, MailboxOps)
          /\ MemPoolStep(t) => Steps(t, MemPoolOps)
          /\ DataQueueStep(t) => Steps(t, DataQueueOps)
      BY <1>0, SemKind, EventKind, CompletionKind, WaitQueueKind, MailboxKind, MemPoolKind,
         DataQueueKind
    <3>2. \A P \in {SemOps, EventOps, CompletionOps, WaitQueueOps, MailboxOps, MemPoolOps,
                    DataQueueOps} :
            "detach" \notin P /\ P \cap HandOps = {}
      BY DEF SemOps, EventOps, CompletionOps, WaitQueueOps, MailboxOps, MemPoolOps,
             DataQueueOps, HandOps
    <3> QED
      BY <2>4, <2>5, <3>1, <3>2
  <2>6. CASE MqStep(t)
    <3>1. Steps(t, MqOps) /\ "detach" \notin MqOps
      BY <1>0, <2>6, MqKind DEF MqOps
    <3>2. CASE On(t, "mq")
      BY <2>3, <3>1, <3>2
    <3>3. CASE rt_mq_init(t)
      <4>1. pc'[t] = "run"
        BY <3>3 DEF rt_mq_init, Creating, threadVars
      <4>2. pc'[t] \notin InHand
        BY <4>1 DEF InHand
      <4> QED
        BY <2>3, <3>1, <4>2
    <3> QED
      BY <2>0, <2>6, <3>2, <3>3, MqOn
  <2> QED
    BY <1>1, <2>2, <2>5, <2>6 DEF OwnStep
<1>2. ASSUME UNCHANGED <<exists, op, arg>>,
             \A u \in Thread : pc'[u] = pc[u] \/ pc'[u] = "woken"
      PROVE  HoldInv'
  BY <1>2, <1>a DEF HoldInv
<1>3. CASE Tick
  BY <1>2, <1>3 DEF Tick, Resume
<1>4. ASSUME NEW t \in Thread, SignalStep(t) PROVE HoldInv'
  <2>1. CASE rt_thread_kill(t)
    BY <1>2, <2>1 DEF rt_thread_kill, Resume
  <2>2. CASE _signal_entry(t)
    BY <1>2, <2>2 DEF _signal_entry, SigInv
  <2>3. CASE Schedule(t)
    BY <1>2, <2>3 DEF Schedule, threadVars
  <2>4. CASE ScheduleEnd(t)
    BY <1>2, <2>4 DEF ScheduleEnd
  <2>5. CASE KillSelf(t)
    BY <1>2, <2>5 DEF KillSelf
  <2> QED
    BY <1>4, <2>1, <2>2, <2>3, <2>4, <2>5 DEF SignalStep
<1>5. CASE UNCHANGED vars
  BY <1>2, <1>5 DEF vars, threadVars
<1> QED
  BY <1>1, <1>3, <1>4, <1>5 DEF Next

-----------------------------------------------------------------------------
(***************************************************************************)
(* Counting the threads that are on their way.                             *)
(***************************************************************************)

\* While a list s of waiters is not empty, n units have threads in R on their way.
Covered(s, n, R) == s # <<>> => n <= Cardinality(R)

\* A unit less, or a thread more, does no harm.
LEMMA CoverKept ==
  ASSUME NEW s, NEW n \in Int, NEW R, Covered(s, n, R),
         NEW s2, NEW n2 \in Int, NEW R2, IsFiniteSet(R2),
         s2 # <<>> => s # <<>>, n2 <= n, R \subseteq R2
  PROVE  Covered(s2, n2, R2)
<1>1. /\ IsFiniteSet(R) /\ Cardinality(R) <= Cardinality(R2)
  BY FS_Subset
<1>2. Cardinality(R) \in Nat /\ Cardinality(R2) \in Nat
  BY <1>1, FS_CardinalityType
<1> QED
  BY <1>1, <1>2 DEF Covered

\* A thread takes a unit and is no longer on its way.
LEMMA CoverTaken ==
  ASSUME NEW s, NEW n \in Int, NEW R, IsFiniteSet(R), Covered(s, n, R),
         NEW s2, NEW n2 \in Int, NEW R2, IsFiniteSet(R2), NEW t,
         s2 # <<>> => s # <<>>, n2 <= n - 1, R \ {t} \subseteq R2
  PROVE  Covered(s2, n2, R2)
<1>1. Cardinality(R \ {t}) <= Cardinality(R2)
  BY FS_Subset
<1>2. IsFiniteSet(R \ {t}) /\ Cardinality(R \ {t}) >= Cardinality(R) - 1
  <2>1. Cardinality(R) \in Nat
    BY FS_CardinalityType
  <2> QED
    BY <2>1, FS_RemoveElement
<1>3. Cardinality(R) \in Nat /\ Cardinality(R2) \in Nat /\ Cardinality(R \ {t}) \in Nat
  BY <1>2, FS_CardinalityType
<1> QED
  BY <1>1, <1>2, <1>3 DEF Covered

\* There is one unit more, and a waiter, if there is one, is woken for it.
LEMMA CoverGiven ==
  ASSUME NEW s, NEW n \in Int, NEW R, Covered(s, n, R),
         NEW s2, NEW n2 \in Int, NEW R2, IsFiniteSet(R2),
         s2 # <<>> => s # <<>>, n2 <= n + 1, R \subseteq R2,
         s # <<>> => \E x \in R2 : x \notin R
  PROVE  Covered(s2, n2, R2)
<1> SUFFICES ASSUME s2 # <<>> PROVE n2 <= Cardinality(R2)
  BY DEF Covered
<1>1. PICK x \in R2 : x \notin R
  OBVIOUS
<1>2. IsFiniteSet(R)
  BY FS_Subset
<1>3. Cardinality(R \cup {x}) = Cardinality(R) + 1
  BY <1>1, <1>2, FS_AddElement
<1>4. Cardinality(R \cup {x}) <= Cardinality(R2)
  BY <1>1, FS_Subset
<1>5. Cardinality(R) \in Nat /\ Cardinality(R2) \in Nat
  BY <1>2, FS_CardinalityType
<1> QED
  BY <1>3, <1>4, <1>5 DEF Covered

\* Nothing has to be covered.
LEMMA CoverNone ==
  ASSUME NEW s, NEW n \in Int, NEW R, IsFiniteSet(R), n <= 0 \/ s = <<>>
  PROVE  Covered(s, n, R)
<1>1. Cardinality(R) \in Nat
  BY FS_CardinalityType
<1> QED
  BY <1>1 DEF Covered

\* There are finitely many threads.
LEMMA ComingFinite == \A c : IsFiniteSet(Coming(c)) /\ IsFiniteSet(Coming(c)')
<1>1. \A c : Coming(c) \in SUBSET Thread /\ Coming(c)' \in SUBSET Thread
  BY DEF Coming
<1> QED
  BY <1>1, ThreadAssumption, FS_Subset

\* A step of thread t makes nobody else turn round.
LEMMA OthersComing ==
  ASSUME CoreInv, SigInv, NEW t \in Thread, OwnStep(t)
  PROVE  /\ \A c : Coming(c) \ {t} \subseteq Coming(c)'
         /\ \A c : op[t] # c \/ ~ Ready(t) => Coming(c) \subseteq Coming(c)'
<1>1. \A c : Coming(c) \ {t} \subseteq Coming(c)'
  BY OwnReady DEF Coming
<1> QED
  BY <1>1 DEF Coming

\* rt_thread_resume makes no list longer.
LEMMA ResumeShrinks ==
  ASSUME ThreadInv, NEW S, S \subseteq Thread, NEW p \in [Thread -> PC], Resume(S, p)
  PROVE  Shrinks
<1>1. Removed(S)
  BY ResumeFacts
<1> QED
  BY <1>1, EmptyList DEF Removed, Shrinks

\* The first thread that waits in a call is woken and comes.
LEMMA GivesOne ==
  ASSUME CoreInv, SigInv, WaitInv, NEW t \in Thread, OwnStep(t), NEW c \in RetryCalls,
         NEW p, Resume(First(ListOf(c)), p), error' = error,
         suspend_thread[ListOf(c)] # <<>>
  PROVE  \E x \in Coming(c)' : x \notin Coming(c)
<1>0. ThreadInv /\ ListOf(c) \in List /\ c \in Blocking
  BY ObjectLists DEF CoreInv
<1>1. PICK x \in First(ListOf(c)) : TRUE
  BY <1>0, FirstFacts
<1>2. x \in Thread /\ pc[x] = "wait" /\ ListOf(op[x]) = ListOf(c)
  BY <1>0, <1>1, FirstFacts
<1>3. op[x] = c
  <2>1. op[x] \in Blocking
    BY <1>0, <1>2, OpsAtFacts DEF ThreadInv, CallFits
  <2> QED
    BY <1>0, <1>2, <2>1, ListOfInjective
<1>4. x # t /\ op'[x] = c /\ sig'[x] \in {"none", "left"}
  BY <1>2, <1>3, OwnReady, WaitUnsignalled
<1>5. pc'[x] = "woken" /\ error'[x] = "EOK"
  BY <1>1, <1>2 DEF Resume, WaitInv
<1>6. x \in Coming(c)' /\ x \notin Coming(c)
  BY <1>2, <1>4, <1>5 DEF Coming, Ready
<1> QED
  BY <1>6

\* Nobody who comes for a call of Q turns round, and nobody waits in one who did not.
Elsewhere(Q) ==
  \A c \in Q : /\ Coming(c) \subseteq Coming(c)'
               /\ suspend_thread'[ListOf(c)] # <<>> => suspend_thread[ListOf(c)] # <<>>

\* Failed waits and detaches send nobody away.
LEMMA ThreadElsewhere ==
  ASSUME CoreInv, SigInv, NEW t \in Thread, OwnStep(t), ThreadStep(t)
  PROVE  Elsewhere(RetryCalls)
<1>1. ~ Ready(t)
  BY DEF ThreadStep, WaitFailed, DetachStart, Calling, ResumeAllTest, ResumeAllNext, DetachEnd,
     Ready
<1>2. \A c : Coming(c) \subseteq Coming(c)'
  BY <1>1, OthersComing
<1>3. Shrinks
  BY ThreadShrinks DEF CoreInv
<1> QED
  BY <1>2, <1>3, ObjectLists DEF Elsewhere, Shrinks

\* Nor do ticks, and signals only those who have not been woken for the object.
LEMMA InterruptElsewhere ==
  ASSUME Polite, CoreInv, SigInv,
         \/ Tick /\ UNCHANGED sigVars
         \/ \E t \in Thread : SignalStep(t)
         \/ UNCHANGED vars
  PROVE  Elsewhere(RetryCalls)
<1>0. ThreadInv
  BY DEF CoreInv
<1>a. /\ pc \in [Thread -> PC] /\ error \in [Thread -> Error]
  BY DEF CoreInv, ThreadInv, ThreadTypeOK
<1>1. op' = op /\ \A u \in Thread : Ready(u) => Ready(u)'
  <2>1. CASE Tick /\ UNCHANGED sigVars
    <3>1. op' = op /\ sig' = sig
      BY <2>1 DEF Tick, sigVars
    <3>2. \A u \in Thread : pc[u] # "wait" => pc'[u] = pc[u] /\ error'[u] = error[u]
      BY <1>0, <2>1, TickKind DEF Wakes
    <3> QED
      BY <3>1, <3>2 DEF Ready
  <2>2. ASSUME NEW t \in Thread, rt_thread_kill(t)
        PROVE  op' = op /\ \A u \in Thread : Ready(u) => Ready(u)'
    <3>1. /\ UNCHANGED <<op, error>> /\ pc[t] \in {"run", "wait"}
          /\ \A u \in Thread \ {t} : sig'[u] = sig[u] /\ pc'[u] = pc[u]
      BY <1>a, <2>2 DEF rt_thread_kill, Killable, Resume, SigInv
    <3> QED
      BY <3>1 DEF Ready
  <2>3. ASSUME NEW t \in Thread, _signal_entry(t)
        PROVE  op' = op /\ \A u \in Thread : Ready(u) => Ready(u)'
    <3>1. /\ pc[t] = "run" /\ UNCHANGED <<op, pc>>
          /\ \A u \in Thread \ {t} : error'[u] = error[u] /\ sig'[u] = sig[u]
      BY <1>a, <2>3 DEF _signal_entry, SigInv
    <3> QED
      BY <3>1 DEF Ready
  <2>4. ASSUME NEW t \in Thread, Schedule(t)
        PROVE  op' = op /\ \A u \in Thread : Ready(u) => Ready(u)'
    BY <2>4 DEF Schedule, threadVars, Ready
  <2>5. ASSUME NEW t \in Thread, ScheduleEnd(t)
        PROVE  op' = op /\ \A u \in Thread : Ready(u) => Ready(u)'
    <3>1. /\ UNCHANGED <<op, pc>> /\ sig'[t] = IF sig[t] = "pending" THEN "none" ELSE sig[t]
          /\ error'[t] = IF sig[t] = "pending" THEN "EINTR" ELSE error[t]
          /\ \A u \in Thread \ {t} : error'[u] = error[u] /\ sig'[u] = sig[u]
      BY <1>a, <2>5 DEF ScheduleEnd, SigInv
    <3> QED
      BY <3>1 DEF Ready
  <2>6. CASE UNCHANGED vars
    BY <2>6 DEF vars, threadVars, sigVars, Ready
  <2>7. ASSUME NEW t \in Thread, KillSelf(t)
        PROVE  op' = op /\ \A u \in Thread : Ready(u) => Ready(u)'
    <3>1. /\ pc[t] = "run" /\ UNCHANGED <<op, pc, sig>>
          /\ \A u \in Thread \ {t} : error'[u] = error[u]
      BY <1>a, <2>7 DEF KillSelf
    <3> QED
      BY <3>1 DEF Ready
  <2> QED
    BY <2>1, <2>2, <2>3, <2>4, <2>5, <2>6, <2>7 DEF SignalStep
<1>2. \A c : Coming(c) \subseteq Coming(c)'
  BY <1>1 DEF Coming
<1>3. Shrinks
  BY <1>0, InterruptShrinks
<1> QED
  BY <1>2, <1>3, ObjectLists DEF Elsewhere, Shrinks

\* A step apart from the calls of Q.
LEMMA ApartElsewhere ==
  ASSUME NEW Q, Q \subseteq RetryCalls, Apart(Q), sig' = sig
  PROVE  Elsewhere(Q)
<1>1. ASSUME NEW c \in Q PROVE Coming(c) \subseteq Coming(c)'
  BY <1>1 DEF Apart, Coming, Ready
<1> QED
  BY <1>1, ObjectLists DEF Elsewhere, Apart

\* A list of nobody is empty.
LEMMA NobodyWaits ==
  ASSUME NEW T, NEW s \in Seq(T), ToSet(s) = {}
  PROVE  s = <<>>
<1>1. Len(s) = 0
  <2>1. 1 \in 1 .. Len(s) => s[1] \in ToSet(s)
    BY DEF ToSet
  <2> QED
    BY <2>1
<1> QED
  BY <1>1

-----------------------------------------------------------------------------
(***************************************************************************)
(* Mailboxes.                                                              *)
(***************************************************************************)

\* MailboxWakeups, for the threads that no signal is going to stop.
MailboxCover ==
  /\ Covered(suspend_thread["mb"], entry, Coming("mb_recv"))
  /\ Covered(suspend_thread["mb_sender"], mb_size - entry, Coming("mb_send"))

\* The lists of the mailbox.
LEMMA MailboxLists ==
  /\ {"mb", "mb_sender"} \subseteq List /\ {"mb_send", "mb_recv"} \subseteq RetryCalls
  /\ ListOf("mb_recv") = "mb" /\ ListOf("mb_send") = "mb_sender"
  BY ListOps, ListOfFacts DEF RetryCalls

\* Every step of the mailbox wakes somebody for what it leaves there.
LEMMA MailboxCovers ==
  ASSUME CoreInv, MailboxInv, BackInv, MailboxCover, NEW t \in Thread, OwnStep(t), MailboxStep(t)
  PROVE  MailboxCover'
<1>0. ThreadInv /\ SigInv /\ WaitInv /\ UseInv /\ Free(t)
  BY DEF CoreInv, BackInv, OwnStep
<1>a. /\ pc \in [Thread -> PC] /\ suspend_thread \in [List -> Seq(Thread)]
      /\ "run" \in PC /\ "return" \in PC
  BY <1>0 DEF ThreadInv, ThreadTypeOK, PC
<1>n. /\ entry \in Int /\ mb_size \in Int /\ mb_size - entry \in Int
      /\ 0 <= entry /\ entry <= mb_size
  BY MailboxAssumption DEF MailboxInv
<1> DEFINE R  == Coming("mb_recv")
           S  == Coming("mb_send")
           R2 == Coming("mb_recv")'
           S2 == Coming("mb_send")'
<1>f. IsFiniteSet(R) /\ IsFiniteSet(S) /\ IsFiniteSet(R2) /\ IsFiniteSet(S2)
  BY ComingFinite
<1>r. /\ R \ {t} \subseteq R2 /\ (op[t] # "mb_recv" \/ ~Ready(t) => R \subseteq R2)
      /\ S \ {t} \subseteq S2 /\ (op[t] # "mb_send" \/ ~Ready(t) => S \subseteq S2)
  BY <1>0, OthersComing
<1> HIDE DEF R, S, R2, S2
<1>c. /\ Covered(suspend_thread["mb"], entry, R)
      /\ Covered(suspend_thread["mb_sender"], mb_size - entry, S)
  BY DEF MailboxCover, R, S
<1>g. ASSUME Covered(suspend_thread'["mb"], entry', R2),
             Covered(suspend_thread'["mb_sender"], mb_size - entry', S2)
      PROVE  MailboxCover'
  BY <1>g DEF MailboxCover, R2, S2
<1>l. ASSUME NEW l \in List, NEW p \in [Thread -> PC], Resume(First(l), p)
      PROVE  /\ suspend_thread'["mb"] # <<>> => suspend_thread["mb"] # <<>>
             /\ suspend_thread'["mb_sender"] # <<>> => suspend_thread["mb_sender"] # <<>>
  <2>1. First(l) \subseteq Thread
    BY <1>0, <1>l, FirstFacts
  <2>2. Shrinks
    BY <1>0, <1>l, <2>1, ResumeShrinks
  <2> QED
    BY <2>2, MailboxLists DEF Shrinks
<1>i. ASSUME entry' = entry + 1, NEW p \in [Thread -> PC], Resume(First("mb"), p),
             error' = error, op[t] # "mb_recv" \/ ~Ready(t)
      PROVE  MailboxCover'
  <2>1. /\ suspend_thread'["mb"] # <<>> => suspend_thread["mb"] # <<>>
        /\ suspend_thread'["mb_sender"] # <<>> => suspend_thread["mb_sender"] # <<>>
    BY <1>i, <1>l, MailboxLists
  <2>2. suspend_thread["mb"] # <<>> => \E x \in R2 : x \notin R
    BY <1>0, <1>i, MailboxLists, GivesOne DEF R, R2
  <2>3. entry' \in Int /\ entry' <= entry + 1
    BY <1>i, <1>n
  <2>4. mb_size - entry' \in Int /\ mb_size - entry' <= (mb_size - entry) - 1
    BY <1>i, <1>n
  <2>5. Covered(suspend_thread'["mb"], entry', R2)
    BY <1>c, <1>f, <1>i, <1>n, <1>r, <2>1, <2>2, <2>3, CoverGiven
  <2>6. Covered(suspend_thread'["mb_sender"], mb_size - entry', S2)
    BY <1>c, <1>f, <1>n, <1>r, <2>1, <2>4, CoverTaken
  <2> QED
    BY <1>g, <2>5, <2>6
<1>o. ASSUME entry' = entry - 1, NEW p \in [Thread -> PC], Resume(First("mb_sender"), p),
             error' = error, op[t] # "mb_send" \/ ~Ready(t)
      PROVE  MailboxCover'
  <2>1. /\ suspend_thread'["mb"] # <<>> => suspend_thread["mb"] # <<>>
        /\ suspend_thread'["mb_sender"] # <<>> => suspend_thread["mb_sender"] # <<>>
    BY <1>o, <1>l, MailboxLists
  <2>2. suspend_thread["mb_sender"] # <<>> => \E x \in S2 : x \notin S
    BY <1>0, <1>o, MailboxLists, GivesOne DEF S, S2
  <2>3. entry' \in Int /\ entry' <= entry - 1
    BY <1>o, <1>n
  <2>4. mb_size - entry' \in Int /\ mb_size - entry' <= (mb_size - entry) + 1
    BY <1>o, <1>n
  <2>5. Covered(suspend_thread'["mb"], entry', R2)
    BY <1>c, <1>f, <1>n, <1>r, <2>1, <2>3, CoverTaken
  <2>6. Covered(suspend_thread'["mb_sender"], mb_size - entry', S2)
    BY <1>c, <1>f, <1>n, <1>o, <1>r, <2>1, <2>2, <2>4, CoverGiven
  <2> QED
    BY <1>g, <2>5, <2>6
<1>s. ASSUME entry' = entry, entry = mb_size, suspend_thread'["mb"] = suspend_thread["mb"],
             op[t] # "mb_recv" \/ ~Ready(t)
      PROVE  MailboxCover'
  <2>1. Covered(suspend_thread'["mb"], entry', R2)
    BY <1>c, <1>f, <1>n, <1>r, <1>s, CoverKept
  <2>2. mb_size - entry' \in Int /\ mb_size - entry' <= 0
    BY <1>n, <1>s
  <2> QED
    BY <1>f, <1>g, <2>1, <2>2, CoverNone
<1>e. ASSUME entry' = entry, entry = 0,
             suspend_thread'["mb_sender"] = suspend_thread["mb_sender"],
             op[t] # "mb_send" \/ ~Ready(t)
      PROVE  MailboxCover'
  <2>1. mb_size - entry' \in Int /\ mb_size - entry' <= mb_size - entry
    BY <1>n, <1>e
  <2>2. Covered(suspend_thread'["mb_sender"], mb_size - entry', S2)
    BY <1>c, <1>f, <1>n, <1>r, <1>e, <2>1, CoverKept
  <2>3. Covered(suspend_thread'["mb"], entry', R2)
    BY <1>f, <1>n, <1>e, CoverNone
  <2> QED
    BY <1>g, <2>2, <2>3
<1>z. ASSUME entry' = 0, suspend_thread'["mb_sender"] = <<>>
      PROVE  MailboxCover'
  <2>1. mb_size - entry' \in Int /\ entry' \in Int /\ entry' <= 0
    BY <1>n, <1>z
  <2>2. Covered(suspend_thread'["mb"], entry', R2)
    BY <1>f, <2>1, CoverNone
  <2>3. Covered(suspend_thread'["mb_sender"], mb_size - entry', S2)
    BY <1>f, <1>z, <2>1, CoverNone
  <2> QED
    BY <1>g, <2>2, <2>3
<1>1. CASE rt_mb_init(t)
  <2>1. "mb" \notin exists /\ entry' = 0 /\ suspend_thread' = suspend_thread
    BY <1>1 DEF rt_mb_init, Creating, Emptied, threadVars
  <2>2. Waiters("mb_sender") = {}
    <3> SUFFICES ASSUME NEW u \in Waiters("mb_sender") PROVE FALSE
      OBVIOUS
    <3>1. \A c \in Blocking : ListOf(c) = "mb_sender" => c \in {"mb_send"}
      BY ListOfFacts DEF Blocking
    <3>2. u \in Thread /\ pc[u] = "wait" /\ op[u] \in {"mb_send"}
      BY <1>0, <3>1, MailboxLists, WaitersIn
    <3> QED
      BY <1>0, <2>1, <3>2, MailboxLists, ObjectOfFacts DEF UseInv
  <2>3. suspend_thread["mb_sender"] = <<>>
    BY <1>a, <2>2, MailboxLists, NobodyWaits DEF Waiters
  <2> QED
    BY <1>z, <2>1, <2>3
<1>2. ASSUME NEW m, Put(t, m), op[t] # "mb_recv" \/ ~Ready(t) PROVE MailboxCover'
  <2>1. /\ entry' = entry + 1 /\ error' = error
        /\ Resume(First("mb"), [pc EXCEPT ![t] = "run"])
    BY <1>2 DEF Put
  <2>2. [pc EXCEPT ![t] = "run"] \in [Thread -> PC]
    BY <1>a
  <2> QED
    BY <1>2, <1>i, <2>1, <2>2
<1>3. ASSUME Get(t), op[t] # "mb_send" \/ ~Ready(t) PROVE MailboxCover'
  <2>1. /\ entry' = entry - 1 /\ error' = error
        /\ Resume(First("mb_sender"), [pc EXCEPT ![t] = "return"])
    BY <1>3 DEF Get
  <2>2. [pc EXCEPT ![t] = "return"] \in [Thread -> PC]
    BY <1>a
  <2> QED
    BY <1>3, <1>o, <2>1, <2>2
<1>4. CASE MbRetry(t)
  <2>1. CASE t \in Retrying("mb_send") /\ entry < mb_size /\ Put(t, arg[t])
    BY <1>2, <2>1 DEF Retrying
  <2>2. CASE t \in Retrying("mb_recv") /\ entry > 0 /\ Get(t)
    BY <1>3, <2>2 DEF Retrying
  <2>3. CASE t \in Retrying("mb_send") /\ entry = mb_size /\ WaitAgain(t) /\ UNCHANGED mbVars
    <3>1. op[t] = "mb_send" /\ entry' = entry
      BY <2>3 DEF Retrying, mbVars
    <3>2. suspend_thread'["mb"] = suspend_thread["mb"]
      BY <1>a, <2>3, <3>1, MailboxLists DEF WaitAgain, Suspend
    <3> QED
      BY <1>s, <2>3, <3>1, <3>2
  <2>4. CASE t \in Retrying("mb_recv") /\ entry = 0 /\ WaitAgain(t) /\ UNCHANGED mbVars
    <3>1. op[t] = "mb_recv" /\ entry' = entry
      BY <2>4 DEF Retrying, mbVars
    <3>2. suspend_thread'["mb_sender"] = suspend_thread["mb_sender"]
      BY <1>a, <2>4, <3>1, MailboxLists DEF WaitAgain, Suspend
    <3> QED
      BY <1>e, <2>4, <3>1, <3>2
  <2> QED
    BY <1>4, <2>1, <2>2, <2>3, <2>4 DEF MbRetry
<1>q. pc[t] \in {"run", "return"} => ~ Ready(t)
  BY DEF Ready
<1>5. CASE MbReturn(t)
  <2>1. entry' = entry /\ suspend_thread' = suspend_thread /\ ~ Ready(t)
    BY <1>5, <1>q DEF MbReturn
  <2>2. Covered(suspend_thread'["mb"], entry', R2)
    BY <1>c, <1>f, <1>n, <1>r, <2>1, CoverKept
  <2>3. Covered(suspend_thread'["mb_sender"], mb_size - entry', S2)
    BY <1>c, <1>f, <1>n, <1>r, <2>1, CoverKept
  <2> QED
    BY <1>g, <2>2, <2>3
<1>6. CASE MbReset(t)
  <2> DEFINE W == Waiters("mb") \cup Waiters("mb_sender")
  <2>1. entry' = 0 /\ Resume(W, pc)
    BY <1>6 DEF MbReset, Emptied
  <2>2. W \subseteq Thread
    BY <1>0, MailboxLists, FirstFacts
  <2>3. Removed(W) /\ suspend_thread' \in [List -> Seq(Thread)]
    BY <1>0, <1>a, <2>1, <2>2, ResumeFacts
  <2>4. ToSet(suspend_thread'["mb_sender"]) = {}
    BY <2>3, MailboxLists DEF Removed, Waiters
  <2>5. suspend_thread'["mb_sender"] = <<>>
    BY <2>3, <2>4, MailboxLists, NobodyWaits
  <2> QED
    BY <1>z, <2>1, <2>5
<1>7. ASSUME NEW n \in Timeouts, MbRecv(t, n) PROVE MailboxCover'
  <2>0. ~ Ready(t)
    BY <1>7, <1>q DEF MbRecv, Calling
  <2>1. CASE entry = 0 /\ TimedWait(t, "mb_recv", NoArg, n) /\ UNCHANGED mbVars
    <3>1. entry' = entry /\ suspend_thread'["mb_sender"] = suspend_thread["mb_sender"]
      BY <1>a, <2>1, MailboxLists DEF TimedWait, Wait, Suspend, mbVars
    <3> QED
      BY <1>e, <2>0, <2>1, <3>1
  <2> QED
    BY <1>3, <1>7, <2>0, <2>1 DEF MbRecv
<1>8. ASSUME NEW n \in Timeouts, NEW m \in Msg, MbSend(t, m, n) PROVE MailboxCover'
  <2>0. ~ Ready(t)
    BY <1>8, <1>q DEF MbSend, Calling
  <2>1. CASE entry = mb_size /\ TimedWait(t, "mb_send", m, n) /\ UNCHANGED mbVars
    <3>1. entry' = entry /\ suspend_thread'["mb"] = suspend_thread["mb"]
      BY <1>a, <2>1, MailboxLists DEF TimedWait, Wait, Suspend, mbVars
    <3> QED
      BY <1>s, <2>0, <2>1, <3>1
  <2> QED
    BY <1>2, <1>8, <2>0, <2>1 DEF MbSend
<1>9. ASSUME NEW m \in Msg, rt_mb_urgent(t, m) PROVE MailboxCover'
  <2>1. /\ ~ Ready(t) /\ entry' = entry + 1 /\ error' = error
        /\ Resume(First("mb"), pc)
    BY <1>9, <1>q DEF rt_mb_urgent, Calling
  <2> QED
    BY <1>a, <1>i, <2>1
<1> QED
  BY <1>1, <1>4, <1>5, <1>6, <1>7, <1>8, <1>9 DEF MailboxStep

\* So does every step of the kernel.
LEMMA MailboxCoverNext ==
  ASSUME Polite, CoreInv, MailboxInv, BackInv, MailboxCover, [Next]_vars
  PROVE  MailboxCover'
<1>0. SigInv
  BY DEF BackInv
<1>1. ASSUME Elsewhere(MailboxWait), UNCHANGED mbVars PROVE MailboxCover'
  <2>1. entry' = entry /\ entry \in Int /\ mb_size - entry \in Int
    BY <1>1, MailboxAssumption DEF mbVars, MailboxInv
  <2>2. /\ Coming("mb_recv") \subseteq Coming("mb_recv")'
        /\ suspend_thread'["mb"] # <<>> => suspend_thread["mb"] # <<>>
        /\ Coming("mb_send") \subseteq Coming("mb_send")'
        /\ suspend_thread'["mb_sender"] # <<>> => suspend_thread["mb_sender"] # <<>>
    BY <1>1, MailboxLists DEF Elsewhere, MailboxWait
  <2>3. IsFiniteSet(Coming("mb_recv")') /\ IsFiniteSet(Coming("mb_send")')
    BY ComingFinite
  <2>4. Covered(suspend_thread'["mb"], entry, Coming("mb_recv")')
    BY <2>1, <2>2, <2>3, CoverKept DEF MailboxCover
  <2>5. Covered(suspend_thread'["mb_sender"], mb_size - entry, Coming("mb_send")')
    BY <2>1, <2>2, <2>3, CoverKept DEF MailboxCover
  <2> QED
    BY <2>1, <2>4, <2>5 DEF MailboxCover
<1>2. Elsewhere(RetryCalls) => Elsewhere(MailboxWait)
  BY MailboxLists DEF Elsewhere, MailboxWait
<1>3. ASSUME NEW t \in Thread, OwnStep(t) PROVE MailboxCover'
  <2>1. CASE ThreadStep(t) /\ UNCHANGED objectVars
    BY <1>0, <1>1, <1>2, <1>3, <2>1, ThreadElsewhere DEF objectVars
  <2>2. CASE MailboxStep(t)
    BY <1>3, <2>2, MailboxCovers
  <2>3. CASE UNCHANGED mbVars /\ Apart(MailboxWait)
    <3>1. sig' = sig /\ MailboxWait \subseteq RetryCalls
      BY <1>3 DEF OwnStep, Enter, MailboxWait, RetryCalls
    <3> QED
      BY <1>1, <2>3, <3>1, ApartElsewhere
  <2> QED
    BY <1>3, <2>1, <2>2, <2>3, OwnApart
<1>4. CASE Tick /\ UNCHANGED <<objectVars, sigVars>>
  BY <1>0, <1>1, <1>2, <1>4, InterruptElsewhere DEF objectVars
<1>5. ASSUME NEW t \in Thread, SignalStep(t), UNCHANGED objectVars PROVE MailboxCover'
  BY <1>0, <1>1, <1>2, <1>5, InterruptElsewhere DEF objectVars
<1>6. CASE UNCHANGED vars
  BY <1>0, <1>1, <1>2, <1>6, InterruptElsewhere DEF vars, objectVars
<1> QED
  BY <1>3, <1>4, <1>5, <1>6 DEF Next

\* In the beginning nobody waits.
LEMMA BackInit == Init => BackInv
  BY DEF Init, ThreadInit, SignalInit, BackInv, SigInv, WaitInv, UseInv, RetryCalls,
     HoldInv, InHand

\* Every step keeps what the proofs of the wakeups rest on.
LEMMA BackNext ==
  ASSUME Polite, CoreInv, BackInv, [Next]_vars
  PROVE  BackInv'
  BY SigNext, WaitNext, UseNext, HoldNext DEF BackInv

\* Who comes in a call that computes its timeout inside the section is woken.
LEMMA ComingRetrying ==
  ASSUME CoreInv, NEW c, c # "mp_alloc"
  PROVE  Coming(c) \subseteq Retrying(c)
<1>1. \A u \in Thread : pc[u] = "relock" => op[u] = "mp_alloc"
  BY OpsAtFacts DEF CoreInv, ThreadInv, CallFits
<1> QED
  BY <1>1 DEF Coming, Ready, Retrying

\* n units have as many woken threads on their way.
LEMMA CoveredBy ==
  ASSUME NEW s, NEW n \in Int, NEW R, NEW W, Covered(s, n, R), R \subseteq W, W \subseteq Thread
  PROVE  s # <<>> => n <= Cardinality(W)
<1>1. IsFiniteSet(W)
  BY ThreadAssumption, FS_Subset
<1>2. Covered(s, n, W)
  BY <1>1, CoverKept
<1> QED
  BY <1>2 DEF Covered

\* No wakeup is lost in a mailbox, for any number of threads, any size of the
\* mailbox and any timeouts: as long as a receiver waits, every message has a woken
\* receiver on its way to it, and as long as a sender waits, every free place has a
\* woken sender, although threads that did not wait may be faster, waits time out
\* and the mailbox may be reset or detached.
THEOREM MailboxWakeupsAlways == Polite => (Spec => []MailboxWakeups)
<1> SUFFICES ASSUME Polite PROVE Spec => []MailboxWakeups
  OBVIOUS
<1>1. Init => ChannelInv /\ BackInv /\ MailboxCover
  <2>1. Init => MailboxCover
    BY DEF Init, ThreadInit, List, MailboxCover, Covered
  <2> QED
    BY <2>1, ChannelInit, BackInit
<1>2. CoreInv /\ ChannelInv /\ BackInv /\ MailboxCover /\ [Next]_vars =>
        ChannelInv' /\ BackInv' /\ MailboxCover'
  BY ChannelNext, BackNext, MailboxCoverNext DEF ChannelInv
<1>3. CoreInv /\ ChannelInv /\ MailboxCover => MailboxWakeups
  <2> SUFFICES ASSUME CoreInv, ChannelInv, MailboxCover PROVE MailboxWakeups
    OBVIOUS
  <2>1. /\ Coming("mb_recv") \subseteq Retrying("mb_recv")
        /\ Coming("mb_send") \subseteq Retrying("mb_send")
    BY ComingRetrying
  <2>2. Retrying("mb_recv") \subseteq Thread /\ Retrying("mb_send") \subseteq Thread
    BY DEF Retrying
  <2>3. entry \in Int /\ mb_size - entry \in Int
    BY MailboxAssumption DEF ChannelInv, MailboxInv
  <2>4. suspend_thread["mb"] # <<>> => entry <= Cardinality(Retrying("mb_recv"))
    BY <2>1, <2>2, <2>3, CoveredBy DEF MailboxCover
  <2>5. suspend_thread["mb_sender"] # <<>> =>
          mb_size - entry <= Cardinality(Retrying("mb_send"))
    BY <2>1, <2>2, <2>3, CoveredBy DEF MailboxCover
  <2> QED
    BY <2>4, <2>5 DEF MailboxWakeups
<1> QED
  BY Core, <1>1, <1>2, <1>3, PTL DEF Spec

-----------------------------------------------------------------------------
(***************************************************************************)
(* Memory pools.                                                           *)
(***************************************************************************)

\* Only rt_mp_init and rt_mp_create make a memory pool, and only rt_mq_init and
\* rt_mq_create a message queue.
LEMMA Created ==
  ASSUME NEW t \in Thread, OwnStep(t)
  PROVE  /\ "mp" \in exists' => "mp" \in exists \/ MemPoolStep(t)
         /\ "mq" \in exists' => "mq" \in exists \/ MqStep(t)
<1>1. CASE ThreadStep(t)
  BY <1>1 DEF ThreadStep, WaitFailed, DetachStart, ResumeAllTest, ResumeAllNext, DetachEnd
<1>2. CASE SemStep(t)
  BY <1>2 DEF SemStep, rt_sem_init, Creating, TakeNow, TakeWait, Wait, TakeReturn,
              rt_sem_release, SemReset
<1>3. CASE EventStep(t)
  <2>1. rt_event_init(t) => exists' = exists \cup {"event"}
    BY DEF rt_event_init, Creating
  <2>2. RecvReturn(t) \/ EventReset(t) \/ (\E b : rt_event_send(t, b)) => exists' = exists
    BY DEF RecvReturn, EventReset, rt_event_send
  <2>3. (\E w, o : RecvNow(t, w, o) \/ \E n : RecvWait(t, w, o, n)) => exists' = exists
    BY DEF RecvNow, RecvWait, Wait
  <2>4. exists' = exists \/ exists' = exists \cup {"event"}
    BY <1>3, <2>1, <2>2, <2>3, Zenon DEF EventStep
  <2> QED
    BY <2>4
<1>4. CASE MqStep(t)
  <2>1. rt_mq_init(t) => exists' = exists \cup {"mq"}
    BY DEF rt_mq_init, Creating
  <2>2. MqReset(t) => exists' = exists
    BY DEF MqReset
  <2>3. MqRetry(t) => exists' = exists
    BY DEF MqRetry, WaitAgain, TakeNode, TakeMessage
  <2>4. SendCopy(t) \/ SendLink(t) \/ UrgentLink(t) \/ RecvCopy(t) \/ RecvFree(t) =>
          exists' = exists
    BY DEF SendCopy, SendLink, UrgentLink, Linked, RecvCopy, RecvFree
  <2>5. (\E n : MqRecv(t, n) \/ \E m : MqSend(t, m, n)) \/ (\E m : MqUrgent(t, m)) =>
          exists' = exists
    BY DEF MqRecv, MqSend, MqUrgent, TakeNode, TakeMessage, TimedWait, Wait
  <2> QED
    BY <1>4, <2>1, <2>2, <2>3, <2>4, <2>5 DEF MqStep
<1>5. CASE MailboxStep(t)
  BY <1>5 DEF MailboxStep, rt_mb_init, Creating, MbRetry, MbReturn, MbReset, MbRecv, MbSend,
              rt_mb_urgent, Put, Get, WaitAgain, TimedWait, Wait
<1>6. CASE CompletionStep(t)
  BY <1>6 DEF CompletionStep, rt_completion_init, Creating, CompletionTake, CompletionWait,
              Wait, CompletionReturn, DoneTest, DoneAct
<1>7. CASE WaitQueueStep(t)
  BY <1>7 DEF WaitQueueStep, rt_wqueue_init, Creating, WqueuePass, WqueueWait,
              WqueueWoken, WqueueReturn, rt_wqueue_wakeup
<1>8. CASE DataQueueStep(t)
  BY <1>8 DEF DataQueueStep, rt_data_queue_init, Creating, DqRetry, DqReturn, DqReset,
              DqResetLock, DqResetEnd, DqPop, DqPush, Push, Pop, Wait
<1>9. CASE MemPoolStep(t)
  BY <1>9 DEF MemPoolStep, rt_mp_init, Creating, MpTimeLeft, MpAgain, MpAlloc, rt_mp_free,
              TakeBlock, TimedWait, Wait
<1> QED
  BY <1>1, <1>2, <1>3, <1>4, <1>5, <1>6, <1>7, <1>8, <1>9 DEF OwnStep

\* The links that rt_mp_init makes go through every block once.
LEMMA AllBlocks ==
  /\ SetToSeq(Block) \in Seq(Block) /\ IsInjective(SetToSeq(Block))
  /\ ToSet(SetToSeq(Block)) = Block /\ Len(SetToSeq(Block)) = Cardinality(Block)
<1> DEFINE n == Cardinality(Block)
           s == SetToSeq(Block)
<1>1. n \in Nat /\ ExistsBijection(1 .. n, Block)
  BY BlockAssumption, FS_CardinalityType
<1>2. \E f \in [1 .. n -> Block] : IsInjective(f)
  BY <1>1 DEF ExistsBijection, Bijection, Injection
<1>3. s \in [1 .. n -> Block] /\ IsInjective(s)
  BY <1>2, Zenon DEF SetToSeq
<1> HIDE DEF s
<1>4. s \in Injection(1 .. n, Block)
  BY <1>3 DEF Injection
<1>5. Cardinality(1 .. n) = n
  <2>1. Cardinality(1 .. n) = IF 1 > n THEN 0 ELSE n - 1 + 1
    BY <1>1, FS_Interval
  <2> QED
    BY <1>1, <2>1
<1>6. s \in Surjection(1 .. n, Block)
  BY <1>4, <1>5, BlockAssumption, FS_Injection
<1> HIDE DEF n
<1>7. s \in Seq(Block) /\ Len(s) = n /\ DOMAIN s = 1 .. n
  BY <1>1, <1>3
<1>8. ToSet(s) = Block
  BY <1>3, <1>6, <1>7 DEF ToSet, Surjection
<1> QED
  BY <1>3, <1>7, <1>8 DEF s, n

\* The free blocks of a pool that exists: as many as the counter says, each once,
\* and none of those that the application has.
PoolInv ==
  /\ block_free_count \in Int
  /\ "mp" \in exists =>
       /\ block_list \in Seq(Block) /\ IsInjective(block_list)
       /\ block_free_count = Len(block_list)
       /\ held \subseteq Block /\ ToSet(block_list) = Block \ held

\* A block taken from the front.
LEMMA TakeKeeps ==
  ASSUME PoolInv, "mp" \in exists, block_free_count # 0, NEW t, TakeBlock(t)
  PROVE  PoolInv' /\ block_free_count' = block_free_count - 1
<1>1. /\ block_free_count' = block_free_count - 1
      /\ held' = held \cup {Head(block_list)} /\ block_list' = Tail(block_list)
  BY DEF TakeBlock
<1>2. /\ block_list \in Seq(Block) /\ IsInjective(block_list)
      /\ block_free_count = Len(block_list)
      /\ held \subseteq Block /\ ToSet(block_list) = Block \ held
  BY DEF PoolInv
<1>3. block_list # <<>> /\ Len(Tail(block_list)) = Len(block_list) - 1
  BY <1>2
<1>4. /\ Tail(block_list) \in Seq(Block) /\ IsInjective(Tail(block_list))
      /\ ToSet(Tail(block_list)) = ToSet(block_list) \ {Head(block_list)}
      /\ Head(block_list) \in Block
  BY <1>2, <1>3, TailFacts, HeadFacts
<1>5. Len(block_list) \in Nat
  BY <1>2
<1>6. ToSet(block_list') = Block \ held' /\ held' \subseteq Block
  BY <1>1, <1>2, <1>4
<1> QED
  BY <1>1, <1>2, <1>3, <1>4, <1>5, <1>6 DEF PoolInv

\* A block put back at the front.
LEMMA FreeKeeps ==
  ASSUME PoolInv, NEW t, NEW b \in Block, rt_mp_free(t, b)
  PROVE  PoolInv' /\ block_free_count' = block_free_count + 1
<1>1. /\ block_free_count' = block_free_count + 1
      /\ held' = held \ {b} /\ block_list' = <<b>> \o block_list
      /\ "mp" \in exists /\ b \in held
  BY DEF rt_mp_free, Calling
<1>2. /\ block_list \in Seq(Block) /\ IsInjective(block_list)
      /\ block_free_count = Len(block_list)
      /\ held \subseteq Block /\ ToSet(block_list) = Block \ held
  BY <1>1 DEF PoolInv
<1>3. /\ <<b>> \o block_list \in Seq(Block) /\ IsInjective(<<b>> \o block_list)
      /\ ToSet(<<b>> \o block_list) = ToSet(block_list) \cup {b}
  BY <1>1, <1>2, ConsFacts
<1>4. Len(<<b>> \o block_list) = Len(block_list) + 1 /\ Len(block_list) \in Nat
  BY <1>2
<1>5. ToSet(block_list') = Block \ held' /\ held' \subseteq Block
  BY <1>1, <1>2, <1>3
<1> QED
  BY <1>1, <1>2, <1>3, <1>4, <1>5 DEF PoolInv

\* PoolWakeups, for the threads that no signal is going to stop.
PoolCover == Covered(suspend_thread["mp"], block_free_count, Coming("mp_alloc"))

\* Every step of the memory pool keeps count of the blocks, and wakes a thread for
\* each that is freed.
LEMMA PoolCovers ==
  ASSUME CoreInv, BackInv, PoolInv, PoolCover, NEW t \in Thread, OwnStep(t), MemPoolStep(t)
  PROVE  PoolInv' /\ PoolCover'
<1>0. ThreadInv /\ SigInv /\ WaitInv /\ UseInv /\ HoldInv /\ Free(t)
  BY DEF CoreInv, BackInv, OwnStep
<1>a. /\ pc \in [Thread -> PC] /\ suspend_thread \in [List -> Seq(Thread)]
      /\ "mp" \in List /\ ListOf("mp_alloc") = "mp" /\ "mp_alloc" \in RetryCalls
  BY <1>0, ListOps, ListOfFacts DEF ThreadInv, ThreadTypeOK, RetryCalls
<1>n. block_free_count \in Int
  BY DEF PoolInv
<1> DEFINE R  == Coming("mp_alloc")
           R2 == Coming("mp_alloc")'
<1>f. IsFiniteSet(R) /\ IsFiniteSet(R2)
  BY ComingFinite
<1>r. R \ {t} \subseteq R2 /\ (op[t] # "mp_alloc" \/ ~Ready(t) => R \subseteq R2)
  BY <1>0, OthersComing
<1> HIDE DEF R, R2
<1>c. Covered(suspend_thread["mp"], block_free_count, R)
  BY DEF PoolCover, R
<1>g. ASSUME Covered(suspend_thread'["mp"], block_free_count', R2) PROVE PoolCover'
  BY <1>g DEF PoolCover, R2
<1>k. ASSUME UNCHANGED mpVars, exists' = exists PROVE PoolInv'
  BY <1>k DEF PoolInv, mpVars
<1>z. ASSUME block_free_count = 0, UNCHANGED mpVars PROVE PoolCover'
  <2>1. block_free_count' \in Int /\ block_free_count' <= 0
    BY <1>z DEF mpVars
  <2> QED
    BY <1>f, <1>g, <2>1, CoverNone
<1>t. ASSUME "mp" \in exists, block_free_count # 0, TakeBlock(t) PROVE PoolInv' /\ PoolCover'
  <2>1. PoolInv' /\ block_free_count' = block_free_count - 1
    BY <1>t, TakeKeeps
  <2>2. suspend_thread' = suspend_thread
    BY <1>t DEF TakeBlock
  <2>3. block_free_count' \in Int /\ block_free_count' <= block_free_count - 1
    BY <1>n, <2>1
  <2>4. Covered(suspend_thread'["mp"], block_free_count', R2)
    BY <1>c, <1>f, <1>n, <1>r, <2>2, <2>3, CoverTaken
  <2> QED
    BY <1>g, <2>1, <2>4
<1>1. CASE rt_mp_init(t)
  <2>1. /\ "mp" \notin exists /\ suspend_thread' = suspend_thread
        /\ block_list' = SetToSeq(Block) /\ block_free_count' = Cardinality(Block)
        /\ held' = {}
    BY <1>1 DEF rt_mp_init, Creating, threadVars
  <2>2. block_free_count' \in Int
    BY <2>1, BlockAssumption, FS_CardinalityType
  <2>3. PoolInv'
    BY <2>1, <2>2, AllBlocks DEF PoolInv
  <2>4. Waiters("mp") = {}
    <3> SUFFICES ASSUME NEW u \in Waiters("mp") PROVE FALSE
      OBVIOUS
    <3>1. \A c \in Blocking : ListOf(c) = "mp" => c \in {"mp_alloc"}
      BY ListOfFacts DEF Blocking
    <3>2. u \in Thread /\ pc[u] = "wait" /\ op[u] \in {"mp_alloc"}
      BY <1>0, <1>a, <3>1, WaitersIn
    <3> QED
      BY <1>0, <1>a, <2>1, <3>2, ObjectOfFacts DEF UseInv
  <2>5. suspend_thread["mp"] = <<>>
    BY <1>a, <2>4, NobodyWaits DEF Waiters
  <2>6. Covered(suspend_thread'["mp"], block_free_count', R2)
    BY <1>f, <2>1, <2>2, <2>5, CoverNone
  <2> QED
    BY <1>g, <2>3, <2>6
<1>2. CASE MpTimeLeft(t)
  <2>1. /\ t \in Retrying("mp_alloc") /\ pc' = [pc EXCEPT ![t] = "relock"]
        /\ UNCHANGED <<op, suspend_thread, mpVars, exists>>
    BY <1>2 DEF MpTimeLeft
  <2>2. t \in R2
    BY <1>a, <2>1 DEF R2, Coming, Ready, Retrying
  <2>3. block_free_count' = block_free_count /\ R \subseteq R2
    BY <1>r, <2>1, <2>2 DEF mpVars
  <2>4. Covered(suspend_thread'["mp"], block_free_count', R2)
    BY <1>c, <1>f, <1>n, <2>1, <2>3, CoverKept
  <2> QED
    BY <1>g, <1>k, <2>1, <2>4
<1>3. CASE MpAgain(t)
  <2>1. pc[t] = "relock" /\ op[t] = "mp_alloc"
    BY <1>0, <1>3, OpsAtFacts DEF MpAgain, ThreadInv, CallFits
  <2>2. On(t, "mp")
    BY <2>1, ObjectOfFacts DEF On, RetryCalls, Ready
  <2>3. "mp" \in exists
    BY <1>0, <2>2, OnFree
  <2>4. CASE block_free_count > 0 /\ TakeBlock(t)
    <3>1. block_free_count # 0
      BY <1>n, <2>4
    <3> QED
      BY <1>t, <2>3, <2>4, <3>1
  <2>5. CASE block_free_count = 0 /\ UNCHANGED mpVars /\ exists' = exists
    BY <1>k, <1>z, <2>5
  <2> QED
    BY <1>3, <2>4, <2>5 DEF MpAgain
<1>4. ASSUME NEW n \in Timeouts, MpAlloc(t, n) PROVE PoolInv' /\ PoolCover'
  <2>1. CASE block_free_count = 0
    <3>1. UNCHANGED mpVars /\ exists' = exists
      BY <1>4, <2>1 DEF MpAlloc, TimedWait, Wait
    <3> QED
      BY <1>k, <1>z, <2>1, <3>1
  <2>2. CASE block_free_count # 0
    BY <1>4, <1>t, <2>2 DEF MpAlloc, Calling
  <2> QED
    BY <2>1, <2>2
<1>5. ASSUME NEW b \in Block, rt_mp_free(t, b) PROVE PoolInv' /\ PoolCover'
  <2>1. PoolInv' /\ block_free_count' = block_free_count + 1
    BY <1>5, FreeKeeps
  <2>2. Resume(First("mp"), pc) /\ error' = error /\ pc[t] = "run"
    BY <1>5 DEF rt_mp_free, Calling
  <2>3. R \subseteq R2
    BY <1>r, <2>2 DEF Ready
  <2>4. suspend_thread["mp"] # <<>> => \E x \in R2 : x \notin R
    BY <1>0, <1>a, <2>2, GivesOne DEF R, R2
  <2>5. suspend_thread'["mp"] # <<>> => suspend_thread["mp"] # <<>>
    <3>1. First("mp") \subseteq Thread
      BY <1>0, <1>a, FirstFacts
    <3>2. Shrinks
      BY <1>0, <1>a, <2>2, <3>1, ResumeShrinks
    <3> QED
      BY <1>a, <3>2 DEF Shrinks
  <2>6. block_free_count' \in Int /\ block_free_count' <= block_free_count + 1
    BY <1>n, <2>1
  <2>7. Covered(suspend_thread'["mp"], block_free_count', R2)
    BY <1>c, <1>f, <1>n, <2>3, <2>4, <2>5, <2>6, CoverGiven
  <2> QED
    BY <1>g, <2>1, <2>7
<1> QED
  BY <1>1, <1>2, <1>3, <1>4, <1>5 DEF MemPoolStep

\* So does every step of the kernel.
LEMMA PoolNext ==
  ASSUME Polite, CoreInv, BackInv, PoolInv, PoolCover, [Next]_vars
  PROVE  PoolInv' /\ PoolCover'
<1>0. SigInv /\ ThreadInv
  BY DEF BackInv, CoreInv
<1>1. ASSUME Elsewhere(MemPoolWait), UNCHANGED mpVars, "mp" \in exists' => "mp" \in exists
      PROVE  PoolInv' /\ PoolCover'
  <2>1. block_free_count' = block_free_count /\ block_free_count \in Int /\ PoolInv'
    BY <1>1 DEF mpVars, PoolInv
  <2>2. /\ Coming("mp_alloc") \subseteq Coming("mp_alloc")'
        /\ suspend_thread'["mp"] # <<>> => suspend_thread["mp"] # <<>>
    BY <1>1, ListOfFacts DEF Elsewhere, MemPoolWait
  <2>3. IsFiniteSet(Coming("mp_alloc")')
    BY ComingFinite
  <2>4. Covered(suspend_thread'["mp"], block_free_count, Coming("mp_alloc")')
    BY <2>1, <2>2, <2>3, CoverKept DEF PoolCover
  <2> QED
    BY <2>1, <2>4 DEF PoolCover
<1>2. MemPoolWait \subseteq RetryCalls /\ (Elsewhere(RetryCalls) => Elsewhere(MemPoolWait))
  BY DEF Elsewhere, MemPoolWait, RetryCalls
<1>3. ASSUME NEW t \in Thread, OwnStep(t) PROVE PoolInv' /\ PoolCover'
  <2>1. CASE MemPoolStep(t)
    BY <1>3, <2>1, PoolCovers
  <2>2. CASE ~ MemPoolStep(t)
    <3>1. "mp" \in exists' => "mp" \in exists
      BY <1>3, <2>2, Created
    <3>2. CASE ThreadStep(t) /\ UNCHANGED objectVars
      BY <1>0, <1>1, <1>2, <1>3, <3>1, <3>2, ThreadElsewhere DEF objectVars
    <3>3. CASE UNCHANGED mpVars /\ Apart(MemPoolWait)
      <4>1. sig' = sig
        BY <1>3 DEF OwnStep, Enter
      <4> QED
        BY <1>1, <1>2, <3>1, <3>3, <4>1, ApartElsewhere
    <3> QED
      BY <1>3, <2>2, <3>2, <3>3, OwnApart
  <2> QED
    BY <2>1, <2>2
<1>4. CASE Tick /\ UNCHANGED <<objectVars, sigVars>>
  <2>1. exists' = exists
    BY <1>4 DEF Tick
  <2> QED
    BY <1>0, <1>1, <1>2, <1>4, <2>1, InterruptElsewhere DEF objectVars
<1>5. ASSUME NEW t \in Thread, SignalStep(t), UNCHANGED objectVars PROVE PoolInv' /\ PoolCover'
  <2>1. exists' = exists
    BY <1>0, <1>5, SignalKind
  <2> QED
    BY <1>0, <1>1, <1>2, <1>5, <2>1, InterruptElsewhere DEF objectVars
<1>6. CASE UNCHANGED vars
  BY <1>0, <1>1, <1>2, <1>6, InterruptElsewhere DEF vars, objectVars
<1> QED
  BY <1>3, <1>4, <1>5, <1>6 DEF Next

\* No wakeup is lost in a memory pool, for any number of threads and blocks: as long
\* as a thread waits, every free block has a woken thread on its way to it, be it
\* before or after it has computed the rest of its timeout.  And the list of free
\* blocks has as many as the counter says, so that the RT_ASSERT in rt_mp_alloc
\* finds one.
THEOREM PoolWakeupsAlways == Polite => (Spec => []PoolWakeups)
<1> SUFFICES ASSUME Polite PROVE Spec => []PoolWakeups
  OBVIOUS
<1>1. Init => BackInv /\ PoolInv /\ PoolCover
  <2>1. Init => PoolInv /\ PoolCover
    BY DEF Init, ThreadInit, MemPoolInit, List, PoolInv, PoolCover, Covered
  <2> QED
    BY <2>1, BackInit
<1>2. CoreInv /\ BackInv /\ PoolInv /\ PoolCover /\ [Next]_vars =>
        BackInv' /\ PoolInv' /\ PoolCover'
  BY BackNext, PoolNext
<1>3. PoolInv /\ PoolCover => PoolWakeups
  <2> SUFFICES ASSUME PoolInv, PoolCover PROVE PoolWakeups
    OBVIOUS
  <2> DEFINE W == Retrying("mp_alloc") \cup {t \in Thread : pc[t] = "relock"}
  <2>1. Coming("mp_alloc") \subseteq W /\ W \subseteq Thread
    BY DEF Coming, Ready, Retrying
  <2>2. block_free_count \in Int
    BY DEF PoolInv
  <2> HIDE DEF W
  <2>3. suspend_thread["mp"] # <<>> => block_free_count <= Cardinality(W)
    BY <2>1, <2>2, CoveredBy DEF PoolCover
  <2> QED
    BY <2>3 DEF PoolInv, PoolWakeups, W
<1> QED
  BY Core, <1>1, <1>2, <1>3, PTL DEF Spec

-----------------------------------------------------------------------------
(***************************************************************************)
(* Data queues.                                                            *)
(***************************************************************************)

DataQueueWait == {"dq_push", "dq_pop"}

\* Nobody is resetting the data queue.
NoReset == \A t \in Thread : op[t] # "dq_reset"

\* Once a reset has locked the scheduler, who waits stands in a list that it is
\* still going to empty.
ResetInv ==
  \A t \in Thread : op[t] = "dq_reset" /\ pc[t] # "lock" =>
    \A u \in Thread : op[u] \in DataQueueWait /\ pc[u] = "wait" =>
      ListOf(op[u]) \in ToSet(lists[t])

\* The lists of the data queue.
LEMMA DataQueueLists ==
  /\ {"dq_push", "dq_pop"} \subseteq List /\ DataQueueWait \subseteq RetryCalls
  /\ {"dq_push", "dq_pop"} \subseteq RetryCalls
  /\ ListOf("dq_pop") = "dq_pop" /\ ListOf("dq_push") = "dq_push"
  /\ DataQueueWait \subseteq Blocking
  BY ListOps, ListOfFacts DEF RetryCalls, DataQueueWait, Blocking

\* A step of a thread is a step of the data queue, one that is about no object in
\* particular, or one that is apart from the data queue.
LEMMA DataQueueApart ==
  ASSUME CoreInv, NEW t \in Thread, OwnStep(t)
  PROVE  \/ ThreadStep(t) /\ UNCHANGED objectVars
         \/ DataQueueStep(t)
         \/ /\ UNCHANGED dqVars /\ Apart(DataQueueWait)
            /\ op[t] # "dq_reset" /\ op'[t] # "dq_reset"
<1>0. ThreadInv /\ EventType /\ NodesInv
  BY DEF CoreInv
<1> DEFINE Goal == /\ Apart(DataQueueWait)
                   /\ op[t] # "dq_reset" /\ op'[t] # "dq_reset"
<1>1. ASSUME NEW P, Steps(t, P), P \cap {"detach", "dq_push", "dq_pop", "dq_reset"} = {}
      PROVE  Goal
  <2>1. "detach" \notin P /\ P \cap DataQueueWait = {} /\ "dq_reset" \notin P
    BY <1>1 DEF DataQueueWait
  <2>2. Apart(DataQueueWait)
    BY <1>1, <2>1, DataQueueLists, StepsApart
  <2> QED
    BY <1>0, <1>1, <2>1, <2>2, StepsFacts
<1>2. \A P \in {SemOps, EventOps, MailboxOps, MqOps, MemPoolOps, CompletionOps, WaitQueueOps} :
        P \cap {"detach", "dq_push", "dq_pop", "dq_reset"} = {}
  BY DEF SemOps, EventOps, MailboxOps, MqOps, MemPoolOps, CompletionOps, WaitQueueOps
<1>3. CASE /\ \/ SemStep(t) \/ EventStep(t) \/ MailboxStep(t) \/ MqStep(t)
              \/ MemPoolStep(t) \/ CompletionStep(t) \/ WaitQueueStep(t)
           /\ UNCHANGED dqVars
  <2>1. PICK P \in {SemOps, EventOps, MailboxOps, MqOps, MemPoolOps, CompletionOps,
                   WaitQueueOps} : Steps(t, P)
    BY <1>0, <1>3, SemKind, EventKind, MailboxKind, MqKind, MemPoolKind, CompletionKind,
       WaitQueueKind
  <2>2. P \cap {"detach", "dq_push", "dq_pop", "dq_reset"} = {}
    BY <1>2
  <2> QED
    BY <1>1, <1>3, <2>1, <2>2
<1> QED
  BY <1>3 DEF OwnStep

\* A reset that has locked the scheduler goes on to empty its lists.
LEMMA ResetNext ==
  ASSUME CoreInv, SigInv, ResetInv, [Next]_vars
  PROVE  ResetInv'
<1>0. ThreadInv
  BY DEF CoreInv
<1>a. /\ pc \in [Thread -> PC] /\ op \in [Thread -> Op]
      /\ lists \in [Thread -> Seq(DetachList)]
  BY <1>0 DEF ThreadInv, ThreadTypeOK
<1>b. \A u \in Thread : op[u] = "dq_reset" => pc[u] # "wait"
  BY <1>0, OpsAtFacts DEF ThreadInv, CallFits, Blocking
<1>1. ASSUME NEW t \in Thread, OwnStep(t) PROVE ResetInv'
  <2>1. \A r \in Thread \ {t} : op'[r] = "dq_reset" => pc'[r] = "lock"
    BY <1>1, <1>b, OwnOthers DEF OwnStep, Unlocked
  <2>2. \A u \in Thread \ {t} : op'[u] = op[u] /\ (pc'[u] = "wait" => pc[u] = "wait")
    BY <1>1, OwnReady
  <2> DEFINE Kept2 == \A u \in Thread : op'[u] \in DataQueueWait /\ pc'[u] = "wait" =>
                        ListOf(op'[u]) \in ToSet(lists'[t])
  <2>3. ASSUME op'[t] = "dq_reset" /\ pc'[t] # "lock" => Kept2 PROVE ResetInv'
    BY <2>1, <2>3 DEF ResetInv
  <2>4. ASSUME op'[t] = "dq_reset",
               \A u \in Thread \ {t} : op[u] \in DataQueueWait /\ pc[u] = "wait" =>
                 ListOf(op[u]) \in ToSet(lists'[t])
        PROVE  Kept2
    BY <2>2, <2>4 DEF DataQueueWait
  <2> HIDE DEF Kept2
  <2>5. CASE ThreadStep(t)
    <3>1. CASE WaitFailed(t) \/ DetachEnd(t)
      <4>1. op'[t] = "none"
        BY <1>a, <3>1 DEF WaitFailed, DetachEnd, Returned
      <4> QED
        BY <2>3, <4>1
    <3>2. ASSUME NEW o, DetachStart(t, o) PROVE ResetInv'
      <4>1. op'[t] = "detach"
        BY <1>a, <3>2 DEF DetachStart
      <4> QED
        BY <2>3, <4>1
    <3>3. CASE ResumeAllNext(t)
      <4>1. pc[t] = "resume" /\ UNCHANGED <<op, lists>>
        BY <3>3 DEF ResumeAllNext
      <4>2. op'[t] = "dq_reset" => Kept2
        BY <2>4, <4>1 DEF ResetInv
      <4> QED
        BY <2>3, <4>2
    <3>4. CASE ResumeAllTest(t)
      <4>1. pc[t] = "test" /\ op' = op /\ lists[t] # <<>>
        BY <3>4 DEF ResumeAllTest
      <4>2. ASSUME op[t] = "dq_reset", NEW u \in Thread \ {t}, op[u] \in DataQueueWait,
                   pc[u] = "wait"
            PROVE  ListOf(op[u]) \in ToSet(lists'[t])
        <5>1. ListOf(op[u]) \in ToSet(lists[t])
          BY <4>1, <4>2 DEF ResetInv
        <5>2. suspend_thread[ListOf(op[u])] # <<>>
          <6>1. ListOf(op[u]) \in List
            BY <4>2, DataQueueLists, ObjectLists
          <6>2. u \in Waiters(ListOf(op[u]))
            BY <1>0, <4>2, <6>1 DEF ThreadInv, SuspendedListed
          <6> QED
            BY <6>2, EmptyList DEF Waiters
        <5>3. lists'[t] \in {lists[t], Tail(lists[t])}
          BY <1>a, <3>4 DEF ResumeAllTest
        <5>4. CASE lists'[t] = Tail(lists[t]) /\ lists'[t] # lists[t]
          <6>1. suspend_thread[Head(lists[t])] = <<>>
            BY <3>4, <5>4 DEF ResumeAllTest
          <6>2. ListOf(op[u]) # Head(lists[t])
            BY <5>2, <6>1
          <6> QED
            BY <1>a, <4>1, <5>1, <5>4, <6>2, InTail
        <5> QED
          BY <5>1, <5>3, <5>4
      <4>3. op'[t] = "dq_reset" => Kept2
        BY <2>4, <4>1, <4>2
      <4> QED
        BY <2>3, <4>3
    <3> QED
      BY <2>5, <3>1, <3>2, <3>3, <3>4 DEF ThreadStep
  <2>6. CASE DataQueueStep(t)
    <3>1. CASE DqResetLock(t)
      <4>1. lists'[t] = ListsOf("dq")
        BY <1>a, <3>1 DEF DqResetLock
      <4>2. \A c \in DataQueueWait : ListOf(c) \in ToSet(ListsOf("dq"))
        BY DataQueueLists, ObjectLists, ObjectOfFacts DEF DataQueueWait
      <4> QED
        BY <2>3, <2>4, <4>1, <4>2
    <3>2. ASSUME pc[t] \in {"run", "woken", "return"}, op' = op PROVE ResetInv'
      <4>1. op[t] # "dq_reset"
        BY <1>0, <3>2, OpsAtFacts DEF ThreadInv, CallFits, Blocking
      <4> QED
        BY <2>3, <3>2, <4>1
    <3>3. ASSUME Returned(t) PROVE ResetInv'
      <4>1. op'[t] = "none"
        BY <1>a, <3>3 DEF Returned
      <4> QED
        BY <2>3, <4>1
    <3>4. CASE rt_data_queue_init(t) \/ DqReturn(t)
      BY <3>2, <3>4 DEF rt_data_queue_init, Creating, threadVars, DqReturn
    <3>5. CASE DqResetEnd(t)
      BY <3>3, <3>5 DEF DqResetEnd
    <3>6. CASE DqReset(t)
      <4>1. pc'[t] = "lock"
        BY <1>a, <3>6 DEF DqReset
      <4> QED
        BY <2>3, <4>1
    <3>7. CASE DqRetry(t)
      <4>1. \/ Returned(t)
            \/ pc[t] = "woken" /\ op' = op
        BY <3>7 DEF DqRetry, Retrying, Push, Pop
      <4> QED
        BY <3>2, <3>3, <4>1
    <3>8. ASSUME NEW c \in DataQueueWait, NEW a, NEW l, NEW n, Wait(t, c, a, l, n)
          PROVE  ResetInv'
      <4>1. op'[t] = c /\ c # "dq_reset"
        BY <1>a, <3>8 DEF Wait, DataQueueWait
      <4> QED
        BY <2>3, <4>1
    <3>9. ASSUME NEW n, DqPop(t, n) \/ \E m : DqPush(t, m, n) PROVE ResetInv'
      <4>1. \/ Returned(t)
            \/ \E c \in DataQueueWait : \E a, l : Wait(t, c, a, l, n)
        BY <3>9, Zenon DEF DqPop, DqPush, Push, Pop, DataQueueWait
      <4> QED
        BY <3>3, <3>8, <4>1
    <3> QED
      BY <2>6, <3>1, <3>4, <3>5, <3>6, <3>7, <3>9 DEF DataQueueStep
  <2> QED
    BY <1>1, <2>3, <2>5, <2>6, DataQueueApart
<1>2. ASSUME UNCHANGED <<op, lists>>,
             \A u \in Thread : pc[u] # "wait" => pc'[u] = pc[u],
             \A u \in Thread : pc'[u] = "wait" => pc[u] = "wait"
      PROVE  ResetInv'
  <2>1. \A t \in Thread : op'[t] = "dq_reset" /\ pc'[t] # "lock" =>
          op[t] = "dq_reset" /\ pc[t] # "lock" /\ lists'[t] = lists[t]
    BY <1>2, <1>b
  <2>2. \A u \in Thread : op'[u] \in DataQueueWait /\ pc'[u] = "wait" =>
          op[u] \in DataQueueWait /\ pc[u] = "wait" /\ op'[u] = op[u]
    BY <1>2
  <2> QED
    BY <2>1, <2>2 DEF ResetInv
<1>3. CASE Tick
  <2>1. /\ \A u \in Thread : pc[u] # "wait" => pc'[u] = pc[u]
        /\ \A u \in Thread : pc'[u] = "wait" => pc[u] = "wait"
    BY <1>0, <1>3, TickKind DEF Wakes
  <2> QED
    BY <1>2, <1>3, <2>1 DEF Tick
<1>4. ASSUME NEW t \in Thread, SignalStep(t) PROVE ResetInv'
  <2>1. UNCHANGED <<op, lists>>
    BY <1>0, <1>4, SignalKind
  <2>2. /\ \A u \in Thread : pc[u] # "wait" => pc'[u] = pc[u]
        /\ \A u \in Thread : pc'[u] = "wait" => pc[u] = "wait"
    BY <1>0, <1>4, SignalKind DEF Wakes
  <2> QED
    BY <1>2, <2>1, <2>2
<1>5. CASE UNCHANGED vars
  BY <1>2, <1>5 DEF vars, threadVars
<1> QED
  BY <1>1, <1>3, <1>4, <1>5 DEF Next

\* DataQueueWakeups, for the threads that no signal is going to stop.
DataQueueCover ==
  /\ Covered(suspend_thread["dq_pop"], rt_data_queue_len, Coming("dq_pop"))
  /\ NoReset => Covered(suspend_thread["dq_push"], lwm + 1 - rt_data_queue_len,
                        Coming("dq_push"))

\* The number of items, and what the flags say of it.
LEMMA DataQueueLen ==
  ASSUME DataInv
  PROVE  /\ rt_data_queue_len \in 0 .. dq_size
         /\ is_empty <=> rt_data_queue_len = 0
         /\ is_full <=> rt_data_queue_len = dq_size
<1>1. rt_data_queue_len = LenOf(get_index, put_index, is_empty)
  BY DEF LenOf, rt_data_queue_len
<1>2. Far(get_index, put_index, is_empty, is_full)
  BY DEF DataInv, Far
<1> QED
  BY <1>1, <1>2, LenFacts

\* A push makes it one more.
LEMMA PushLen ==
  ASSUME DataInv, NEW t, NEW m, ~is_full, Push(t, m)
  PROVE  rt_data_queue_len' = rt_data_queue_len + 1
<1>1. /\ rt_data_queue_len = LenOf(get_index, put_index, is_empty)
      /\ rt_data_queue_len' = LenOf(get_index', put_index', is_empty')
  BY DEF LenOf, rt_data_queue_len
<1>2. Far(get_index, put_index, is_empty, is_full)
  BY DEF DataInv, Far
<1>3. /\ put_index' = Following(put_index) /\ get_index' = get_index
      /\ is_empty' \in BOOLEAN /\ ~is_empty'
      /\ is_full' \in BOOLEAN /\ (is_full' <=> is_full \/ put_index' = get_index)
  BY DEF Push
<1>4. LenOf(get_index, put_index', is_empty') = LenOf(get_index, put_index, is_empty) + 1
  BY <1>2, <1>3, LenPut
<1> QED
  BY <1>1, <1>3, <1>4

\* A pop makes it one less.
LEMMA PopLen ==
  ASSUME DataInv, NEW t, ~is_empty, Pop(t)
  PROVE  rt_data_queue_len' = rt_data_queue_len - 1
<1>1. /\ rt_data_queue_len = LenOf(get_index, put_index, is_empty)
      /\ rt_data_queue_len' = LenOf(get_index', put_index', is_empty')
  BY DEF LenOf, rt_data_queue_len
<1>2. Far(get_index, put_index, is_empty, is_full)
  BY DEF DataInv, Far
<1>3. /\ get_index' = Following(get_index) /\ put_index' = put_index
      /\ is_full' \in BOOLEAN /\ ~is_full'
      /\ is_empty' \in BOOLEAN /\ (is_empty' <=> is_empty \/ put_index = get_index')
  BY DEF Pop
<1>4. LenOf(get_index', put_index, is_empty') = LenOf(get_index, put_index, is_empty) - 1
  BY <1>2, <1>3, LenGet
<1> QED
  BY <1>1, <1>3, <1>4

\* Every step of the data queue wakes somebody for what it leaves there.
LEMMA DataQueueCovers ==
  ASSUME CoreInv, DataInv, BackInv, ResetInv, DataQueueCover,
         NEW t \in Thread, OwnStep(t), DataQueueStep(t)
  PROVE  DataQueueCover'
<1>0. ThreadInv /\ SigInv /\ WaitInv /\ UseInv /\ HoldInv /\ Free(t)
  BY DEF CoreInv, BackInv, OwnStep
<1>a. /\ pc \in [Thread -> PC] /\ op \in [Thread -> Op]
      /\ suspend_thread \in [List -> Seq(Thread)]
      /\ "run" \in PC /\ "return" \in PC
  BY <1>0 DEF ThreadInv, ThreadTypeOK, PC
<1> DEFINE n == rt_data_queue_len
           k == rt_data_queue_len'
<1>n. /\ n \in Int /\ 0 <= n /\ n <= dq_size /\ lwm + 1 - n \in Int /\ lwm + 1 <= dq_size
      /\ lwm \in Int /\ dq_size \in Int
      /\ (is_empty <=> n = 0) /\ (is_full <=> n = dq_size)
  <2> HIDE DEF n
  <2>1. /\ n \in 0 .. dq_size /\ (is_empty <=> n = 0) /\ (is_full <=> n = dq_size)
    BY DataQueueLen DEF n
  <2> QED
    BY <2>1, DataQueueAssumption
<1>d. UNCHANGED dqVars => k = n
  BY DEF dqVars, rt_data_queue_len
<1>e. Drained => k = 0
  BY DEF Drained, rt_data_queue_len
<1> DEFINE R  == Coming("dq_pop")
           S  == Coming("dq_push")
           R2 == Coming("dq_pop")'
           S2 == Coming("dq_push")'
<1>f. IsFiniteSet(R) /\ IsFiniteSet(S) /\ IsFiniteSet(R2) /\ IsFiniteSet(S2)
  BY ComingFinite
<1>r. /\ R \ {t} \subseteq R2 /\ (op[t] # "dq_pop" \/ ~Ready(t) => R \subseteq R2)
      /\ S \ {t} \subseteq S2 /\ (op[t] # "dq_push" \/ ~Ready(t) => S \subseteq S2)
  BY <1>0, OthersComing
<1> HIDE DEF R, S, R2, S2
<1>c. /\ Covered(suspend_thread["dq_pop"], n, R)
      /\ NoReset => Covered(suspend_thread["dq_push"], lwm + 1 - n, S)
  BY DEF DataQueueCover, R, S
<1>g. ASSUME Covered(suspend_thread'["dq_pop"], k, R2),
             NoReset' => Covered(suspend_thread'["dq_push"], lwm + 1 - k, S2)
      PROVE  DataQueueCover'
  BY <1>g DEF DataQueueCover, R2, S2
<1>p. n = rt_data_queue_len /\ k = rt_data_queue_len'
  OBVIOUS
<1> HIDE DEF n, k
<1>m. op[t] # "dq_reset" => (NoReset' => NoReset)
  BY <1>0, OwnReady DEF NoReset
<1>l. ASSUME NEW T, T \subseteq Thread, NEW p \in [Thread -> PC], Resume(T, p)
      PROVE  /\ suspend_thread'["dq_pop"] # <<>> => suspend_thread["dq_pop"] # <<>>
             /\ suspend_thread'["dq_push"] # <<>> => suspend_thread["dq_push"] # <<>>
  <2>1. Shrinks
    BY <1>0, <1>l, ResumeShrinks
  <2> QED
    BY <2>1, DataQueueLists DEF Shrinks
<1>t. First("dq_pop") \subseteq Thread /\ First("dq_push") \subseteq Thread
  BY <1>0, DataQueueLists, FirstFacts
<1>1. ASSUME NEW m, ~is_full, Push(t, m), op[t] # "dq_pop" \/ ~Ready(t), op[t] # "dq_reset"
      PROVE  DataQueueCover'
  <2>1. /\ k = n + 1 /\ error' = error
        /\ Resume(First("dq_pop"), [pc EXCEPT ![t] = "run"])
    BY <1>1, <1>p, PushLen DEF Push
  <2>2. [pc EXCEPT ![t] = "run"] \in [Thread -> PC]
    BY <1>a
  <2>3. /\ suspend_thread'["dq_pop"] # <<>> => suspend_thread["dq_pop"] # <<>>
        /\ suspend_thread'["dq_push"] # <<>> => suspend_thread["dq_push"] # <<>>
    BY <1>l, <1>t, <2>1, <2>2
  <2>4. suspend_thread["dq_pop"] # <<>> => \E x \in R2 : x \notin R
    BY <1>0, <2>1, DataQueueLists, GivesOne DEF R, R2
  <2>5. k \in Int /\ k <= n + 1
    BY <1>n, <2>1
  <2>6. lwm + 1 - k \in Int /\ lwm + 1 - k <= (lwm + 1 - n) - 1
    BY <1>n, <2>1
  <2>7. Covered(suspend_thread'["dq_pop"], k, R2)
    BY <1>1, <1>c, <1>f, <1>n, <1>r, <2>3, <2>4, <2>5, CoverGiven
  <2>8. NoReset => Covered(suspend_thread'["dq_push"], lwm + 1 - k, S2)
    BY <1>c, <1>f, <1>n, <1>r, <2>3, <2>6, CoverTaken
  <2> QED
    BY <1>1, <1>g, <1>m, <2>7, <2>8
<1>2. ASSUME ~is_empty, Pop(t), op[t] # "dq_push" \/ ~Ready(t), op[t] # "dq_reset"
      PROVE  DataQueueCover'
  <2> DEFINE T == IF k <= lwm THEN First("dq_push") ELSE {}
             p == [pc EXCEPT ![t] = "return"]
  <2>1. k = n - 1
    BY <1>2, <1>p, PopLen
  <2>2. Resume(T, p) /\ error' = error
    BY <1>2, <1>p, Zenon DEF Pop
  <2>3. p \in [Thread -> PC] /\ T \subseteq Thread
    BY <1>a, <1>t
  <2>4. k <= lwm => Resume(First("dq_push"), p)
    BY <2>2
  <2> HIDE DEF T, p
  <2>5. /\ suspend_thread'["dq_pop"] # <<>> => suspend_thread["dq_pop"] # <<>>
        /\ suspend_thread'["dq_push"] # <<>> => suspend_thread["dq_push"] # <<>>
    BY <1>l, <2>2, <2>3
  <2>6. k \in Int /\ k <= n - 1 /\ lwm + 1 - k \in Int /\ lwm + 1 - k <= (lwm + 1 - n) + 1
    BY <1>n, <2>1
  <2>7. Covered(suspend_thread'["dq_pop"], k, R2)
    BY <1>c, <1>f, <1>n, <1>r, <2>5, <2>6, CoverTaken
  <2>8. CASE k <= lwm
    <3>1. suspend_thread["dq_push"] # <<>> => \E x \in S2 : x \notin S
      BY <1>0, <2>2, <2>4, <2>8, DataQueueLists, GivesOne DEF S, S2
    <3>2. NoReset => Covered(suspend_thread'["dq_push"], lwm + 1 - k, S2)
      BY <1>2, <1>c, <1>f, <1>n, <1>r, <2>5, <2>6, <3>1, CoverGiven
    <3> QED
      BY <1>2, <1>g, <1>m, <2>7, <3>2
  <2>9. CASE ~(k <= lwm)
    <3>1. lwm + 1 - k <= 0
      BY <1>n, <2>6, <2>9
    <3>2. Covered(suspend_thread'["dq_push"], lwm + 1 - k, S2)
      BY <1>f, <2>6, <3>1, CoverNone
    <3> QED
      BY <1>g, <2>7, <3>2
  <2> QED
    BY <2>8, <2>9
<1>3. ASSUME is_full, k = n, suspend_thread'["dq_pop"] = suspend_thread["dq_pop"],
             op[t] # "dq_pop" \/ ~Ready(t)
      PROVE  DataQueueCover'
  <2>1. Covered(suspend_thread'["dq_pop"], k, R2)
    BY <1>3, <1>c, <1>f, <1>n, <1>r, CoverKept
  <2>2. lwm + 1 - k \in Int /\ lwm + 1 - k <= 0
    BY <1>3, <1>n
  <2>3. Covered(suspend_thread'["dq_push"], lwm + 1 - k, S2)
    BY <1>f, <2>2, CoverNone
  <2> QED
    BY <1>g, <2>1, <2>3
<1>4. ASSUME is_empty, k = n, suspend_thread'["dq_push"] = suspend_thread["dq_push"],
             op[t] # "dq_push" \/ ~Ready(t), op[t] # "dq_reset"
      PROVE  DataQueueCover'
  <2>1. k \in Int /\ k <= 0 /\ lwm + 1 - k \in Int /\ lwm + 1 - k <= lwm + 1 - n
    BY <1>4, <1>n
  <2>2. Covered(suspend_thread'["dq_pop"], k, R2)
    BY <1>f, <2>1, CoverNone
  <2>3. NoReset => Covered(suspend_thread'["dq_push"], lwm + 1 - k, S2)
    BY <1>4, <1>c, <1>f, <1>n, <1>r, <2>1, CoverKept
  <2> QED
    BY <1>4, <1>g, <1>m, <2>2, <2>3
<1>5. ASSUME k = 0, suspend_thread'["dq_push"] = <<>> \/ ~ NoReset' PROVE DataQueueCover'
  <2>1. k \in Int /\ k <= 0 /\ lwm + 1 - k \in Int
    BY <1>5, <1>n
  <2>2. Covered(suspend_thread'["dq_pop"], k, R2)
    BY <1>f, <2>1, CoverNone
  <2>3. NoReset' => Covered(suspend_thread'["dq_push"], lwm + 1 - k, S2)
    BY <1>5, <1>f, <2>1, CoverNone
  <2> QED
    BY <1>g, <2>2, <2>3
<1>6. ASSUME k = n, suspend_thread' = suspend_thread, ~Ready(t),
             (NoReset' => NoReset) \/ suspend_thread["dq_push"] = <<>>
      PROVE  DataQueueCover'
  <2>1. Covered(suspend_thread'["dq_pop"], k, R2)
    BY <1>6, <1>c, <1>f, <1>n, <1>r, CoverKept
  <2>2. NoReset => Covered(suspend_thread'["dq_push"], lwm + 1 - k, S2)
    BY <1>6, <1>c, <1>f, <1>n, <1>r, CoverKept
  <2>3. suspend_thread["dq_push"] = <<>> =>
          Covered(suspend_thread'["dq_push"], lwm + 1 - k, S2)
    BY <1>6, <1>f, <1>n, CoverNone
  <2> QED
    BY <1>6, <1>g, <2>1, <2>2, <2>3
<1>q. /\ pc[t] \in {"run", "return", "lock", "test"} => ~ Ready(t)
      /\ pc[t] \in {"run", "return", "woken"} => op[t] # "dq_reset"
  BY <1>0, OpsAtFacts DEF Ready, ThreadInv, CallFits, Blocking
\* The list of the pushers is empty if nobody waits there.
<1>v. ASSUME \A u \in Thread : ~(op[u] = "dq_push" /\ pc[u] = "wait")
      PROVE  suspend_thread["dq_push"] = <<>>
  <2>1. Waiters("dq_push") = {}
    <3>1. \A c \in Blocking : ListOf(c) = "dq_push" => c \in {"dq_push"}
      BY ListOfFacts DEF Blocking
    <3>2. \A u \in Waiters("dq_push") : u \in Thread /\ pc[u] = "wait" /\ op[u] \in {"dq_push"}
      BY <1>0, <3>1, DataQueueLists, WaitersIn
    <3> QED
      BY <1>v, <3>2
  <2> QED
    BY <1>a, <2>1, DataQueueLists, NobodyWaits DEF Waiters
<1>7. CASE rt_data_queue_init(t)
  <2>1. "dq" \notin exists /\ Drained /\ suspend_thread' = suspend_thread
    BY <1>7 DEF rt_data_queue_init, Creating, threadVars
  <2>2. \A u \in Thread : ~(op[u] = "dq_push" /\ pc[u] = "wait")
    BY <1>0, <2>1, DataQueueLists, ObjectOfFacts DEF UseInv
  <2> QED
    BY <1>5, <1>e, <1>v, <2>1, <2>2
<1>8. CASE DqRetry(t)
  <2>1. CASE t \in Retrying("dq_push") /\ ~is_full /\ Push(t, arg[t])
    BY <1>1, <2>1 DEF Retrying
  <2>2. CASE t \in Retrying("dq_pop") /\ ~is_empty /\ Pop(t)
    BY <1>2, <2>2 DEF Retrying
  <2>3. CASE t \in Retrying("dq_push") /\ is_full /\ Suspend(t, op[t], timeout[t])
             /\ UNCHANGED dqVars
    <3>1. op[t] = "dq_push"
      BY <2>3 DEF Retrying
    <3>2. suspend_thread'["dq_pop"] = suspend_thread["dq_pop"]
      BY <1>a, <2>3, <3>1, DataQueueLists DEF Suspend
    <3> QED
      BY <1>3, <1>d, <2>3, <3>1, <3>2
  <2>4. CASE t \in Retrying("dq_pop") /\ is_empty /\ Suspend(t, op[t], timeout[t])
             /\ UNCHANGED dqVars
    <3>1. op[t] = "dq_pop"
      BY <2>4 DEF Retrying
    <3>2. suspend_thread'["dq_push"] = suspend_thread["dq_push"]
      BY <1>a, <2>4, <3>1, DataQueueLists DEF Suspend
    <3> QED
      BY <1>4, <1>d, <2>4, <3>1, <3>2
  <2> QED
    BY <1>8, <2>1, <2>2, <2>3, <2>4 DEF DqRetry
<1>9. CASE DqReturn(t)
  <2>1. suspend_thread' = suspend_thread /\ pc[t] = "return"
        /\ UNCHANGED <<get_index, put_index, is_empty>>
    BY <1>9 DEF DqReturn
  <2>2. k = n
    BY <2>1 DEF k, n, rt_data_queue_len
  <2> QED
    BY <1>6, <1>m, <1>q, <2>1, <2>2
<1>10. CASE DqReset(t)
  <2>1. Drained /\ op'[t] = "dq_reset"
    BY <1>10, <1>a DEF DqReset
  <2> QED
    BY <1>5, <1>e, <2>1 DEF NoReset
<1>11. CASE DqResetLock(t)
  <2>1. /\ pc[t] = "lock" /\ UNCHANGED dqVars /\ op' = op /\ suspend_thread' = suspend_thread
    BY <1>11 DEF DqResetLock
  <2>2. NoReset' => NoReset
    BY <2>1 DEF NoReset
  <2> QED
    BY <1>6, <1>d, <1>q, <2>1, <2>2
<1>12. CASE DqResetEnd(t)
  <2>1. /\ pc[t] = "test" /\ lists[t] = <<>> /\ op[t] = "dq_reset"
        /\ UNCHANGED dqVars /\ suspend_thread' = suspend_thread
    BY <1>12 DEF DqResetEnd
  <2>2. \A u \in Thread : ~(op[u] = "dq_push" /\ pc[u] = "wait")
    BY <2>1, EmptyList DEF ResetInv, DataQueueWait
  <2> QED
    BY <1>6, <1>d, <1>q, <1>v, <2>1, <2>2
<1>13. ASSUME NEW w \in Timeouts, DqPop(t, w) PROVE DataQueueCover'
  <2>0. ~ Ready(t) /\ op[t] # "dq_reset"
    BY <1>13, <1>q DEF DqPop, Calling
  <2>1. CASE is_empty /\ Wait(t, "dq_pop", NoArg, "dq_pop", w) /\ UNCHANGED dqVars
    <3>1. suspend_thread'["dq_push"] = suspend_thread["dq_push"]
      BY <1>a, <2>1, DataQueueLists DEF Wait, Suspend
    <3> QED
      BY <1>4, <1>d, <2>0, <2>1, <3>1
  <2> QED
    BY <1>2, <1>13, <2>0, <2>1 DEF DqPop
<1>14. ASSUME NEW w \in Timeouts, NEW m \in Msg, DqPush(t, m, w) PROVE DataQueueCover'
  <2>0. ~ Ready(t) /\ op[t] # "dq_reset"
    BY <1>14, <1>q DEF DqPush, Calling
  <2>1. CASE is_full /\ Wait(t, "dq_push", m, "dq_push", w) /\ UNCHANGED dqVars
    <3>1. suspend_thread'["dq_pop"] = suspend_thread["dq_pop"]
      BY <1>a, <2>1, DataQueueLists DEF Wait, Suspend
    <3> QED
      BY <1>3, <1>d, <2>0, <2>1, <3>1
  <2> QED
    BY <1>1, <1>14, <2>0, <2>1 DEF DqPush
<1> QED
  BY <1>7, <1>8, <1>9, <1>10, <1>11, <1>12, <1>13, <1>14 DEF DataQueueStep

\* So does every step of the kernel.
LEMMA DataQueueCoverNext ==
  ASSUME Polite, CoreInv, DataInv, BackInv, ResetInv, DataQueueCover, [Next]_vars
  PROVE  DataQueueCover'
<1>0. SigInv /\ ThreadInv
  BY DEF BackInv, CoreInv
<1>1. ASSUME Elsewhere(DataQueueWait), UNCHANGED dqVars, NoReset' => NoReset
      PROVE  DataQueueCover'
  <2> DEFINE n == rt_data_queue_len
  <2>1. rt_data_queue_len' = n
    BY <1>1 DEF dqVars, rt_data_queue_len
  <2>2. n \in Int /\ lwm + 1 - n \in Int
    <3>1. n \in 0 .. dq_size
      BY DataQueueLen
    <3> HIDE DEF n
    <3> QED
      BY <3>1, DataQueueAssumption
  <2>3. /\ Coming("dq_pop") \subseteq Coming("dq_pop")'
        /\ suspend_thread'["dq_pop"] # <<>> => suspend_thread["dq_pop"] # <<>>
        /\ Coming("dq_push") \subseteq Coming("dq_push")'
        /\ suspend_thread'["dq_push"] # <<>> => suspend_thread["dq_push"] # <<>>
    BY <1>1, DataQueueLists DEF Elsewhere, DataQueueWait
  <2>4. IsFiniteSet(Coming("dq_pop")') /\ IsFiniteSet(Coming("dq_push")')
    BY ComingFinite
  <2>5. /\ Covered(suspend_thread["dq_pop"], n, Coming("dq_pop"))
        /\ NoReset => Covered(suspend_thread["dq_push"], lwm + 1 - n, Coming("dq_push"))
    BY DEF DataQueueCover
  <2> HIDE DEF n
  <2>6. Covered(suspend_thread'["dq_pop"], n, Coming("dq_pop")')
    BY <2>2, <2>3, <2>4, <2>5, CoverKept
  <2>7. NoReset => Covered(suspend_thread'["dq_push"], lwm + 1 - n, Coming("dq_push")')
    BY <2>2, <2>3, <2>4, <2>5, CoverKept
  <2> QED
    BY <1>1, <2>1, <2>6, <2>7 DEF DataQueueCover
<1>2. Elsewhere(RetryCalls) => Elsewhere(DataQueueWait)
  BY DataQueueLists DEF Elsewhere
<1>3. ASSUME NEW t \in Thread, OwnStep(t) PROVE DataQueueCover'
  <2>0. op[t] # "dq_reset" \/ op'[t] = "dq_reset" => (NoReset' => NoReset)
    BY <1>0, <1>3, OwnReady DEF NoReset
  <2>1. CASE ThreadStep(t) /\ UNCHANGED objectVars
    <3>1. ASSUME NEW o, DetachStart(t, o) PROVE op[t] # "dq_reset"
      BY <1>0, <3>1, CallingFacts DEF DetachStart, Calling
    <3>2. op[t] # "dq_reset" \/ op'[t] = "dq_reset"
      <4>1. CASE WaitFailed(t)
        BY <1>0, <4>1, OpsAtFacts DEF WaitFailed, ThreadInv, CallFits, Blocking
      <4>2. CASE ResumeAllTest(t) \/ ResumeAllNext(t) \/ DetachEnd(t)
        BY <4>2 DEF ResumeAllTest, ResumeAllNext, DetachEnd
      <4> QED
        BY <2>1, <3>1, <4>1, <4>2 DEF ThreadStep
    <3> QED
      BY <1>0, <1>1, <1>2, <1>3, <2>0, <2>1, <3>2, ThreadElsewhere DEF objectVars
  <2>2. CASE DataQueueStep(t)
    BY <1>3, <2>2, DataQueueCovers
  <2>3. CASE UNCHANGED dqVars /\ Apart(DataQueueWait) /\ op[t] # "dq_reset"
    <3>1. sig' = sig
      BY <1>3 DEF OwnStep, Enter
    <3> QED
      BY <1>1, <2>0, <2>3, <3>1, DataQueueLists, ApartElsewhere
  <2> QED
    BY <1>3, <2>1, <2>2, <2>3, DataQueueApart
<1>4. ASSUME UNCHANGED op PROVE NoReset' => NoReset
  BY <1>4 DEF NoReset
<1>5. CASE Tick /\ UNCHANGED <<objectVars, sigVars>>
  <2>1. UNCHANGED op
    BY <1>5 DEF Tick
  <2> QED
    BY <1>0, <1>1, <1>2, <1>4, <1>5, <2>1, InterruptElsewhere DEF objectVars
<1>6. ASSUME NEW t \in Thread, SignalStep(t), UNCHANGED objectVars PROVE DataQueueCover'
  <2>1. UNCHANGED op
    BY <1>0, <1>6, SignalKind
  <2> QED
    BY <1>0, <1>1, <1>2, <1>4, <1>6, <2>1, InterruptElsewhere DEF objectVars
<1>7. CASE UNCHANGED vars
  <2>1. UNCHANGED op /\ UNCHANGED dqVars
    BY <1>7 DEF vars, threadVars, objectVars
  <2> QED
    BY <1>0, <1>1, <1>2, <1>4, <1>7, <2>1, InterruptElsewhere
<1> QED
  BY <1>3, <1>5, <1>6, <1>7 DEF Next

\* A data queue of any size and low water mark is a bounded queue that does not get
\* stuck, for any number of threads: as long as a thread waits to pop, every item has
\* a woken popper on its way to it; and as long as one waits to push, the items and
\* the pushers on their way are more than the low water mark, although a pop wakes a
\* pusher only there, resets and timeouts intervene and waits start again.
THEOREM DataQueueChannelAlways == Polite => (Spec => DataQueueChannel)
<1> SUFFICES ASSUME Polite PROVE Spec => DataQueueChannel
  OBVIOUS
<1>1. Init => ChannelInv /\ BackInv /\ ResetInv /\ DataQueueCover
  <2>1. Init => ResetInv /\ DataQueueCover
    BY DEF Init, ThreadInit, List, ResetInv, DataQueueCover, Covered
  <2> QED
    BY <2>1, ChannelInit, BackInit
<1>2. CoreInv /\ ChannelInv /\ BackInv /\ ResetInv /\ DataQueueCover /\ [Next]_vars =>
        ChannelInv' /\ BackInv' /\ ResetInv' /\ DataQueueCover'
  BY ChannelNext, BackNext, ResetNext, DataQueueCoverNext DEF ChannelInv, BackInv
<1>3. CoreInv /\ ChannelInv /\ DataQueueCover => DataQueueWakeups
  <2> SUFFICES ASSUME CoreInv, ChannelInv, DataQueueCover PROVE DataQueueWakeups
    OBVIOUS
  <2> DEFINE n == rt_data_queue_len
             W == Retrying("dq_push")
  <2>1. /\ Coming("dq_pop") \subseteq Retrying("dq_pop")
        /\ Coming("dq_push") \subseteq Retrying("dq_push")
    BY ComingRetrying
  <2>2. Retrying("dq_pop") \subseteq Thread /\ Retrying("dq_push") \subseteq Thread
    BY DEF Retrying
  <2>3. n \in Int /\ lwm + 1 - n \in Int /\ lwm \in Int
    <3>1. n \in 0 .. dq_size
      BY DataQueueLen DEF ChannelInv
    <3> HIDE DEF n
    <3> QED
      BY <3>1, DataQueueAssumption
  <2>4. /\ Covered(suspend_thread["dq_pop"], n, Coming("dq_pop"))
        /\ NoReset => Covered(suspend_thread["dq_push"], lwm + 1 - n, Coming("dq_push"))
    BY DEF DataQueueCover
  <2>5. Cardinality(W) \in Nat
    BY <2>2, ThreadAssumption, FS_Subset, FS_CardinalityType
  <2> HIDE DEF n, W
  <2>6. suspend_thread["dq_pop"] # <<>> => n <= Cardinality(Retrying("dq_pop"))
    BY <2>1, <2>2, <2>3, <2>4, CoveredBy
  <2>7. suspend_thread["dq_push"] # <<>> /\ NoReset => lwm + 1 - n <= Cardinality(W)
    BY <2>1, <2>2, <2>3, <2>4, CoveredBy DEF W
  <2>8. suspend_thread["dq_push"] # <<>> /\ NoReset => n + Cardinality(W) > lwm
    BY <2>3, <2>5, <2>7
  <2> QED
    BY <2>6, <2>8 DEF DataQueueWakeups, NoReset, n, W
<1> QED
  BY Core, DataQueueIsChannel, <1>1, <1>2, <1>3, PTL DEF Spec, DataQueueChannel

=============================================================================
