--------------------------- MODULE WorkQueueProofs ---------------------------
(***************************************************************************)
(* Proofs about WorkQueue for any clients and works.                       *)
(***************************************************************************)
EXTENDS WorkQueue, ListLemmas

-----------------------------------------------------------------------------
(***************************************************************************)
(* What holds whether the callers observe the rules or not.                *)
(***************************************************************************)

ClientPC == {"run", "start", "take", "cancel", "sync", "all_work", "all_delayed", "all_first"}
WorkerPC == {"loop", "idle", "doing", "start", "ack"}

QueueType ==
  /\ pc \in [Caller -> ClientPC \cup WorkerPC]
  /\ \A t \in Client : pc[t] \in ClientPC
  /\ pc[work_thread] \in WorkerPC
  /\ arg \in [Caller -> Work \cup {NULL}]
  /\ work_list \in Seq(Work) /\ delayed_list \in Seq(Work)
  /\ work_current \in Work \cup {NULL}
  /\ pending \subseteq Work /\ submitting \subseteq Work /\ timer \subseteq Work
  /\ workqueue \subseteq Work /\ accepted \subseteq Work /\ overrun \subseteq Work

\* The one node of a work is in one list at most, and there once.
ListsApart ==
  /\ IsInjective(work_list) /\ IsInjective(delayed_list)
  /\ ToSet(work_list) \cap ToSet(delayed_list) = {}

\* Outside a work function there is no current work: what submits a work
\* resumes the idle thread.
WorkerFree == pc[work_thread] \in {"loop", "idle", "ack"} => work_current = NULL

\* A thread inside a call about a work is the one that uses this work.
UsersCall ==
  \A t \in Caller : pc[t] \in {"start", "take", "cancel", "sync"} =>
    arg[t] \in Work /\ User[arg[t]] = t

\* rt_workqueue_cancel_all_work never meets a timer that is about to be started.
CriticalAlone == Critical => \A t \in Caller : pc[t] # "start"

ShapeInv ==
  QueueType /\ ListsApart /\ WorkerFree /\ UsersCall /\ CriticalAlone /\ NoWorkAsleep

-----------------------------------------------------------------------------
(***************************************************************************)
(* What holds if they do.                                                  *)
(***************************************************************************)

FlagsFit ==
  /\ submitting = ToSet(delayed_list)
  /\ pending \subseteq ToSet(work_list)
  /\ timer \subseteq submitting \cap workqueue

\* Between the two sections of rt_workqueue_submit_work the work waits in the
\* list of delays without a timer.
StartersListed ==
  \A t \in Caller : pc[t] = "start" => arg[t] \in (submitting \cap workqueue) \ timer

RuleInv == FlagsFit /\ StartersListed /\ WorkAccounted

-----------------------------------------------------------------------------

\* What the lists are after a work has been taken out, and after it has been put
\* at the end or at the front.
LEMMA Relist ==
  ASSUME ShapeInv, NEW w \in Work
  PROVE  /\ Without(work_list, w) \in Seq(Work) /\ IsInjective(Without(work_list, w))
         /\ ToSet(Without(work_list, w)) = ToSet(work_list) \ {w}
         /\ Without(delayed_list, w) \in Seq(Work)
         /\ IsInjective(Without(delayed_list, w))
         /\ ToSet(Without(delayed_list, w)) = ToSet(delayed_list) \ {w}
         /\ Append(Without(work_list, w), w) \in Seq(Work)
         /\ IsInjective(Append(Without(work_list, w), w))
         /\ ToSet(Append(Without(work_list, w), w)) = ToSet(work_list) \cup {w}
         /\ Append(Without(delayed_list, w), w) \in Seq(Work)
         /\ IsInjective(Append(Without(delayed_list, w), w))
         /\ ToSet(Append(Without(delayed_list, w), w)) = ToSet(delayed_list) \cup {w}
         /\ <<w>> \o Without(work_list, w) \in Seq(Work)
         /\ IsInjective(<<w>> \o Without(work_list, w))
         /\ ToSet(<<w>> \o Without(work_list, w)) = ToSet(work_list) \cup {w}
<1>1. ASSUME NEW s \in Seq(Work), IsInjective(s)
      PROVE  /\ Without(s, w) \in Seq(Work) /\ IsInjective(Without(s, w))
             /\ ToSet(Without(s, w)) = ToSet(s) \ {w}
  BY <1>1, RemoveFirstFacts DEF Without
<1>2. ASSUME NEW s \in Seq(Work), IsInjective(s)
      PROVE  /\ Append(Without(s, w), w) \in Seq(Work)
             /\ IsInjective(Append(Without(s, w), w))
             /\ ToSet(Append(Without(s, w), w)) = ToSet(s) \cup {w}
  <2>1. ToSet(Without(s, w)) \cup {w} = ToSet(s) \cup {w} /\ w \notin ToSet(Without(s, w))
    BY <1>1, <1>2
  <2> QED
    BY <1>1, <1>2, <2>1, AppendFacts
<1>3. ASSUME NEW s \in Seq(Work), IsInjective(s)
      PROVE  /\ <<w>> \o Without(s, w) \in Seq(Work)
             /\ IsInjective(<<w>> \o Without(s, w))
             /\ ToSet(<<w>> \o Without(s, w)) = ToSet(s) \cup {w}
  <2>1. ToSet(Without(s, w)) \cup {w} = ToSet(s) \cup {w} /\ w \notin ToSet(Without(s, w))
    BY <1>1, <1>3
  <2> QED
    BY <1>1, <1>3, <2>1, ConsFacts
<1> QED
  BY <1>1, <1>2, <1>3 DEF ShapeInv, QueueType, ListsApart

\* A work leaves both lists: _workqueue_cancel_work, and a submission of the work
\* that is executed.
LEMMA ListsRemoved ==
  ASSUME ShapeInv, NEW w \in Work,
         work_list' = Without(work_list, w), delayed_list' = Without(delayed_list, w)
  PROVE  /\ work_list' \in Seq(Work) /\ delayed_list' \in Seq(Work) /\ ListsApart'
         /\ ToSet(work_list') = ToSet(work_list) \ {w}
         /\ ToSet(delayed_list') = ToSet(delayed_list) \ {w}
         /\ work_list = <<>> => work_list' = <<>>
<1>1. /\ work_list' \in Seq(Work) /\ delayed_list' \in Seq(Work)
      /\ IsInjective(work_list') /\ IsInjective(delayed_list')
      /\ ToSet(work_list') = ToSet(work_list) \ {w}
      /\ ToSet(delayed_list') = ToSet(delayed_list) \ {w}
  BY Relist
<1>2. work_list = <<>> => work_list' = <<>>
  BY <1>1, EmptyList, EmptyFacts
<1> QED
  BY <1>1, <1>2 DEF ShapeInv, ListsApart

\* A work goes to the list of works, from wherever it was.
LEMMA ListsQueued ==
  ASSUME ShapeInv, NEW w \in Work,
         \/ work_list' = Append(Without(work_list, w), w)
         \/ work_list' = <<w>> \o Without(work_list, w),
         delayed_list' = Without(delayed_list, w)
  PROVE  /\ work_list' \in Seq(Work) /\ delayed_list' \in Seq(Work) /\ ListsApart'
         /\ ToSet(work_list') = ToSet(work_list) \cup {w}
         /\ ToSet(delayed_list') = ToSet(delayed_list) \ {w}
<1>1. /\ work_list' \in Seq(Work) /\ delayed_list' \in Seq(Work)
      /\ IsInjective(work_list') /\ IsInjective(delayed_list')
      /\ ToSet(work_list') = ToSet(work_list) \cup {w}
      /\ ToSet(delayed_list') = ToSet(delayed_list) \ {w}
  BY Relist
<1> QED
  BY <1>1 DEF ShapeInv, ListsApart

\* A work goes to the list of delays, from wherever it was.
LEMMA ListsDelayed ==
  ASSUME ShapeInv, NEW w \in Work,
         work_list' = Without(work_list, w), delayed_list' = Append(Without(delayed_list, w), w)
  PROVE  /\ work_list' \in Seq(Work) /\ delayed_list' \in Seq(Work) /\ ListsApart'
         /\ ToSet(work_list') = ToSet(work_list) \ {w}
         /\ ToSet(delayed_list') = ToSet(delayed_list) \cup {w}
         /\ work_list = <<>> => work_list' = <<>>
<1>1. /\ work_list' \in Seq(Work) /\ delayed_list' \in Seq(Work)
      /\ IsInjective(work_list') /\ IsInjective(delayed_list')
      /\ ToSet(work_list') = ToSet(work_list) \ {w}
      /\ ToSet(delayed_list') = ToSet(delayed_list) \cup {w}
  BY Relist
<1>2. work_list = <<>> => work_list' = <<>>
  BY <1>1, EmptyList, EmptyFacts
<1> QED
  BY <1>1, <1>2 DEF ShapeInv, ListsApart

\* _workqueue_cancel_work of a work whose user is not about to start its timer.
LEMMA CancelShape ==
  ASSUME ShapeInv, NEW w \in Work, _workqueue_cancel_work(w), UNCHANGED work_current,
         UsersCall', CriticalAlone',
         pc' \in [Caller -> ClientPC \cup WorkerPC],
         \A t \in Client : pc'[t] \in ClientPC,
         pc'[work_thread] = pc[work_thread], arg' \in [Caller -> Work \cup {NULL}]
  PROVE  ShapeInv'
<1>0. /\ work_list' \in Seq(Work) /\ delayed_list' \in Seq(Work) /\ ListsApart'
      /\ work_list = <<>> => work_list' = <<>>
  BY ListsRemoved DEF _workqueue_cancel_work
<1>1. QueueType'
  BY <1>0 DEF ShapeInv, QueueType, _workqueue_cancel_work
<1>2. WorkerFree' /\ NoWorkAsleep'
  BY <1>0 DEF ShapeInv, WorkerFree, NoWorkAsleep
<1> QED
  BY <1>0, <1>1, <1>2 DEF ShapeInv

\* ... keeps lists, flags and timers in agreement.
LEMMA CancelRule ==
  ASSUME ShapeInv, RuleInv, NEW w \in Work, _workqueue_cancel_work(w),
         \A t \in Caller : pc'[t] = "start" <=> pc[t] = "start",
         \A t \in Caller : pc[t] = "start" => arg[t] # w /\ arg'[t] = arg[t]
  PROVE  RuleInv'
<1>0. /\ ToSet(work_list') = ToSet(work_list) \ {w}
      /\ ToSet(delayed_list') = ToSet(delayed_list) \ {w}
  BY ListsRemoved DEF _workqueue_cancel_work
<1>1. FlagsFit'
  BY <1>0 DEF RuleInv, FlagsFit, _workqueue_cancel_work
<1>2. StartersListed'
  BY DEF RuleInv, StartersListed, _workqueue_cancel_work
<1>3. WorkAccounted'
  BY <1>0 DEF RuleInv, WorkAccounted, _workqueue_cancel_work
<1> QED
  BY <1>1, <1>2, <1>3 DEF RuleInv

\* rt_workqueue_submit_work without a delay: the work goes to the end of the list,
\* or nowhere if it is being executed.
LEMMA SubmitNowShape ==
  ASSUME ShapeInv, NEW t \in Caller, NEW w \in Work, SubmitNow(t, w)
  PROVE  ShapeInv'
<1>0. /\ work_list' \in Seq(Work) /\ delayed_list' \in Seq(Work) /\ ListsApart'
      /\ ToSet(work_list') = IF work_current # w THEN ToSet(work_list) \cup {w}
                             ELSE ToSet(work_list) \ {w}
      /\ ToSet(delayed_list') = ToSet(delayed_list) \ {w}
  <2>1. CASE work_current # w
    BY <2>1, ListsQueued DEF SubmitNow
  <2>2. CASE work_current = w
    BY <2>2, ListsRemoved DEF SubmitNow
  <2> QED
    BY <2>1, <2>2
<1>1. QueueType'
  BY <1>0 DEF ShapeInv, QueueType, Caller, ClientPC, WorkerPC, SubmitNow, Resumed
<1>2. ListsApart'
  BY <1>0
<1>3. WorkerFree'
  BY DEF ShapeInv, WorkerFree, SubmitNow, Resumed
<1>4. UsersCall'
  BY DEF ShapeInv, UsersCall, SubmitNow, Resumed
<1>5. CriticalAlone'
  BY DEF CriticalAlone, Critical, SubmitNow, Calling, Resumed
<1>6. NoWorkAsleep'
  BY DEF ShapeInv, QueueType, NoWorkAsleep, WorkerFree, Caller, SubmitNow, Resumed
<1> QED
  BY <1>1, <1>2, <1>3, <1>4, <1>5, <1>6 DEF ShapeInv

\* ... and under the rules keeps lists, flags and timers in agreement.
LEMMA SubmitNowRule ==
  ASSUME Careful, ShapeInv, RuleInv, NEW t \in Caller, NEW w \in Work, SubmitNow(t, w)
  PROVE  RuleInv'
<1>0. /\ work_list' \in Seq(Work) /\ delayed_list' \in Seq(Work) /\ ListsApart'
      /\ ToSet(work_list') = IF work_current # w THEN ToSet(work_list) \cup {w}
                             ELSE ToSet(work_list) \ {w}
      /\ ToSet(delayed_list') = ToSet(delayed_list) \ {w}
  <2>1. CASE work_current # w
    BY <2>1, ListsQueued DEF SubmitNow
  <2>2. CASE work_current = w
    BY <2>2, ListsRemoved DEF SubmitNow
  <2> QED
    BY <2>1, <2>2
<1>1. FlagsFit'
  BY <1>0 DEF RuleInv, FlagsFit, SubmitNow, MaySubmit
<1>2. StartersListed'
  BY DEF RuleInv, StartersListed, SubmitNow, Resumed
<1>3. WorkAccounted'
  BY <1>0 DEF RuleInv, WorkAccounted, SubmitNow, Resumed
<1> QED
  BY <1>1, <1>2, <1>3 DEF RuleInv

\* rt_workqueue_submit_work with a delay, up to the start of the timer.
LEMMA SubmitDelayedShape ==
  ASSUME ShapeInv, NEW t \in Caller, NEW w \in Work, SubmitDelayed(t, w)
  PROVE  ShapeInv'
<1>0. /\ work_list' \in Seq(Work) /\ delayed_list' \in Seq(Work) /\ ListsApart'
      /\ ToSet(work_list') = ToSet(work_list) \ {w}
      /\ ToSet(delayed_list') = ToSet(delayed_list) \cup {w}
      /\ work_list = <<>> => work_list' = <<>>
  BY ListsDelayed DEF SubmitDelayed
<1>1. QueueType'
  BY <1>0 DEF ShapeInv, QueueType, ClientPC, WorkerPC, SubmitDelayed
<1>2. ListsApart'
  BY <1>0
<1>3. WorkerFree'
  BY DEF ShapeInv, WorkerFree, SubmitDelayed
<1>4. UsersCall'
  BY DEF ShapeInv, QueueType, UsersCall, SubmitDelayed, Calling
<1>5. CriticalAlone'
  BY DEF CriticalAlone, Critical, SubmitDelayed, Calling
<1>6. NoWorkAsleep'
  BY <1>0 DEF ShapeInv, NoWorkAsleep, SubmitDelayed
<1> QED
  BY <1>1, <1>2, <1>3, <1>4, <1>5, <1>6 DEF ShapeInv

\* ... and under the rules keeps lists, flags and timers in agreement.
LEMMA SubmitDelayedRule ==
  ASSUME Careful, ShapeInv, RuleInv, NEW t \in Caller, NEW w \in Work, SubmitDelayed(t, w)
  PROVE  RuleInv'
<1>0. /\ work_list' \in Seq(Work) /\ delayed_list' \in Seq(Work) /\ ListsApart'
      /\ ToSet(work_list') = ToSet(work_list) \ {w}
      /\ ToSet(delayed_list') = ToSet(delayed_list) \cup {w}
      /\ work_list = <<>> => work_list' = <<>>
  BY ListsDelayed DEF SubmitDelayed
<1>1. FlagsFit'
  BY <1>0 DEF RuleInv, FlagsFit, SubmitDelayed
<1>2. StartersListed'
  BY DEF ShapeInv, QueueType, RuleInv, StartersListed, SubmitDelayed
<1>3. WorkAccounted'
  BY <1>0 DEF ShapeInv, QueueType, RuleInv, WorkAccounted, SubmitDelayed, Calling, Home
<1> QED
  BY <1>1, <1>2, <1>3 DEF RuleInv

\* The timer of a delayed work is started.
LEMMA StartTimerShape ==
  ASSUME ShapeInv, NEW t \in Caller, StartTimer(t)
  PROVE  ShapeInv'
<1>1. QueueType'
  BY ThreadAssumption
     DEF ShapeInv, QueueType, UsersCall, ClientPC, WorkerPC, StartTimer, Home
<1>2. ListsApart'
  BY DEF ShapeInv, ListsApart, StartTimer
<1>3. WorkerFree'
  BY DEF ShapeInv, WorkerFree, StartTimer, Home
<1>4. UsersCall'
  BY DEF ShapeInv, QueueType, UsersCall, StartTimer, Home
<1>5. CriticalAlone'
  BY DEF CriticalAlone, Critical, StartTimer, Home
<1>6. NoWorkAsleep'
  BY DEF ShapeInv, NoWorkAsleep, StartTimer, Home
<1> QED
  BY <1>1, <1>2, <1>3, <1>4, <1>5, <1>6 DEF ShapeInv

\* ... and under the rules keeps lists, flags and timers in agreement.
LEMMA StartTimerRule ==
  ASSUME Careful, ShapeInv, RuleInv, NEW t \in Caller, StartTimer(t)
  PROVE  RuleInv'
<1>1. FlagsFit'
  BY DEF RuleInv, FlagsFit, StartersListed, StartTimer
<1>2. StartersListed'
  BY DEF ShapeInv, QueueType, UsersCall, RuleInv, StartersListed, StartTimer, Home
<1>3. WorkAccounted'
  BY DEF RuleInv, WorkAccounted, StartTimer
<1> QED
  BY <1>1, <1>2, <1>3 DEF RuleInv

\* rt_workqueue_urgent_work puts the work at the front of the list.
LEMMA UrgentWorkShape ==
  ASSUME ShapeInv, NEW t \in Caller, NEW w \in Work, rt_workqueue_urgent_work(t, w)
  PROVE  ShapeInv'
<1>0. /\ work_list' \in Seq(Work) /\ delayed_list' \in Seq(Work) /\ ListsApart'
      /\ ToSet(work_list') = ToSet(work_list) \cup {w}
      /\ ToSet(delayed_list') = ToSet(delayed_list) \ {w}
  BY ListsQueued DEF rt_workqueue_urgent_work
<1>1. QueueType'
  BY <1>0
     DEF ShapeInv, QueueType, Caller, ClientPC, WorkerPC, rt_workqueue_urgent_work,
         Resumed
<1>2. ListsApart'
  BY <1>0
<1>3. WorkerFree'
  BY DEF ShapeInv, WorkerFree, rt_workqueue_urgent_work, Resumed
<1>4. UsersCall'
  BY DEF ShapeInv, UsersCall, rt_workqueue_urgent_work, Resumed
<1>5. CriticalAlone'
  BY DEF CriticalAlone, Critical, rt_workqueue_urgent_work, Calling, Resumed
<1>6. NoWorkAsleep'
  BY DEF ShapeInv, QueueType, NoWorkAsleep, WorkerFree, Caller,
         rt_workqueue_urgent_work, Resumed
<1> QED
  BY <1>1, <1>2, <1>3, <1>4, <1>5, <1>6 DEF ShapeInv

\* ... and under the rules keeps lists, flags and timers in agreement.
LEMMA UrgentWorkRule ==
  ASSUME Careful, ShapeInv, RuleInv, NEW t \in Caller, NEW w \in Work,
         rt_workqueue_urgent_work(t, w)
  PROVE  RuleInv'
<1>0. /\ work_list' \in Seq(Work) /\ delayed_list' \in Seq(Work) /\ ListsApart'
      /\ ToSet(work_list') = ToSet(work_list) \cup {w}
      /\ ToSet(delayed_list') = ToSet(delayed_list) \ {w}
  BY ListsQueued DEF rt_workqueue_urgent_work
<1>1. FlagsFit'
  BY <1>0, ThreadAssumption DEF RuleInv, FlagsFit, rt_workqueue_urgent_work, MaySubmit
<1>2. StartersListed'
  BY DEF RuleInv, StartersListed, rt_workqueue_urgent_work, Resumed
<1>3. WorkAccounted'
  BY <1>0, ThreadAssumption
     DEF ShapeInv, RuleInv, WorkAccounted, FlagsFit, StartersListed,
         rt_workqueue_urgent_work, Calling, Home, Resumed
<1> QED
  BY <1>1, <1>2, <1>3 DEF RuleInv

\* _delayed_work_timeout_handler moves the work and resumes the idle thread.
LEMMA DelayEndsShape ==
  ASSUME ShapeInv, NEW w \in Work, _delayed_work_timeout_handler(w)
  PROVE  ShapeInv'
<1>0. /\ work_list' \in Seq(Work) /\ delayed_list' \in Seq(Work) /\ ListsApart'
      /\ ToSet(work_list') = IF work_current # w THEN ToSet(work_list) \cup {w}
                             ELSE ToSet(work_list) \ {w}
      /\ ToSet(delayed_list') = ToSet(delayed_list) \ {w}
  <2>1. CASE work_current # w
    BY <2>1, ListsQueued DEF _delayed_work_timeout_handler
  <2>2. CASE work_current = w
    BY <2>2, ListsRemoved DEF _delayed_work_timeout_handler
  <2> QED
    BY <2>1, <2>2
<1>1. QueueType'
  BY <1>0
     DEF ShapeInv, QueueType, Caller, ClientPC, WorkerPC, _delayed_work_timeout_handler,
         Resumed
<1>2. ListsApart'
  BY <1>0
<1>3. WorkerFree'
  BY DEF ShapeInv, WorkerFree, _delayed_work_timeout_handler, Resumed
<1>4. UsersCall'
  BY DEF ShapeInv, UsersCall, _delayed_work_timeout_handler, Resumed
<1>5. CriticalAlone'
  BY DEF ShapeInv, CriticalAlone, Critical, _delayed_work_timeout_handler, Resumed
<1>6. NoWorkAsleep'
  BY DEF ShapeInv, QueueType, NoWorkAsleep, WorkerFree, Caller,
         _delayed_work_timeout_handler, Resumed
<1> QED
  BY <1>1, <1>2, <1>3, <1>4, <1>5, <1>6 DEF ShapeInv

\* ... and under the rules keeps lists, flags and timers in agreement.
LEMMA DelayEndsRule ==
  ASSUME Careful, ShapeInv, RuleInv, NEW w \in Work, _delayed_work_timeout_handler(w)
  PROVE  RuleInv'
<1>0. /\ work_list' \in Seq(Work) /\ delayed_list' \in Seq(Work) /\ ListsApart'
      /\ ToSet(work_list') = IF work_current # w THEN ToSet(work_list) \cup {w}
                             ELSE ToSet(work_list) \ {w}
      /\ ToSet(delayed_list') = ToSet(delayed_list) \ {w}
  <2>1. CASE work_current # w
    BY <2>1, ListsQueued DEF _delayed_work_timeout_handler
  <2>2. CASE work_current = w
    BY <2>2, ListsRemoved DEF _delayed_work_timeout_handler
  <2> QED
    BY <2>1, <2>2
<1>1. FlagsFit'
  BY <1>0 DEF ShapeInv, ListsApart, RuleInv, FlagsFit, _delayed_work_timeout_handler
<1>2. StartersListed'
  BY DEF RuleInv, StartersListed, _delayed_work_timeout_handler, Resumed
<1>3. WorkAccounted'
  BY <1>0 DEF RuleInv, WorkAccounted, _delayed_work_timeout_handler, Resumed
<1> QED
  BY <1>1, <1>2, <1>3 DEF RuleInv

\* rt_workqueue_cancel_work_sync looks whether the work is being executed.
LEMMA CancelSyncShape ==
  ASSUME ShapeInv, NEW t \in Caller, NEW w \in Work, CancelSync(t, w)
  PROVE  ShapeInv'
<1>1. QueueType'
  BY DEF ShapeInv, QueueType, ClientPC, CancelSync, Calling, Home, queueVars
<1>2. ListsApart'
  BY DEF ShapeInv, ListsApart, CancelSync, queueVars
<1>3. WorkerFree'
  BY DEF ShapeInv, WorkerFree, CancelSync
<1>4. UsersCall'
  BY DEF ShapeInv, QueueType, UsersCall, CancelSync, Calling
<1>5. CriticalAlone'
  BY DEF CriticalAlone, Critical, CancelSync, Calling
<1>6. NoWorkAsleep'
  BY DEF ShapeInv, NoWorkAsleep, CancelSync, queueVars
<1> QED
  BY <1>1, <1>2, <1>3, <1>4, <1>5, <1>6 DEF ShapeInv

\* ... and under the rules keeps lists, flags and timers in agreement.
LEMMA CancelSyncRule ==
  ASSUME Careful, ShapeInv, RuleInv, NEW t \in Caller, NEW w \in Work, CancelSync(t, w)
  PROVE  RuleInv'
<1>1. FlagsFit'
  BY DEF RuleInv, FlagsFit, CancelSync, queueVars
<1>2. StartersListed'
  BY DEF RuleInv, StartersListed, CancelSync, Calling, Home, queueVars
<1>3. WorkAccounted'
  BY DEF RuleInv, WorkAccounted, CancelSync, Calling, Home, queueVars
<1> QED
  BY <1>1, <1>2, <1>3 DEF RuleInv

\* rt_workqueue_cancel_work_sync waits for the completion.
LEMMA SyncTakeShape ==
  ASSUME ShapeInv, NEW t \in Caller, SyncTake(t)
  PROVE  ShapeInv'
<1>1. QueueType'
  BY DEF ShapeInv, QueueType, ClientPC, WorkerPC, SyncTake, queueVars
<1>2. ListsApart'
  BY DEF ShapeInv, ListsApart, SyncTake, queueVars
<1>3. WorkerFree'
  BY DEF ShapeInv, WorkerFree, SyncTake
<1>4. UsersCall'
  BY DEF ShapeInv, UsersCall, SyncTake
<1>5. CriticalAlone'
  BY DEF CriticalAlone, Critical, SyncTake
<1>6. NoWorkAsleep'
  BY DEF ShapeInv, NoWorkAsleep, SyncTake, queueVars
<1> QED
  BY <1>1, <1>2, <1>3, <1>4, <1>5, <1>6 DEF ShapeInv

\* ... and under the rules keeps lists, flags and timers in agreement.
LEMMA SyncTakeRule ==
  ASSUME Careful, ShapeInv, RuleInv, NEW t \in Caller, SyncTake(t)
  PROVE  RuleInv'
<1>1. FlagsFit'
  BY DEF RuleInv, FlagsFit, SyncTake, queueVars
<1>2. StartersListed'
  BY DEF RuleInv, StartersListed, SyncTake, queueVars
<1>3. WorkAccounted'
  BY DEF RuleInv, WorkAccounted, SyncTake, queueVars
<1> QED
  BY <1>1, <1>2, <1>3 DEF RuleInv

\* rt_workqueue_cancel_all_work locks the scheduler.
LEMMA CancelAllShape ==
  ASSUME ShapeInv, NEW t \in Caller, CancelAll(t)
  PROVE  ShapeInv'
<1>1. QueueType'
  BY DEF ShapeInv, QueueType, ClientPC, WorkerPC, CancelAll, queueVars
<1>2. ListsApart'
  BY DEF ShapeInv, ListsApart, CancelAll, queueVars
<1>3. WorkerFree'
  BY DEF ShapeInv, WorkerFree, CancelAll
<1>4. UsersCall'
  BY DEF ShapeInv, UsersCall, CancelAll
<1>5. CriticalAlone'
  BY DEF CriticalAlone, CancelAll
<1>6. NoWorkAsleep'
  BY DEF ShapeInv, NoWorkAsleep, CancelAll, queueVars
<1> QED
  BY <1>1, <1>2, <1>3, <1>4, <1>5, <1>6 DEF ShapeInv

\* ... and under the rules keeps lists, flags and timers in agreement.
LEMMA CancelAllRule ==
  ASSUME Careful, ShapeInv, RuleInv, NEW t \in Caller, CancelAll(t)
  PROVE  RuleInv'
<1>1. FlagsFit'
  BY DEF RuleInv, FlagsFit, CancelAll, queueVars
<1>2. StartersListed'
  BY DEF StartersListed, CancelAll
<1>3. WorkAccounted'
  BY DEF RuleInv, WorkAccounted, CancelAll, queueVars
<1> QED
  BY <1>1, <1>2, <1>3 DEF RuleInv

\* rt_workqueue_cancel_all_work tests the list of delays.
LEMMA CancelAllTestShape ==
  ASSUME ShapeInv, NEW t \in Caller, CancelAllTest(t)
  PROVE  ShapeInv'
<1>1. QueueType'
  BY DEF ShapeInv, QueueType, ClientPC, WorkerPC, CancelAllTest, queueVars
<1>2. ListsApart'
  BY DEF ShapeInv, ListsApart, CancelAllTest, queueVars
<1>3. WorkerFree'
  BY DEF ShapeInv, WorkerFree, CancelAllTest
<1>4. UsersCall'
  BY DEF ShapeInv, UsersCall, CancelAllTest
<1>5. CriticalAlone'
  BY DEF ShapeInv, CriticalAlone, Critical, CancelAllTest
<1>6. NoWorkAsleep'
  BY DEF ShapeInv, NoWorkAsleep, CancelAllTest, queueVars
<1> QED
  BY <1>1, <1>2, <1>3, <1>4, <1>5, <1>6 DEF ShapeInv

\* ... and under the rules keeps lists, flags and timers in agreement.
LEMMA CancelAllTestRule ==
  ASSUME Careful, ShapeInv, RuleInv, NEW t \in Caller, CancelAllTest(t)
  PROVE  RuleInv'
<1>1. FlagsFit'
  BY DEF RuleInv, FlagsFit, CancelAllTest, queueVars
<1>2. StartersListed'
  BY DEF RuleInv, StartersListed, CancelAllTest, queueVars
<1>3. WorkAccounted'
  BY DEF RuleInv, WorkAccounted, CancelAllTest, queueVars
<1> QED
  BY <1>1, <1>2, <1>3 DEF RuleInv

\* The work thread finds its list empty and suspends itself.
LEMMA WorkerIdleShape ==
  ASSUME ShapeInv, WorkerIdle
  PROVE  ShapeInv'
<1>1. QueueType'
  BY DEF ShapeInv, QueueType, Caller, ClientPC, WorkerPC, WorkerIdle, queueVars
<1>2. ListsApart'
  BY DEF ShapeInv, ListsApart, WorkerIdle, queueVars
<1>3. WorkerFree'
  BY DEF ShapeInv, WorkerFree, WorkerIdle
<1>4. UsersCall'
  BY DEF ShapeInv, UsersCall, WorkerIdle
<1>5. CriticalAlone'
  BY DEF CriticalAlone, Critical, WorkerIdle, WorkerMay
<1>6. NoWorkAsleep'
  BY DEF NoWorkAsleep, WorkerIdle, queueVars
<1> QED
  BY <1>1, <1>2, <1>3, <1>4, <1>5, <1>6 DEF ShapeInv

\* ... and under the rules keeps lists, flags and timers in agreement.
LEMMA WorkerIdleRule ==
  ASSUME Careful, ShapeInv, RuleInv, WorkerIdle
  PROVE  RuleInv'
<1>1. FlagsFit'
  BY DEF RuleInv, FlagsFit, WorkerIdle, queueVars
<1>2. StartersListed'
  BY DEF RuleInv, StartersListed, WorkerIdle, queueVars
<1>3. WorkAccounted'
  BY DEF RuleInv, WorkAccounted, WorkerIdle, queueVars
<1> QED
  BY <1>1, <1>2, <1>3 DEF RuleInv

\* The work thread takes the first work.
LEMMA WorkerTakeShape ==
  ASSUME ShapeInv, WorkerTake
  PROVE  ShapeInv'
<1>0. /\ Head(work_list) \in Work /\ Head(work_list) \in ToSet(work_list)
      /\ work_list' \in Seq(Work) /\ IsInjective(work_list')
      /\ ToSet(work_list') = ToSet(work_list) \ {Head(work_list)}
  BY HeadFacts, TailFacts DEF ShapeInv, QueueType, ListsApart, WorkerTake
<1>1. QueueType'
  BY DEF ShapeInv, QueueType, Caller, ClientPC, WorkerPC, WorkerTake
<1>2. ListsApart'
  BY <1>0 DEF ShapeInv, ListsApart, WorkerTake
<1>3. WorkerFree'
  BY DEF ShapeInv, QueueType, WorkerFree, Caller, WorkerTake
<1>4. UsersCall'
  BY DEF ShapeInv, UsersCall, WorkerTake
<1>5. CriticalAlone'
  BY DEF CriticalAlone, Critical, WorkerTake, WorkerMay
<1>6. NoWorkAsleep'
  BY DEF NoWorkAsleep, WorkerTake
<1> QED
  BY <1>1, <1>2, <1>3, <1>4, <1>5, <1>6 DEF ShapeInv

\* ... and under the rules keeps lists, flags and timers in agreement.
LEMMA WorkerTakeRule ==
  ASSUME Careful, ShapeInv, RuleInv, WorkerTake
  PROVE  RuleInv'
<1>0. /\ Head(work_list) \in Work /\ Head(work_list) \in ToSet(work_list)
      /\ work_list' \in Seq(Work) /\ IsInjective(work_list')
      /\ ToSet(work_list') = ToSet(work_list) \ {Head(work_list)}
  BY HeadFacts, TailFacts DEF ShapeInv, QueueType, ListsApart, WorkerTake
<1>1. FlagsFit'
  BY <1>0 DEF ShapeInv, ListsApart, RuleInv, FlagsFit, WorkerTake
<1>2. StartersListed'
  BY <1>0 DEF ShapeInv, ListsApart, RuleInv, StartersListed, FlagsFit, WorkerTake
<1>3. WorkAccounted'
  BY <1>0 DEF RuleInv, WorkAccounted, WorkerTake
<1> QED
  BY <1>1, <1>2, <1>3 DEF RuleInv

\* A work function returns.
LEMMA WorkerDoneShape ==
  ASSUME ShapeInv, WorkerDone
  PROVE  ShapeInv'
<1>1. QueueType'
  BY DEF ShapeInv, QueueType, Caller, ClientPC, WorkerPC, WorkerDone, queueVars
<1>2. ListsApart'
  BY DEF ShapeInv, ListsApart, WorkerDone, queueVars
<1>3. WorkerFree'
  BY DEF WorkerFree, WorkerDone
<1>4. UsersCall'
  BY DEF ShapeInv, UsersCall, WorkerDone
<1>5. CriticalAlone'
  BY DEF CriticalAlone, Critical, WorkerDone, WorkerMay
<1>6. NoWorkAsleep'
  BY DEF NoWorkAsleep, WorkerDone
<1> QED
  BY <1>1, <1>2, <1>3, <1>4, <1>5, <1>6 DEF ShapeInv

\* ... and under the rules keeps lists, flags and timers in agreement.
LEMMA WorkerDoneRule ==
  ASSUME Careful, ShapeInv, RuleInv, WorkerDone
  PROVE  RuleInv'
<1>1. FlagsFit'
  BY DEF RuleInv, FlagsFit, WorkerDone, queueVars
<1>2. StartersListed'
  BY DEF RuleInv, StartersListed, WorkerDone, queueVars
<1>3. WorkAccounted'
  BY DEF RuleInv, WorkAccounted, WorkerDone, queueVars
<1> QED
  BY <1>1, <1>2, <1>3 DEF RuleInv

\* _workqueue_work_completion releases everybody who waits.
LEMMA CompletionShape ==
  ASSUME ShapeInv, _workqueue_work_completion
  PROVE  ShapeInv'
<1>1. QueueType'
  BY DEF ShapeInv, QueueType, Caller, ClientPC, WorkerPC, _workqueue_work_completion,
         queueVars
<1>2. ListsApart'
  BY DEF ShapeInv, ListsApart, _workqueue_work_completion, queueVars
<1>3. WorkerFree'
  BY DEF ShapeInv, WorkerFree, _workqueue_work_completion
<1>4. UsersCall'
  BY DEF ShapeInv, UsersCall, _workqueue_work_completion
<1>5. CriticalAlone'
  BY DEF CriticalAlone, Critical, _workqueue_work_completion, WorkerMay
<1>6. NoWorkAsleep'
  BY DEF NoWorkAsleep, Caller, _workqueue_work_completion
<1> QED
  BY <1>1, <1>2, <1>3, <1>4, <1>5, <1>6 DEF ShapeInv

\* ... and under the rules keeps lists, flags and timers in agreement.
LEMMA CompletionRule ==
  ASSUME Careful, ShapeInv, RuleInv, _workqueue_work_completion
  PROVE  RuleInv'
<1>1. FlagsFit'
  BY DEF RuleInv, FlagsFit, _workqueue_work_completion, queueVars
<1>2. StartersListed'
  BY DEF RuleInv, StartersListed, _workqueue_work_completion, queueVars
<1>3. WorkAccounted'
  BY DEF RuleInv, WorkAccounted, _workqueue_work_completion, queueVars
<1> QED
  BY <1>1, <1>2, <1>3 DEF RuleInv

\* rt_workqueue_cancel_work
LEMMA CancelWorkKeeps ==
  ASSUME ShapeInv, NEW t \in Caller, NEW w \in Work, rt_workqueue_cancel_work(t, w)
  PROVE  ShapeInv' /\ (RuleInv => RuleInv')
<1>1. _workqueue_cancel_work(w) /\ UNCHANGED <<pc, arg, work_current>>
  BY DEF rt_workqueue_cancel_work
<1>2. UsersCall' /\ CriticalAlone'
  BY <1>1 DEF ShapeInv, UsersCall, CriticalAlone, Critical
<1>3. \A u \in Caller : pc[u] = "start" => arg[u] # w
  BY DEF ShapeInv, UsersCall, rt_workqueue_cancel_work, Calling, Home
<1>4. ShapeInv'
  BY <1>1, <1>2, CancelShape DEF ShapeInv, QueueType
<1> QED
  BY <1>1, <1>3, <1>4, CancelRule

\* The cancel at the end of rt_workqueue_cancel_work_sync, of the work the caller
\* has looked at before.
LEMMA SyncCancelKeeps ==
  ASSUME ShapeInv, NEW t \in Caller, SyncCancel(t)
  PROVE  ShapeInv' /\ (RuleInv => RuleInv')
<1>1. /\ pc[t] = "cancel" /\ arg[t] \in Work /\ User[arg[t]] = t
      /\ _workqueue_cancel_work(arg[t]) /\ UNCHANGED work_current
      /\ pc' = [pc EXCEPT ![t] = "run"] /\ arg' = [arg EXCEPT ![t] = NULL]
  BY DEF SyncCancel, ShapeInv, UsersCall
<1>2. t # work_thread
  BY <1>1 DEF ShapeInv, QueueType, WorkerPC
<1>3. /\ pc' \in [Caller -> ClientPC \cup WorkerPC]
      /\ \A u \in Client : pc'[u] \in ClientPC
      /\ pc'[work_thread] = pc[work_thread] /\ arg' \in [Caller -> Work \cup {NULL}]
  BY <1>1, <1>2 DEF ShapeInv, QueueType, ClientPC, Caller
<1>4. UsersCall' /\ CriticalAlone'
  BY <1>1 DEF ShapeInv, QueueType, UsersCall, CriticalAlone, Critical
<1>5. /\ \A u \in Caller : pc'[u] = "start" <=> pc[u] = "start"
      /\ \A u \in Caller : pc[u] = "start" => arg[u] # arg[t] /\ arg'[u] = arg[u]
  BY <1>1 DEF ShapeInv, QueueType, UsersCall
<1>6. ShapeInv'
  BY <1>1, <1>3, <1>4, CancelShape
<1> QED
  BY <1>1, <1>5, <1>6, CancelRule

\* The first loop of rt_workqueue_cancel_all_work.
LEMMA CancelAllWorkKeeps ==
  ASSUME ShapeInv, NEW t \in Caller, CancelAllWork(t)
  PROVE  ShapeInv' /\ (RuleInv => RuleInv')
<1>0. pc[t] = "all_work" /\ \A u \in Caller : pc[u] # "start"
  BY DEF CancelAllWork, ShapeInv, CriticalAlone, Critical
<1>1. CASE work_list # <<>>
  <2> DEFINE w == Head(work_list)
  <2>1. _workqueue_cancel_work(w) /\ UNCHANGED <<pc, arg, work_current>>
    BY <1>1 DEF CancelAllWork
  <2>2. w \in Work
    BY <1>1, HeadFacts DEF ShapeInv, QueueType
  <2> HIDE DEF w
  <2>3. UsersCall' /\ CriticalAlone'
    BY <2>1 DEF ShapeInv, UsersCall, CriticalAlone, Critical
  <2>4. ShapeInv'
    BY <2>1, <2>2, <2>3, CancelShape DEF ShapeInv, QueueType
  <2> QED
    BY <1>0, <2>1, <2>2, <2>4, CancelRule
<1>2. CASE work_list = <<>>
  <2>1. /\ pc' = [pc EXCEPT ![t] = "all_delayed"]
        /\ UNCHANGED <<work_list, delayed_list, pending, submitting, timer, workqueue,
                       accepted, overrun, arg, work_current>>
    BY <1>2 DEF CancelAllWork, queueVars
  <2>2. t # work_thread
    BY <1>0 DEF ShapeInv, QueueType, WorkerPC
  <2>3. QueueType'
    BY <2>1, <2>2 DEF ShapeInv, QueueType, ClientPC, Caller
  <2>4. UsersCall' /\ CriticalAlone'
    BY <1>0, <2>1 DEF ShapeInv, QueueType, UsersCall, CriticalAlone
  <2>5. ShapeInv'
    BY <2>1, <2>2, <2>3, <2>4
       DEF ShapeInv, QueueType, ListsApart, WorkerFree, NoWorkAsleep
  <2>6. \A u \in Caller : pc'[u] # "start"
    BY <1>0, <2>1 DEF ShapeInv, QueueType
  <2>7. RuleInv => RuleInv'
    BY <1>0, <2>1, <2>6 DEF RuleInv, FlagsFit, StartersListed, WorkAccounted
  <2> QED
    BY <2>5, <2>7
<1> QED
  BY <1>1, <1>2

\* The body of its second loop.
LEMMA CancelAllDelayedKeeps ==
  ASSUME ShapeInv, NEW t \in Caller, CancelAllDelayed(t)
  PROVE  ShapeInv' /\ (RuleInv => RuleInv')
<1> DEFINE w == Head(delayed_list)
<1>0. pc[t] = "all_first" /\ \A u \in Caller : pc[u] # "start"
  BY DEF CancelAllDelayed, ShapeInv, CriticalAlone, Critical
<1>1. /\ _workqueue_cancel_work(w) /\ UNCHANGED <<arg, work_current>>
      /\ pc' = [pc EXCEPT ![t] = "all_delayed"]
  BY DEF CancelAllDelayed
<1>2. w \in Work
  BY HeadFacts DEF CancelAllDelayed, ShapeInv, QueueType
<1> HIDE DEF w
<1>3. t # work_thread
  BY <1>0 DEF ShapeInv, QueueType, WorkerPC
<1>4. /\ pc' \in [Caller -> ClientPC \cup WorkerPC]
      /\ \A u \in Client : pc'[u] \in ClientPC
      /\ pc'[work_thread] = pc[work_thread] /\ arg' \in [Caller -> Work \cup {NULL}]
  BY <1>1, <1>3 DEF ShapeInv, QueueType, ClientPC, Caller
<1>5. UsersCall' /\ CriticalAlone'
  BY <1>0, <1>1 DEF ShapeInv, QueueType, UsersCall, CriticalAlone
<1>6. \A u \in Caller : pc'[u] # "start"
  BY <1>0, <1>1 DEF ShapeInv, QueueType
<1>7. ShapeInv'
  BY <1>1, <1>2, <1>4, <1>5, CancelShape
<1> QED
  BY <1>0, <1>1, <1>2, <1>6, <1>7, CancelRule

-----------------------------------------------------------------------------

\* Every step keeps the shape of the queue.
LEMMA NextShape ==
  ASSUME ShapeInv, [Next]_vars
  PROVE  ShapeInv'
<1>1. CASE Worker
  BY <1>1, WorkerIdleShape, WorkerTakeShape, WorkerDoneShape, CompletionShape DEF Worker
<1>2. ASSUME NEW w \in Work, _delayed_work_timeout_handler(w)
      PROVE  ShapeInv'
  BY <1>2, DelayEndsShape
<1>3. ASSUME NEW w \in Work, NEW t \in Caller,
             \/ SubmitNow(t, w) \/ SubmitDelayed(t, w) \/ rt_workqueue_urgent_work(t, w)
             \/ rt_workqueue_cancel_work(t, w) \/ CancelSync(t, w)
      PROVE  ShapeInv'
  BY <1>3, SubmitNowShape, SubmitDelayedShape, UrgentWorkShape, CancelWorkKeeps,
     CancelSyncShape
<1>4. ASSUME NEW t \in Caller, Continue(t) \/ CancelAll(t)
      PROVE  ShapeInv'
  BY <1>4, StartTimerShape, SyncTakeShape, SyncCancelKeeps, CancelAllWorkKeeps,
     CancelAllTestShape, CancelAllDelayedKeeps, CancelAllShape DEF Continue
<1>5. CASE UNCHANGED vars
  BY <1>5 DEF vars, queueVars, ShapeInv, QueueType, ListsApart, WorkerFree, UsersCall,
              CriticalAlone, Critical, NoWorkAsleep
<1> QED
  BY <1>1, <1>2, <1>3, <1>4, <1>5 DEF Next

\* If the callers observe the rules, every step keeps lists, flags and timers in
\* agreement.
\* ... and under the rules keeps lists, flags and timers in agreement.
LEMMA NextRule ==
  ASSUME Careful, ShapeInv, RuleInv, [Next]_vars
  PROVE  RuleInv'
<1>1. CASE Worker
  BY <1>1, WorkerIdleRule, WorkerTakeRule, WorkerDoneRule, CompletionRule DEF Worker
<1>2. ASSUME NEW w \in Work, _delayed_work_timeout_handler(w)
      PROVE  RuleInv'
  BY <1>2, DelayEndsRule
<1>3. ASSUME NEW w \in Work, NEW t \in Caller,
             \/ SubmitNow(t, w) \/ SubmitDelayed(t, w) \/ rt_workqueue_urgent_work(t, w)
             \/ rt_workqueue_cancel_work(t, w) \/ CancelSync(t, w)
      PROVE  RuleInv'
  BY <1>3, SubmitNowRule, SubmitDelayedRule, UrgentWorkRule, CancelWorkKeeps,
     CancelSyncRule
<1>4. ASSUME NEW t \in Caller, Continue(t) \/ CancelAll(t)
      PROVE  RuleInv'
  BY <1>4, StartTimerRule, SyncTakeRule, SyncCancelKeeps, CancelAllWorkKeeps,
     CancelAllTestRule, CancelAllDelayedKeeps, CancelAllRule DEF Continue
<1>5. CASE UNCHANGED vars
  BY <1>5 DEF vars, queueVars, RuleInv, FlagsFit, StartersListed, WorkAccounted
<1> QED
  BY <1>1, <1>2, <1>3, <1>4, <1>5 DEF Next

\* The shape of the queue, for careful and careless callers.
THEOREM Shape == Spec => []ShapeInv
<1>1. Init => ShapeInv
  <2> SUFFICES ASSUME Init PROVE ShapeInv
    OBVIOUS
  <2>1. QueueType
    <3>1. \A t \in Caller : pc[t] = IF t = work_thread THEN "loop" ELSE "run"
      BY DEF Init
    <3>2. \A t \in Client : pc[t] = "run"
      BY <3>1, ThreadAssumption DEF Caller
    <3>3. pc[work_thread] = "loop"
      BY <3>1 DEF Caller
    <3>4. pc \in [Caller -> ClientPC \cup WorkerPC]
      BY DEF Init, ClientPC, WorkerPC
    <3> QED
      BY <3>2, <3>3, <3>4 DEF Init, QueueType, ClientPC, WorkerPC
  <2>2. ListsApart
    BY EmptyList DEF Init, ListsApart
  <2>3. WorkerFree /\ UsersCall /\ CriticalAlone /\ NoWorkAsleep
    BY DEF Init, WorkerFree, UsersCall, CriticalAlone, Critical, NoWorkAsleep
  <2> QED
    BY <2>1, <2>2, <2>3 DEF ShapeInv
<1>2. ShapeInv /\ [Next]_vars => ShapeInv'
  BY NextShape
<1> QED
  BY <1>1, <1>2, PTL DEF Spec

\* Lists, flags and timers agree, for careful callers.
THEOREM Rule == Careful => (Spec => []RuleInv)
<1> SUFFICES ASSUME Careful PROVE Spec => []RuleInv
  OBVIOUS
<1>1. Init => RuleInv
  BY EmptyList DEF Init, RuleInv, FlagsFit, StartersListed, WorkAccounted
<1>2. ShapeInv /\ RuleInv /\ [Next]_vars => RuleInv'
  BY NextRule
<1> QED
  BY <1>1, <1>2, Shape, PTL DEF Spec

\* The thread of a work queue is never suspended while its list holds a work,
\* whether or not the callers observe the rules.
THEOREM NoWorkAsleepAlways == Spec => []NoWorkAsleep
<1>1. ShapeInv => NoWorkAsleep
  BY DEF ShapeInv
<1> QED
  BY <1>1, Shape, PTL

\* The flags of a work tell which list it is in, and a timer that ends finds its
\* queue: the assertion of _delayed_work_timeout_handler holds.
THEOREM FlagsExactAlways == Careful => (Spec => []FlagsExact)
<1> SUFFICES ASSUME Careful PROVE Spec => []FlagsExact
  OBVIOUS
<1>1. ShapeInv /\ RuleInv => FlagsExact
  <2> SUFFICES ASSUME ShapeInv, RuleInv PROVE FlagsExact
    OBVIOUS
  <2>1. IsInjective(work_list \o delayed_list)
    BY ConcatInjective DEF ShapeInv, QueueType, ListsApart
  <2> QED
    BY <2>1 DEF RuleInv, FlagsFit, FlagsExact
<1> QED
  BY <1>1, Shape, Rule, PTL

\* No accepted work is lost between the lists, the timers and the two sections of
\* rt_workqueue_submit_work.
THEOREM WorkAccountedAlways == Careful => (Spec => []WorkAccounted)
<1> SUFFICES ASSUME Careful PROVE Spec => []WorkAccounted
  OBVIOUS
<1>1. RuleInv => WorkAccounted
  BY DEF RuleInv
<1> QED
  BY <1>1, Rule, PTL

=============================================================================
