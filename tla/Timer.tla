------------------------------- MODULE Timer -------------------------------
(***************************************************************************)
(* The hard timers of src/rt-thread/src/timer.c as this board builds them  *)
(* (RT_USING_TIMER_SOFT off, RT_TIMER_SKIP_LIST_LEVEL 1): one list ordered *)
(* by a tick counter that wraps, walked by rt_timer_check in the tick      *)
(* interrupt.  Threads call the functions with interrupts enabled,         *)
(* callbacks call them inside the interrupt, also on their own timer.      *)
(***************************************************************************)
EXTENDS Integers, SequencesExt

CONSTANTS
  Timer,       \* the timer objects
  TickMod,     \* rt_tick_t counts modulo TickMod; RT_TICK_MAX is TickMod - 1
  Times,       \* the durations given to rt_timer_init and SET_TIME
  MaxCalls,    \* bound on the timer calls one callback makes
  Features     \* the optional parts of the API in use

RT_TICK_MAX == TickMod - 1
Half        == RT_TICK_MAX \div 2

ASSUME TickAssumption == TickMod \in Nat /\ TickMod >= 8
\* RT_ASSERT(time < RT_TICK_MAX / 2) in rt_timer_init and rt_timer_control.
ASSUME TimesAssumption == Times # {} /\ Times \subseteq 0 .. Half - 1
ASSUME CallsAssumption == MaxCalls \in Nat
ASSUME FeaturesAssumption == Features \subseteq {"detach", "control", "own_oneshot"}

VARIABLES
  inited,        \* the timers rt_timer_init has set up and nobody detached
  activated,     \* [Timer -> BOOLEAN] RT_TIMER_FLAG_ACTIVATED
  periodic,      \* [Timer -> BOOLEAN] RT_TIMER_FLAG_PERIODIC
  init_tick,     \* [Timer -> Times]
  timeout_tick,  \* [Timer -> 0 .. RT_TICK_MAX]
  _timer_list,   \* the timers started, in the order of the list
  rt_tick,       \* the tick counter
  isr,           \* "none", "check" (the loop of rt_timer_check) or "callback"
  list,          \* the local list of rt_timer_check: at most the timer whose
                 \* callback runs
  running,       \* that timer, whether or not it is still in list
  calls,         \* timer calls the running callback has made
  stopping       \* timers a thread has found ACTIVATED inside rt_timer_stop

vars == <<inited, activated, periodic, init_tick, timeout_tick, _timer_list,
          rt_tick, isr, list, running, calls, stopping>>

\* a - b on rt_tick_t
Minus(a, b) == (a - b) % TickMod

Listed(t) == t \in ToSet(_timer_list)

Init ==
  /\ inited = {}
  /\ activated = [t \in Timer |-> FALSE]
  /\ periodic = [t \in Timer |-> FALSE]
  /\ init_tick \in {[t \in Timer |-> n] : n \in Times}
  /\ timeout_tick = [t \in Timer |-> 0]
  /\ _timer_list = <<>> /\ list = <<>>
  /\ rt_tick = 0
  /\ isr = "none" /\ running \in Timer /\ calls = 0
  /\ stopping = {}

-----------------------------------------------------------------------------
(***************************************************************************)
(* The functions.  Each runs with interrupts disabled, except for the      *)
(* check at the head of rt_timer_stop.                                     *)
(***************************************************************************)

\* A thread calls, or the running callback does.
Calling ==
  /\ isr \in {"none", "callback"} /\ (isr = "callback" => calls < MaxCalls)
  /\ calls' = IF isr = "callback" THEN calls + 1 ELSE calls

\* _timer_remove: out of whichever list holds the node.
_timer_remove(t) ==
  /\ _timer_list' = RemoveFirst(_timer_list, t)
  /\ list' = RemoveFirst(list, t)

\* Mutant of Inserted: ticks compared as numbers.
InsertedUnwrapped(s, t, tick) ==
  LET i == SelectInSeq(s, LAMBDA u : timeout_tick[u] > tick)
  IN  IF i = 0 THEN Append(s, t) ELSE InsertAt(s, i, t)

\* The list with t in front of the first timer that expires later.
Inserted(s, t, tick) ==
  LET Later(u) == LET d == Minus(timeout_tick[u], tick) IN d # 0 /\ d < Half
      i == SelectInSeq(s, Later)
  IN  IF i = 0 THEN Append(s, t) ELSE InsertAt(s, i, t)

\* Mutant of Restarted: the timeout is not advanced.
RestartedNow(t) ==
  /\ timeout_tick' = [timeout_tick EXCEPT ![t] = rt_tick]
  /\ _timer_list' = Inserted(RemoveFirst(_timer_list, t), t, rt_tick)
  /\ list' = RemoveFirst(list, t)
  /\ activated' = [activated EXCEPT ![t] = TRUE]

\* The body of rt_timer_start, which rt_timer_check shares.
Restarted(t) ==
  LET tick == (rt_tick + init_tick[t]) % TickMod
  IN  /\ timeout_tick' = [timeout_tick EXCEPT ![t] = tick]
      /\ _timer_list' = Inserted(RemoveFirst(_timer_list, t), t, tick)
      /\ list' = RemoveFirst(list, t)
      /\ activated' = [activated EXCEPT ![t] = TRUE]

\* rt_timer_init, rt_timer_create
rt_timer_init(t, n, b) ==
  /\ Calling /\ t \notin inited
  /\ inited' = inited \cup {t}
  /\ activated' = [activated EXCEPT ![t] = FALSE]
  /\ periodic' = [periodic EXCEPT ![t] = b]
  /\ init_tick' = [init_tick EXCEPT ![t] = n]
  /\ timeout_tick' = [timeout_tick EXCEPT ![t] = 0]
  /\ UNCHANGED <<_timer_list, rt_tick, isr, list, running, stopping>>

rt_timer_start(t) ==
  /\ Calling /\ t \in inited
  /\ Restarted(t)
  /\ UNCHANGED <<inited, periodic, init_tick, rt_tick, isr, running, stopping>>

\* rt_timer_detach, rt_timer_delete; nobody destroys a timer another thread is
\* stopping.
rt_timer_detach(t) ==
  /\ "detach" \in Features
  /\ Calling /\ t \in inited \ stopping
  /\ _timer_remove(t)
  /\ inited' = inited \ {t}
  /\ activated' = [activated EXCEPT ![t] = FALSE]
  /\ UNCHANGED <<periodic, init_tick, timeout_tick, rt_tick, isr, running, stopping>>

\* The interrupt-free part of rt_timer_stop.
Stopped(t) ==
  /\ _timer_remove(t)
  /\ activated' = [activated EXCEPT ![t] = FALSE]

\* rt_timer_stop: a thread's check of the flag, with interrupts enabled ...  One
\* thread at a time stands between the two: the rest of a second one would find
\* the timer stopped, and change nothing, or active, as if it checked only then.
StopCheck(t) ==
  /\ isr = "none" /\ t \in inited \ stopping /\ activated[t]
  /\ stopping' = stopping \cup {t}
  /\ UNCHANGED <<inited, activated, periodic, init_tick, timeout_tick, _timer_list,
                 rt_tick, isr, list, running, calls>>

\* ... and the rest, whatever the tick interrupt did to the timer meanwhile.
StopAct(t) ==
  /\ isr = "none" /\ t \in stopping
  /\ Stopped(t)
  /\ stopping' = stopping \ {t}
  /\ UNCHANGED <<inited, periodic, init_tick, timeout_tick, rt_tick, isr, running,
                 calls>>

\* rt_timer_stop from a callback, which nothing interrupts.
StopInCallback(t) ==
  /\ isr = "callback" /\ Calling /\ t \in inited /\ activated[t]
  /\ Stopped(t)
  /\ UNCHANGED <<inited, periodic, init_tick, timeout_tick, rt_tick, isr, running,
                 stopping>>

\* RT_TIMER_CTRL_SET_TIME, SET_ONESHOT, SET_PERIODIC
SetTime(t, n) ==
  /\ "control" \in Features /\ Calling /\ t \in inited
  /\ init_tick' = [init_tick EXCEPT ![t] = n]
  /\ UNCHANGED <<inited, activated, periodic, timeout_tick, _timer_list, rt_tick, isr,
                 list, running, stopping>>

SetMode(t, b) ==
  /\ "control" \in Features /\ Calling /\ t \in inited
  /\ list = <<t>> /\ ~b => "own_oneshot" \in Features
  /\ periodic' = [periodic EXCEPT ![t] = b]
  /\ UNCHANGED <<inited, activated, init_tick, timeout_tick, _timer_list, rt_tick, isr,
                 list, running, stopping>>

\* The tick at which a tickless idle has to wake up.
rt_timer_next_timeout_tick ==
  IF _timer_list = <<>> THEN RT_TICK_MAX ELSE timeout_tick[Head(_timer_list)]

-----------------------------------------------------------------------------
(***************************************************************************)
(* The tick interrupt.                                                     *)
(***************************************************************************)

\* rt_tick_increase, up to rt_timer_check
rt_tick_increase ==
  /\ isr = "none"
  /\ rt_tick' = (rt_tick + 1) % TickMod
  /\ isr' = "check"
  /\ UNCHANGED <<inited, activated, periodic, init_tick, timeout_tick, _timer_list,
                 list, running, calls, stopping>>

\* Mutant of Expired: due only from the tick after the timeout on.
ExpiredLate(t) == Minus(rt_tick, timeout_tick[t]) \in 1 .. Half - 1

Expired(t) == Minus(rt_tick, timeout_tick[t]) < Half

\* Mutant of CheckExpire: a one-shot timer stays ACTIVATED in its callback.
CheckExpireMarked ==
  /\ isr = "check" /\ _timer_list # <<>>
  /\ LET t == Head(_timer_list)
     IN  /\ Expired(t)
         /\ _timer_list' = Tail(_timer_list)
         /\ list' = <<t>>
         /\ running' = t
  /\ isr' = "callback" /\ calls' = 0
  /\ UNCHANGED <<inited, activated, periodic, init_tick, timeout_tick, rt_tick,
                 stopping>>

\* One turn of the loop of rt_timer_check, up to the callback.
CheckExpire ==
  /\ isr = "check" /\ _timer_list # <<>>
  /\ LET t == Head(_timer_list)
     IN  /\ Expired(t)
         /\ _timer_list' = Tail(_timer_list)
         /\ activated' = [activated EXCEPT ![t] = @ /\ periodic[t]]
         /\ list' = <<t>>
         /\ running' = t
  /\ isr' = "callback" /\ calls' = 0
  /\ UNCHANGED <<inited, periodic, init_tick, timeout_tick, rt_tick, stopping>>

\* The callback returns.  An empty list says that it started, stopped or
\* detached its timer, which is then left alone.
CallbackReturn ==
  /\ isr = "callback"
  /\ isr' = "check" /\ calls' = 0
  /\ IF list # <<>> /\ periodic[running] /\ activated[running]
     THEN Restarted(running)
     ELSE list' = <<>> /\ UNCHANGED <<timeout_tick, _timer_list, activated>>
  /\ UNCHANGED <<inited, periodic, init_tick, rt_tick, running, stopping>>

CheckEnd ==
  /\ isr = "check"
  /\ _timer_list # <<>> => ~Expired(Head(_timer_list))
  /\ isr' = "none"
  /\ UNCHANGED <<inited, activated, periodic, init_tick, timeout_tick, _timer_list,
                 rt_tick, list, running, calls, stopping>>

-----------------------------------------------------------------------------
Call(t) ==
  \/ \E n \in Times : (\E b \in BOOLEAN : rt_timer_init(t, n, b)) \/ SetTime(t, n)
  \/ \E b \in BOOLEAN : SetMode(t, b)
  \/ rt_timer_start(t) \/ rt_timer_detach(t)
  \/ StopCheck(t) \/ StopAct(t) \/ StopInCallback(t)

Check == CheckExpire \/ CallbackReturn \/ CheckEnd

Next == (\E t \in Timer : Call(t)) \/ rt_tick_increase \/ Check

Spec == Init /\ [][Next]_vars

\* The handler runs on until it ends: nothing can preempt it.
FairSpec == Spec /\ WF_vars(Check)

-----------------------------------------------------------------------------
(***************************************************************************)
(* Correctness.                                                            *)
(***************************************************************************)

\* "timer is active": RT_TIMER_FLAG_ACTIVATED is set exactly for the timers in
\* the list, and at most for the one whose callback runs; rt_timer_stop relies
\* on it to know whether there is something to remove.
ActiveListed ==
  /\ IsInjective(_timer_list)
  /\ \A t \in Timer :
       /\ Listed(t) => activated[t]
       /\ activated[t] => Listed(t) \/ list = <<t>>
  /\ list # <<>> => isr = "callback" /\ list = <<running>> /\ ~Listed(running)

\* Ticks until t expires, negative for a timer that is due.
Distance(t) ==
  LET d == Minus(timeout_tick[t], rt_tick) IN IF d < Half THEN d ELSE d - TickMod

\* rt_timer_next_timeout_tick: "the next timeout tick in the system", across
\* the wraparound of rt_tick: no listed timer expires before the one it names,
\* and between two ticks none is overdue.
NextTimeoutEarliest ==
  \A t \in ToSet(_timer_list) :
    /\ Distance(Head(_timer_list)) <= Distance(t)
    /\ timeout_tick[Head(_timer_list)] = rt_timer_next_timeout_tick
    /\ Distance(t) >= (IF isr = "none" THEN 0 ELSE -1)

\* The timers implement the countdown of TimerService: each callback comes at
\* its tick, in the order of the deadlines, whatever the threads and the other
\* callbacks start, stop and reconfigure, and wherever rt_tick wraps.
Service == INSTANCE TimerService WITH
  made  <- inited,
  armed <- ToSet(_timer_list),
  left  <- [t \in Timer |-> IF Listed(t) THEN Distance(t) ELSE 0],
  time  <- init_tick,
  phase <- CASE isr = "none" -> "idle" [] isr = "check" -> "expire" [] OTHER -> isr,
  again <- {t \in ToSet(list) : activated[t]}

ServiceSpec == Service!Spec

\* rt_timer_check ends: callbacks that restart timers, their own included, do
\* not keep the tick interrupt busy for ever.  A duration of 0, which the code
\* accepts, would: the timer is due again as soon as it is started.
HandlerEnds == [](\A t \in Timer : init_tick[t] > 0) => []<>(isr = "none")

=============================================================================
