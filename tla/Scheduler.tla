------------------------------ MODULE Scheduler ------------------------------
(***************************************************************************)
(* The RT-Thread scheduler of the single-core build (RT_USING_SMP off):    *)
(* src/rt-thread/src/scheduler.c, thread.c, the time slice of clock.c, the *)
(* interrupt nesting of irq.c, the defunct queue of idle.c and the context *)
(* switch of libcpu/arm/arm926.                                            *)
(*                                                                         *)
(* A step is a stretch of code no interrupt can split: a section under     *)
(* rt_hw_interrupt_disable, or code that touches the caller's own state    *)
(* only.  Where a kernel call enables interrupts half way (between         *)
(* suspending a thread and rt_schedule, inside rt_thread_startup and        *)
(* rt_thread_delete, after the check of rt_thread_resume) pc[t] records    *)
(* what thread t still has to do.                                          *)
(* Interrupts do not nest on this port, so an interrupt handler is a       *)
(* sequence of steps no thread step can separate.                          *)
(***************************************************************************)
EXTENDS Integers, SequencesExt

CONSTANTS
  Thread,                  \* the thread control blocks
  Idle,                    \* tidle0, which never blocks and never exits
  Main,                    \* the thread rt_system_scheduler_start runs first
  RT_THREAD_PRIORITY_MAX,  \* number of priorities, 0 being the most urgent
  InitPriority,            \* [Thread -> priority given to rt_thread_init]
  InitTick,                \* [Thread -> time slice given to rt_thread_init]
  MaxNest,                 \* bound on nested rt_enter_critical calls
  Calls,                   \* the optional kernel services in use
  TimedDelete              \* are threads deleted while they are in a timed wait?

Priority == 0 .. RT_THREAD_PRIORITY_MAX - 1

Services == {"create", "exit", "wait", "delete", "resume", "priority", "critical"}

ASSUME ThreadAssumption == Idle \in Thread /\ Main \in Thread /\ Idle # Main
ASSUME PriorityAssumption == RT_THREAD_PRIORITY_MAX \in Nat \ {0}
ASSUME InitPriorityAssumption == InitPriority \in [Thread -> Priority]
ASSUME MainAssumption == InitPriority[Main] <= InitPriority[Idle]
ASSUME InitTickAssumption == InitTick \in [Thread -> Nat \ {0}]
ASSUME BoundAssumption == MaxNest \in Nat
ASSUME CallsAssumption == Calls \subseteq Services /\ TimedDelete \in BOOLEAN

VARIABLES
  stat,              \* [Thread -> Stat] thread->stat & RT_THREAD_STAT_MASK
  yield,             \* [Thread -> BOOLEAN] RT_THREAD_STAT_YIELD of thread->stat
  current_priority,  \* [Thread -> Priority]
  remaining_tick,    \* [Thread -> Nat]
  thread_timer,      \* [Thread -> BOOLEAN] RT_TIMER_FLAG_ACTIVATED
  table,             \* rt_thread_priority_table
  group,             \* rt_thread_ready_priority_group, the set of its bits
  defunct,           \* _rt_thread_defunct
  waiting,           \* the threads whose tlist is in the wait list of an object
  rt_current_thread,
  lock_nest,         \* rt_scheduler_lock_nest
  isr,               \* what the interrupt handler does; "none" outside
  flag,              \* rt_thread_switch_interrupt_flag
  from,              \* rt_interrupt_from_thread
  to,                \* rt_interrupt_to_thread
  cpu,               \* the thread whose registers the processor holds
  pc,                \* [Thread -> what the thread does next]
  arg,               \* [Thread -> Thread] target of its pending call
  deferred           \* history: a call changed the ready set or a priority
                     \* and returned without rt_schedule

vars == <<stat, yield, current_priority, remaining_tick, thread_timer, table,
          group, defunct, waiting, rt_current_thread, lock_nest, isr, flag, from,
          to, cpu, pc, arg, deferred>>

\* "NULL" is a control block no rt_thread_init has set up or idle has freed.
Stat == {"NULL", "INIT", "READY", "RUNNING", "SUSPEND", "CLOSE"}
PC   == {"run", "schedule", "startup", "delete", "resume"}
Isr  == {"none", "tick", "timer_check", "device"}

(* rt_interrupt_nest: handlers do not nest, see vector_irq in start_gcc.S. *)
rt_interrupt_nest == IF isr = "none" THEN 0 ELSE 1

-----------------------------------------------------------------------------
(***************************************************************************)
(* The kernel's functions on the ready lists, as operators from a snapshot *)
(* k of the state they share to the snapshot they leave.                   *)
(***************************************************************************)

Kernel == [stat |-> stat, yield |-> yield, table |-> table, group |-> group,
           defunct |-> defunct, waiting |-> waiting, current |-> rt_current_thread]

\* rt_list_remove(&thread->tlist): out of whichever list holds the node.
Unlink(k, t) ==
  [k EXCEPT !.table   = [p \in Priority |-> RemoveFirst(k.table[p], t)],
            !.defunct = RemoveFirst(k.defunct, t),
            !.waiting = k.waiting \ {t}]

\* Mutant of rt_schedule_remove_thread: the bitmap keeps the bit.
RemoveKeepsBit(k, t) == Unlink(k, t)

rt_schedule_remove_thread(k, t) ==
  LET u == Unlink(k, t)
      p == current_priority[t]
  IN  IF u.table[p] = <<>> THEN [u EXCEPT !.group = @ \ {p}] ELSE u

\* Mutant of InsertAtPriority: at the head of its list.
InsertAtHead(k, t, p) ==
  IF t = k.current
  THEN [k EXCEPT !.stat[t] = "RUNNING"]
  ELSE [k EXCEPT !.stat[t]  = "READY",
                 !.table[p] = <<t>> \o @,
                 !.group    = @ \cup {p}]

\* The current thread is in no ready list: waking it only makes it RUNNING.
InsertAtPriority(k, t, p) ==
  IF t = k.current
  THEN [k EXCEPT !.stat[t] = "RUNNING"]
  ELSE [k EXCEPT !.stat[t]  = "READY",
                 !.table[p] = Append(@, t),
                 !.group    = @ \cup {p}]

rt_schedule_insert_thread(k, t) == InsertAtPriority(k, t, current_priority[t])

\* The part of rt_thread_resume after its check; the timer is left to the
\* actions.
Resumed(k, t) == rt_schedule_insert_thread(Unlink(k, t), t)

\* The check of rt_thread_suspend is a guard of Block.
rt_thread_suspend(k, t) ==
  [rt_schedule_remove_thread(k, t) EXCEPT !.stat[t] = "SUSPEND"]

rt_thread_defunct_enqueue(k, t) == [k EXCEPT !.defunct = <<t>> \o @]

_scheduler_get_highest_priority_thread(k) == Head(k.table[Min(k.group)])

\* Does rt_schedule leave the CPU with the current thread?
Keeps(k) ==
  LET c == k.current
      highest_ready_priority == Min(k.group)
  IN  /\ k.stat[c] = "RUNNING"
      /\ \/ current_priority[c] < highest_ready_priority
         \/ current_priority[c] = highest_ready_priority /\ ~k.yield[c]

\* Mutants of Switched: the old current thread keeps its state and is not listed;
\* it is listed whatever its state.
SwitchedForgets(k, n) ==
  [rt_schedule_remove_thread([k EXCEPT !.current = n], n) EXCEPT !.stat[n] = "RUNNING"]

SwitchedRequeues(k, n) ==
  LET c == k.current
  IN  [rt_schedule_remove_thread(
         rt_schedule_insert_thread([k EXCEPT !.current = n], c), n)
         EXCEPT !.stat[n] = "RUNNING"]

\* Give the CPU to thread n, the old current thread going back to the tail of
\* its ready list if it is still runnable.
Switched(k, n) ==
  LET c  == k.current
      k1 == [k EXCEPT !.current = n]
      k2 == IF k.stat[c] = "RUNNING"
            THEN rt_schedule_insert_thread([k1 EXCEPT !.yield[c] = FALSE], c)
            ELSE k1
  IN  [rt_schedule_remove_thread(k2, n) EXCEPT !.stat[n] = "RUNNING"]

\* Mutant of rt_schedule: a locked scheduler is not honoured.
ScheduleIgnoresLock(k) ==
  IF k.group = {} \/ Keeps(k) THEN k
  ELSE Switched(k, _scheduler_get_highest_priority_thread(k))

rt_schedule(k) ==
  LET c == k.current
  IN  IF lock_nest # 0 \/ k.group = {}
      THEN k
      ELSE IF Keeps(k)
      THEN [rt_schedule_remove_thread([k EXCEPT !.yield[c] = FALSE], c)
              EXCEPT !.stat[c] = "RUNNING"]
      ELSE Switched(k, _scheduler_get_highest_priority_thread(k))

Commit(k) ==
  /\ stat' = k.stat /\ yield' = k.yield /\ table' = k.table
  /\ group' = k.group /\ defunct' = k.defunct /\ waiting' = k.waiting
  /\ rt_current_thread' = k.current

\* rt_hw_context_switch, called by rt_schedule outside interrupts.
ThreadSwitch(k) == cpu' = k.current /\ UNCHANGED <<flag, from, to>>

\* Mutant: every switch of a handler records `from'.
SwitchInterruptOverwrites(f, n) == flag' = TRUE /\ from' = f /\ to' = n

\* rt_hw_context_switch_interrupt: `from' is recorded by the first switch of a
\* handler only, `to' by every one.
rt_hw_context_switch_interrupt(f, n) ==
  /\ flag' = TRUE
  /\ from' = IF flag THEN from ELSE f
  /\ to' = n

IsrSwitch(k) ==
  /\ IF k.current = rt_current_thread
     THEN UNCHANGED <<flag, from, to>>
     ELSE rt_hw_context_switch_interrupt(rt_current_thread, k.current)
  /\ cpu' = cpu

\* Has rt_schedule run to its choice of thread?
Settles == lock_nest = 0

-----------------------------------------------------------------------------
(***************************************************************************)
(* The state rt_system_scheduler_start leaves: main runs, idle is ready.   *)
(***************************************************************************)
Init ==
  /\ stat = [t \in Thread |-> CASE t = Main -> "RUNNING" [] t = Idle -> "READY"
                                [] OTHER -> "NULL"]
  /\ yield = [t \in Thread |-> FALSE]
  /\ current_priority = InitPriority
  /\ remaining_tick = InitTick
  /\ thread_timer = [t \in Thread |-> FALSE]
  /\ table = [p \in Priority |-> IF p = InitPriority[Idle] THEN <<Idle>> ELSE <<>>]
  /\ group = {InitPriority[Idle]}
  /\ defunct = <<>> /\ waiting = {}
  /\ rt_current_thread = Main /\ cpu = Main
  /\ lock_nest = 0
  /\ isr = "none" /\ flag = FALSE /\ from = Main /\ to = Main
  /\ pc = [t \in Thread |-> "run"]
  /\ arg = [t \in Thread |-> t]
  /\ deferred = FALSE

\* c executes thread code and stands at label l.
At(c, l) == isr = "none" /\ cpu = c /\ pc[c] = l

Becomes(c, l) == pc' = [pc EXCEPT ![c] = l]

Deleting(t) == \E c \in Thread : pc[c] = "delete" /\ arg[c] = t
Resuming(t) == \E c \in Thread : pc[c] \in {"resume", "startup"} /\ arg[c] = t

\* A thread that somebody is starting or resuming does not go away, nor is one
\* that is being deleted deleted again.
Unpinned(t) == ~Deleting(t) /\ ~Resuming(t)

-----------------------------------------------------------------------------
(***************************************************************************)
(* Calls a thread makes.                                                   *)
(***************************************************************************)

\* rt_thread_init, rt_thread_create: _thread_init on an unused control block.
ThreadInit(c, t) ==
  /\ "create" \in Calls
  /\ At(c, "run") /\ stat[t] = "NULL"
  /\ stat' = [stat EXCEPT ![t] = "INIT"]
  /\ yield' = [yield EXCEPT ![t] = FALSE]
  /\ current_priority' = [current_priority EXCEPT ![t] = InitPriority[t]]
  /\ remaining_tick' = [remaining_tick EXCEPT ![t] = InitTick[t]]
  /\ thread_timer' = [thread_timer EXCEPT ![t] = FALSE]
  /\ pc' = [pc EXCEPT ![t] = "run"]
  /\ UNCHANGED <<table, group, defunct, waiting, rt_current_thread, lock_nest, isr, flag,
                 from, to, cpu, arg, deferred>>

\* rt_thread_startup: SUSPEND, and the check of rt_thread_resume ...
Startup(c, t) ==
  /\ At(c, "run") /\ stat[t] = "INIT" /\ ~Deleting(t)
  /\ stat' = [stat EXCEPT ![t] = "SUSPEND"]
  /\ yield' = [yield EXCEPT ![t] = FALSE]
  /\ pc' = [pc EXCEPT ![c] = "startup"]
  /\ arg' = [arg EXCEPT ![c] = t]
  /\ UNCHANGED <<current_priority, remaining_tick, thread_timer, table, group,
                 defunct, waiting, rt_current_thread, lock_nest, isr, flag, from,
                 to, cpu, deferred>>

\* ... then the rest of rt_thread_resume, unless the thread has been resumed before
\* the check, and rt_schedule.
StartupAct(c) ==
  /\ At(c, "startup")
  /\ \/ /\ Commit(Resumed(Kernel, arg[c]))
        /\ thread_timer' = [thread_timer EXCEPT ![arg[c]] = FALSE]
     \/ /\ stat[arg[c]] # "SUSPEND"
        /\ Commit(Kernel) /\ UNCHANGED thread_timer
  /\ Becomes(c, "schedule") /\ arg' = [arg EXCEPT ![c] = c]
  /\ UNCHANGED <<current_priority, remaining_tick, lock_nest, isr, flag, from, to,
                 cpu, deferred>>

\* The rt_schedule that ends startup, sleep, IPC calls, exit and exit_critical.
Reschedule(c) ==
  /\ At(c, "schedule")
  /\ LET k == rt_schedule(Kernel) IN Commit(k) /\ ThreadSwitch(k)
  /\ Becomes(c, "run")
  /\ deferred' = (deferred /\ ~Settles)
  /\ UNCHANGED <<current_priority, remaining_tick, thread_timer, lock_nest, isr,
                 arg>>

\* rt_thread_yield: rt_schedule runs inside the interrupt-free section.
Yield(c) ==
  /\ At(c, "run")
  /\ remaining_tick' = [remaining_tick EXCEPT ![c] = InitTick[c]]
  /\ LET k == rt_schedule([Kernel EXCEPT !.yield[c] = TRUE])
     IN  Commit(k) /\ ThreadSwitch(k)
  /\ deferred' = (deferred /\ ~Settles)
  /\ UNCHANGED <<current_priority, thread_timer, lock_nest, isr, pc, arg>>

\* rt_thread_suspend of the caller, then the wait list of the object if there is
\* one (none for a sleep), and the thread timer if the wait is timed:
\* rt_thread_sleep, rt_thread_delay_until and every blocking IPC call.  The IPC
\* calls assert an unlocked scheduler (RT_DEBUG_SCHEDULER_AVAILABLE); that nobody
\* sleeps in a critical section is up to the callers.
Block(c, timed, listed) ==
  /\ At(c, "run") /\ c # Idle /\ lock_nest = 0
  /\ stat[c] \in {"READY", "RUNNING"}
  /\ "wait" \notin Calls => timed /\ ~listed
  /\ LET k == rt_thread_suspend(Kernel, c)
     IN  Commit([k EXCEPT !.waiting = IF listed THEN @ \cup {c} ELSE @])
  /\ thread_timer' = [thread_timer EXCEPT ![c] = timed]
  /\ Becomes(c, "schedule")
  /\ UNCHANGED <<current_priority, remaining_tick, lock_nest, isr, flag, from,
                 to, cpu, arg, deferred>>

\* Mutant of Wake: the thread timer keeps running.
WakeKeepsTimer(c, t) ==
  /\ At(c, "run") /\ t \in waiting /\ stat[t] = "SUSPEND"
  /\ Commit(Resumed(Kernel, t))
  /\ Becomes(c, "schedule")
  /\ UNCHANGED <<current_priority, remaining_tick, thread_timer, lock_nest, isr,
                 flag, from, to, cpu, arg, deferred>>

\* An IPC call wakes a waiter inside its interrupt-free section (check and
\* rt_thread_resume together) and calls rt_schedule after it.  A thread that is
\* being deleted is out of its wait list: no call finds it there.
Wake(c, t) ==
  /\ At(c, "run") /\ t \in waiting /\ stat[t] = "SUSPEND"
  /\ Commit(Resumed(Kernel, t))
  /\ thread_timer' = [thread_timer EXCEPT ![t] = FALSE]
  /\ Becomes(c, "schedule")
  /\ UNCHANGED <<current_priority, remaining_tick, lock_nest, isr, flag, from,
                 to, cpu, arg, deferred>>

\* Mutant of ResumeCheck: a closed thread passes for a suspended one.
ResumeUnchecked(c, t) ==
  /\ "resume" \in Calls
  /\ At(c, "run") /\ stat[t] \in {"SUSPEND", "CLOSE"} /\ ~Deleting(t)
  /\ pc' = [pc EXCEPT ![c] = "resume"]
  /\ arg' = [arg EXCEPT ![c] = t]
  /\ UNCHANGED <<stat, yield, current_priority, remaining_tick, thread_timer,
                 table, group, defunct, waiting, rt_current_thread, lock_nest, isr, flag,
                 from, to, cpu, deferred>>

\* rt_thread_resume called directly: its check runs with interrupts enabled.
ResumeCheck(c, t) ==
  /\ "resume" \in Calls
  /\ At(c, "run") /\ stat[t] = "SUSPEND" /\ ~Deleting(t)
  /\ pc' = [pc EXCEPT ![c] = "resume"]
  /\ arg' = [arg EXCEPT ![c] = t]
  /\ UNCHANGED <<stat, yield, current_priority, remaining_tick, thread_timer,
                 table, group, defunct, waiting, rt_current_thread, lock_nest, isr, flag,
                 from, to, cpu, deferred>>

\* ... and the rest of it, whatever happened to the target in between.
ResumeAct(c) ==
  /\ At(c, "resume")
  /\ Commit(Resumed(Kernel, arg[c]))
  /\ thread_timer' = [thread_timer EXCEPT ![arg[c]] = FALSE]
  /\ Becomes(c, "run") /\ arg' = [arg EXCEPT ![c] = c]
  /\ deferred' = TRUE
  /\ UNCHANGED <<current_priority, remaining_tick, lock_nest, isr, flag, from,
                 to, cpu>>

\* rt_thread_delete, rt_thread_detach: the check and rt_schedule_remove_thread
\* come before interrupts are disabled.  The target is not inside a startup, resume
\* or delete of its own and, unless TimedDelete, not in a timed wait.
DeleteRemove(c, t) ==
  /\ "delete" \in Calls
  /\ At(c, "run") /\ t # Idle
  /\ stat[t] \notin {"NULL", "CLOSE"}
  /\ t = c => lock_nest = 0
  /\ Unpinned(t) /\ pc[t] \in {"run", "schedule"}
  /\ TimedDelete \/ ~thread_timer[t]
  /\ Commit(IF stat[t] = "INIT" THEN Kernel ELSE rt_schedule_remove_thread(Kernel, t))
  /\ pc' = [pc EXCEPT ![c] = "delete"]
  /\ arg' = [arg EXCEPT ![c] = t]
  /\ UNCHANGED <<current_priority, remaining_tick, thread_timer, lock_nest, isr,
                 flag, from, to, cpu, deferred>>

Closed(k, t) ==
  rt_thread_defunct_enqueue([k EXCEPT !.stat[t] = "CLOSE", !.yield[t] = FALSE], t)

\* ... and the interrupt-free rest; RT_THREAD_CTRL_CLOSE calls rt_schedule too,
\* which a thread that closes itself relies on.
DeleteClose(c) ==
  /\ At(c, "delete")
  /\ Commit(Closed(Kernel, arg[c]))
  /\ thread_timer' = [thread_timer EXCEPT ![arg[c]] = FALSE]
  /\ \/ Becomes(c, "schedule")
     \/ arg[c] # c /\ Becomes(c, "run")
  /\ arg' = [arg EXCEPT ![c] = c]
  /\ UNCHANGED <<current_priority, remaining_tick, lock_nest, isr, flag, from,
                 to, cpu, deferred>>

\* _thread_exit, reached when the thread's entry returns, which no thread does in a
\* critical section: rt_schedule would come back to it.
Exit(c) ==
  /\ "exit" \in Calls
  /\ At(c, "run") /\ c # Idle /\ lock_nest = 0 /\ Unpinned(c)
  /\ Commit(Closed(rt_schedule_remove_thread(Kernel, c), c))
  /\ thread_timer' = [thread_timer EXCEPT ![c] = FALSE]
  /\ Becomes(c, "schedule")
  /\ UNCHANGED <<current_priority, remaining_tick, lock_nest, isr, flag, from,
                 to, cpu, arg, deferred>>

\* RT_THREAD_CTRL_CHANGE_PRIORITY: a READY thread changes its list, any other
\* only its number; rt_schedule is not called.
ChangePriority(c, t, p) ==
  /\ "priority" \in Calls
  /\ At(c, "run") /\ t # Idle
  /\ stat[t] \notin {"NULL", "CLOSE"} /\ ~Deleting(t)
  /\ current_priority' = [current_priority EXCEPT ![t] = p]
  /\ IF stat[t] = "READY"
     THEN Commit(InsertAtPriority(rt_schedule_remove_thread(Kernel, t), t, p))
     ELSE Commit(Kernel)
  /\ deferred' = TRUE
  /\ UNCHANGED <<remaining_tick, thread_timer, lock_nest, isr, flag, from, to,
                 cpu, pc, arg>>

EnterCritical(c) ==
  /\ "critical" \in Calls
  /\ At(c, "run") /\ lock_nest < MaxNest
  /\ lock_nest' = lock_nest + 1
  /\ UNCHANGED <<stat, yield, current_priority, remaining_tick, thread_timer,
                 table, group, defunct, waiting, rt_current_thread, isr, flag, from, to,
                 cpu, pc, arg, deferred>>

\* Mutant of ExitCritical: the scheduler is unlocked without rt_schedule.
ExitCriticalNoSchedule(c) ==
  /\ "critical" \in Calls
  /\ At(c, "run")
  /\ lock_nest' = IF lock_nest <= 1 THEN 0 ELSE lock_nest - 1
  /\ UNCHANGED <<stat, yield, current_priority, remaining_tick, thread_timer,
                 table, group, defunct, waiting, rt_current_thread, isr, flag, from, to,
                 cpu, pc, arg, deferred>>

\* rt_exit_critical: never below zero; at zero it goes on to rt_schedule.
ExitCritical(c) ==
  /\ "critical" \in Calls
  /\ At(c, "run")
  /\ lock_nest' = IF lock_nest <= 1 THEN 0 ELSE lock_nest - 1
  /\ IF lock_nest <= 1 THEN Becomes(c, "schedule") ELSE UNCHANGED pc
  /\ UNCHANGED <<stat, yield, current_priority, remaining_tick, thread_timer,
                 table, group, defunct, waiting, rt_current_thread, isr, flag, from, to,
                 cpu, arg, deferred>>

\* rt_defunct_execute, run by idle: one thread out of the defunct queue.
DefunctExecute ==
  /\ At(Idle, "run") /\ defunct # <<>>
  /\ LET t == Head(defunct)
     IN  Commit([Unlink(Kernel, t) EXCEPT !.stat[t] = "NULL"])
  /\ UNCHANGED <<current_priority, remaining_tick, thread_timer, lock_nest, isr,
                 flag, from, to, cpu, pc, arg, deferred>>

-----------------------------------------------------------------------------
(***************************************************************************)
(* Interrupt handlers, entered and left through vector_irq.                *)
(***************************************************************************)

\* A driver's handler comes into play with the calls it can make.
IrqEnter(kind) ==
  /\ isr = "none"
  /\ kind = "device" => "wait" \in Calls
  /\ isr' = kind
  /\ UNCHANGED <<stat, yield, current_priority, remaining_tick, thread_timer,
                 table, group, defunct, waiting, rt_current_thread, lock_nest, flag, from,
                 to, cpu, pc, arg, deferred>>

\* Mutant of rt_tick_increase: the slice is not refilled.
TickNoRefill ==
  /\ isr = "tick"
  /\ isr' = "timer_check"
  /\ remaining_tick' = [remaining_tick EXCEPT ![rt_current_thread] = @ - 1]
  /\ Commit(Kernel) /\ IsrSwitch(Kernel)
  /\ UNCHANGED <<current_priority, thread_timer, lock_nest, pc, arg, deferred>>

\* rt_tick_increase up to rt_timer_check: the time slice of the current thread.
rt_tick_increase ==
  /\ isr = "tick"
  /\ isr' = "timer_check"
  /\ LET c == rt_current_thread
         expired == remaining_tick[c] = 1
         k == IF expired THEN rt_schedule([Kernel EXCEPT !.yield[c] = TRUE])
              ELSE Kernel
     IN  /\ remaining_tick' =
              [remaining_tick EXCEPT ![c] = IF expired THEN InitTick[c] ELSE @ - 1]
         /\ Commit(k) /\ IsrSwitch(k)
         /\ deferred' = (deferred /\ ~(expired /\ Settles))
  /\ UNCHANGED <<current_priority, thread_timer, lock_nest, pc, arg>>

\* rt_timer_check runs _thread_timeout of an expired thread timer.  When it
\* expires is left open here; module Timer models the timer list.
_thread_timeout(t) ==
  /\ isr = "timer_check" /\ thread_timer[t]
  /\ thread_timer' = [thread_timer EXCEPT ![t] = FALSE]
  /\ LET k == rt_schedule(Resumed(Kernel, t)) IN Commit(k) /\ IsrSwitch(k)
  /\ deferred' = (deferred /\ ~Settles)
  /\ UNCHANGED <<current_priority, remaining_tick, lock_nest, isr, pc, arg>>

\* A driver's handler wakes a waiter, as in Wake, through an IPC call that ends in
\* rt_schedule.
DeviceWake(t) ==
  /\ isr = "device" /\ t \in waiting /\ stat[t] = "SUSPEND"
  /\ thread_timer' = [thread_timer EXCEPT ![t] = FALSE]
  /\ LET k == rt_schedule(Resumed(Kernel, t)) IN Commit(k) /\ IsrSwitch(k)
  /\ deferred' = (deferred /\ ~Settles)
  /\ UNCHANGED <<current_priority, remaining_tick, lock_nest, isr, pc, arg>>

\* The end of vector_irq: back to the interrupted thread, or its registers to
\* the stack of `from' and on with `to'.
IrqLeave ==
  /\ isr \in {"timer_check", "device"}
  /\ isr' = "none"
  /\ cpu' = IF flag THEN to ELSE cpu
  /\ flag' = FALSE
  /\ UNCHANGED <<stat, yield, current_priority, remaining_tick, thread_timer,
                 table, group, defunct, waiting, rt_current_thread, lock_nest, from, to,
                 pc, arg, deferred>>

-----------------------------------------------------------------------------
ThreadStep(c) ==
  \/ \E t \in Thread : \/ ThreadInit(c, t) \/ Startup(c, t) \/ Wake(c, t)
                       \/ ResumeCheck(c, t) \/ DeleteRemove(c, t)
                       \/ \E p \in Priority : ChangePriority(c, t, p)
  \/ Reschedule(c) \/ Yield(c) \/ Exit(c)
  \/ \E timed, listed \in BOOLEAN : Block(c, timed, listed)
  \/ StartupAct(c) \/ ResumeAct(c) \/ DeleteClose(c)
  \/ EnterCritical(c) \/ ExitCritical(c)

IsrStep ==
  \/ \E kind \in {"tick", "device"} : IrqEnter(kind)
  \/ rt_tick_increase
  \/ \E t \in Thread : _thread_timeout(t) \/ DeviceWake(t)
  \/ IrqLeave

Next == (\E c \in Thread : ThreadStep(c)) \/ DefunctExecute \/ IsrStep

Spec == Init /\ [][Next]_vars

\* The rest of a call c has begun.
Continue(c) == StartupAct(c) \/ ResumeAct(c) \/ DeleteClose(c) \/ Reschedule(c)

\* Fairness: the tick interrupt keeps coming, handlers finish, whoever has the CPU
\* gets on with the calls it has begun, and critical sections end.  Nothing else a
\* thread may do is assumed to happen.
FairSpec ==
  /\ Spec
  /\ SF_vars(IrqEnter("tick")) /\ WF_vars(rt_tick_increase) /\ WF_vars(IrqLeave)
  /\ SF_vars(\E c \in Thread : Continue(c))
  /\ SF_vars(lock_nest > 0 /\ \E c \in Thread : ExitCritical(c))

-----------------------------------------------------------------------------
(***************************************************************************)
(* Correctness.                                                            *)
(***************************************************************************)

\* Every variable has the type its C declaration and its use give it.
TypeOK ==
  /\ stat \in [Thread -> Stat]
  /\ yield \in [Thread -> BOOLEAN]
  /\ current_priority \in [Thread -> Priority]
  /\ remaining_tick \in [Thread -> Nat \ {0}]
  /\ thread_timer \in [Thread -> BOOLEAN]
  /\ table \in [Priority -> Seq(Thread)]
  /\ group \in SUBSET Priority
  /\ defunct \in Seq(Thread)
  /\ waiting \in SUBSET Thread
  /\ rt_current_thread \in Thread
  /\ lock_nest \in 0 .. MaxNest
  /\ isr \in Isr
  /\ flag \in BOOLEAN /\ from \in Thread /\ to \in Thread /\ cpu \in Thread
  /\ pc \in [Thread -> PC]
  /\ arg \in [Thread -> Thread]
  /\ deferred \in BOOLEAN

\* The bitmap names exactly the priorities with a ready thread: rt_schedule,
\* which looks at the bitmap alone, neither misses a list nor takes the head
\* of an empty one (rt_schedule_insert_thread, rt_schedule_remove_thread).
GroupExact == group = {p \in Priority : table[p] # <<>>}

\* A list holds READY threads of its priority, each once.
ListsHoldReady ==
  \A p \in Priority :
    /\ IsInjective(table[p])
    /\ \A t \in ToSet(table[p]) : stat[t] = "READY" /\ current_priority[t] = p

DeletedByOther(t) == \E c \in Thread \ {t} : pc[c] = "delete" /\ arg[c] = t

\* No wakeup is lost: a READY thread is in the list of its priority, unless
\* another thread is half way through deleting it.
ReadyListed ==
  \A t \in Thread :
    stat[t] = "READY" => \/ t \in ToSet(table[current_priority[t]])
                         \/ DeletedByOther(t)

\* A wait list holds suspended threads only, and none that is being deleted: the
\* calls that wake a waiter take the thread they find there.
WaitersSuspended ==
  \A t \in waiting : stat[t] = "SUSPEND" /\ ~DeletedByOther(t)

\* The ready lists, the wait lists, the bitmap and the threads' states agree in
\* every state an interrupt or another thread can observe.
ReadyQueueConsistent ==
  GroupExact /\ ListsHoldReady /\ ReadyListed /\ WaitersSuspended

\* rt_thread_delete: "The thread object will be removed from thread queue": a
\* closed thread is in the defunct queue, once, and in no ready list.
ClosedUnlinked ==
  /\ IsInjective(defunct)
  /\ ToSet(defunct) = {t \in Thread : stat[t] = "CLOSE"}
  /\ \A p \in Priority : \A t \in ToSet(table[p]) : stat[t] # "CLOSE"

\* However many times one handler reschedules, the registers of the interrupted
\* thread are saved in that thread's stack and the CPU goes on with the
\* scheduler's current thread (rt_hw_context_switch_interrupt, vector_irq).
ContextExact ==
  /\ isr = "none" => ~flag
  /\ flag => from = cpu /\ to = rt_current_thread
  /\ ~flag => cpu = rt_current_thread

\* Only the current thread is RUNNING, and it is never also READY.
OneRunning ==
  /\ \A t \in Thread : stat[t] = "RUNNING" => t = rt_current_thread
  /\ stat[rt_current_thread] \notin {"NULL", "INIT", "READY"}

\* The assertion at the head of _thread_timeout: a thread timer runs only
\* while its thread is suspended, whoever wakes, deletes or resumes it.
TimeoutAssertion == \A t \in Thread : thread_timer[t] => stat[t] = "SUSPEND"

\* rt_schedule: "It will select one thread with the highest priority": outside
\* critical sections no ready thread is more urgent than the current one,
\* except while the current thread is on its way to rt_schedule or after a
\* call that leaves rt_schedule to its caller.
HighestPriorityRuns ==
  lock_nest = 0 /\ pc[rt_current_thread] # "schedule" /\ ~deferred
    => /\ stat[rt_current_thread] = "RUNNING"
       /\ \A p \in group : current_priority[rt_current_thread] <= p

\* A closed thread is not brought back to life: it stays closed until
\* rt_defunct_execute reclaims it, and once it has left the CPU it never gets it
\* back, so the stack idle frees is not in use.
ZombieStaysOff ==
  [][\A t \in Thread :
       stat[t] = "CLOSE" => /\ stat'[t] \in {"CLOSE", "NULL"}
                            /\ cpu # t => cpu' # t]_vars

\* No interrupt takes the CPU from a thread inside a critical section.
CriticalKeepsCpu == [][lock_nest > 0 => cpu' = cpu]_vars

Urgent(t) ==
  /\ stat[t] = "READY"
  /\ \A u \in Thread : stat[u] \in {"READY", "RUNNING"} =>
                          current_priority[t] <= current_priority[u]

\* Round robin: a ready thread that no runnable thread outranks gets the CPU,
\* however many equals wait beside it and whatever they do (rt_tick_increase,
\* rt_thread_yield and the order in which rt_schedule_insert_thread lists equals).
NoStarvation == \A t \in Thread : []<>~Urgent(t)


=============================================================================
