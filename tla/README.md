# RT-Thread on the NK-980IoT board: a TLA+ model of the kernel

This directory is a verification project for the RT-Thread 4.1.1 kernel as this
repository builds it (`src/rtconfig.h`: one ARM926 core, no SMP, 32 priorities,
hard timers only). It models the part everything else in the repository rests
on: who has the CPU, when timers fire, and how threads exclude, wake and feed one
another through the kernel's and the device framework's IPC objects.

Contents: [the system](#the-system), [the modules](#the-modules),
[the runs](#the-runs), [rules for callers](#rules-for-callers),
[fairness](#fairness), [the proofs](#the-proofs), [findings](#findings),
[what is not modelled](#what-is-not-modelled), [the plan](#the-plan).

## The system

All paths are below `src/rt-thread/` unless they start with `src/`.

| component | source | state | operations | hard parts |
|---|---|---|---|---|
| scheduler | `src/scheduler.c` | ready lists, priority bitmap, current thread, lock nesting | insert, remove, `rt_schedule`, enter/exit critical | called from threads and, several times in a row, from one interrupt handler |
| threads | `src/thread.c` | state, priority, time slice, thread timer | init, startup, suspend, resume, sleep, yield, control, delete, detach, exit | calls that enable interrupts half way through |
| idle, defunct queue | `src/idle.c` | queue of closed threads | enqueue, reclaim | a thread queues itself while it still runs on its stack |
| interrupts | `src/irq.c`, `libcpu/arm/arm926` | nesting count, switch flag, from, to | enter, leave, deferred context switch | the switch asked for inside a handler happens after it |
| tick | `src/clock.c` | `rt_tick` | `rt_tick_increase` | wraparound; time slice and timers in one handler |
| hard timers | `src/timer.c` | a list ordered by timeout | init, start, stop, detach, control, check | callbacks that change the list being walked; wraparound |
| mutex | `src/ipc.c` | owner, hold count, saved priority, wait list | take, trytake, release, detach | time-out against hand-over, priority inheritance |
| semaphore | `src/ipc.c` | value, wait list | take, trytake, release, RESET, detach | time-out, reset and signal against hand-over; the limit of the value |
| event | `src/ipc.c` | set of bits, wait list | send, recv, RESET, detach | AND, OR and CLEAR waiters scanned while they leave the list |
| mailbox | `src/ipc.c` | ring of words, two wait lists | send, send_wait, urgent, recv, RESET, detach | woken threads own nothing; recomputed time-outs |
| message queue | `src/ipc.c` | node lists, two wait lists | send, send_wait, urgent, recv, RESET, detach | as the mailbox, and copies outside the critical sections |
| memory pool | `src/mempool.c` | list of free blocks, wait list | alloc, free, detach | LIFO waiters, recomputed time-outs |
| signals | `src/signal.c` | pending and masked sets | kill, deliver, wait | delivery to a thread inside an IPC call |
| completion | `components/drivers/ipc/completion.c` | flag, one waiter | wait, done | unlocked test; time-out racing done |
| wait queue | `components/drivers/ipc/waitqueue.c` | flag, nodes on the waiters' stacks | wait, wakeup | a wakeup for a waiter that has timed out |
| data queue | `components/drivers/ipc/dataqueue.c` | ring, two flags, two wait lists | push, pop, reset, deinit | low water mark; indices that meet |
| work queue | `components/drivers/ipc/workqueue.c` | work list, delayed list, current work, worker | submit, urgent, cancel, cancel_sync, cancel_all | timers, callers and the worker change the same work |
| ring buffers, pipes | `components/drivers/ipc` | indices with a mirror bit | put, get | sequential; locked by their users |
| memory | `src/mem.c`, `src/memheap.c` | block lists | alloc, realloc, free | sequential behind one lock |
| objects, devices, start-up | `src/object.c`, `src/device.c`, `src/components.c`, `src/kservice.c` | container lists | register, find | sequential |
| drivers, DFS, finsh, net, GUI, packages, applications | `components/`, `src/libraries`, `src/packages`, `src/applications` | | | clients of the kernel, mostly vendored |

How they interact. A thread calls the kernel; the kernel changes the ready lists
with interrupts disabled and then calls `rt_schedule`. The tick interrupt charges
the time slice, walks the timers and so wakes threads whose wait has timed out;
device interrupts wake threads through IPC objects. Each of these may call
`rt_schedule`; inside an interrupt it only records the switch, and the tail of
`vector_irq` performs it. IPC objects suspend a thread by linking it in their own
list and wake it by `rt_thread_resume`; the woken thread tells from `thread->error`
why. Priority inheritance goes through `RT_THREAD_CTRL_CHANGE_PRIORITY`. A signal
resumes a waiting thread or puts a frame on its stack. A closed thread goes to the
defunct queue, and the idle thread reclaims it.

What makes each part correct. Bitmap, lists and thread states agree whenever an
interrupt can look; the most urgent ready thread runs; registers go to the right
stack; a closed thread is never run again; equals share the CPU. A timer's
callback runs at its tick, in order, and the handler ends. A mutex has an owner
or is free with nobody waiting; the owner is as urgent as its waiters. For every
object on which threads wait: a suspended thread stands in exactly one list, a
call reports success exactly when it got what it asked for, nothing lies
available beside a sleeping thread, and a call that waits several times keeps its
deadline. Mailbox, message queue and data queue are bounded queues. No accepted
work is lost, and a synchronous cancel returns.

## The modules

| module | what it is |
|---|---|
| `Scheduler` | scheduler, threads, idle's queue, tick slice, interrupts and context switch |
| `MCScheduler` | its instances for TLC |
| `ListLemmas` | what removing, inserting, appending and taking the head do to a list without repetitions or to an ordered one |
| `SchedulerProofs` | the inductive invariant of `Scheduler` and the theorems |
| `Timer` | `timer.c` with a wrapping tick |
| `TimerService` | the abstract countdown `Timer` implements |
| `MCTimer` | the instance of `Timer` |
| `TimerProofs` | its invariant, its theorems and the refinement of `TimerService` |
| `Mutex`, `MCMutex` | the mutexes of `ipc.c` and their instances |
| `MutexProofs` | their invariants and theorems |
| `IpcThread` | the thread's side of every blocking call: wait lists, timed waits, wakeups, the tick, detaching |
| `Semaphore`, `Event`, `Mailbox`, `MessageQueue`, `MemPool`, `Completion`, `WaitQueue`, `DataQueue` | one object each; all extend `IpcThread` |
| `Channel` | the bounded queue that `Mailbox`, `MessageQueue` and `DataQueue` implement |
| `Signal` | signals to threads that run, wait or have just been woken |
| `Ipc`, `MCIpc` | the composition of the objects, the tick and signals, and its instances |
| `IpcProofs` | the invariant all objects share, those of single objects, and the theorems |
| `ChannelProofs` | rings read as sequences, the refinement of `Channel` by mailbox and data queue, and that no wakeup is lost in a mailbox, a memory pool or a data queue |
| `QueueProofs` | the nodes of the message queue, its refinement of `Channel`, that no wakeup is lost in it, and the types of `Ipc` |
| `WorkQueue`, `MCWorkQueue` | the work queue and its instance |
| `WorkQueueProofs` | its invariants and theorems |

In every module a definition named "Mutant of X" sits before `X`. It is a
plausible wrong version of `X`; replacing `X` by it breaks the property that
`PROJECT.json` names, which shows that the property depends on that code.

### Scheduler

A step is a stretch of code that no interrupt can split. The functions on the
ready lists are operators from a snapshot `k` of the shared state to the next
snapshot (`rt_schedule_insert_thread(k, t)`, `rt_schedule(k)`, ...), so an action
reads like the function it stands for: `Commit(rt_schedule(Resumed(Kernel, t)))`.

* `stat`, `yield`, `current_priority`, `remaining_tick`, `thread_timer` are fields of
  `struct rt_thread`. `"NULL"` is a control block that is unused or reclaimed.
* `table`, `group`, `defunct`, `rt_current_thread`, `lock_nest` are the globals of
  `scheduler.c` and `idle.c`; `group` is the set of bits set.
* `waiting` is the set of threads whose `tlist` is in the wait list of some object. A
  thread that sleeps is suspended and in none; one that is being deleted has been
  unlinked (`rt_list_remove`), so no release finds it any more (`WaitersSuspended`).
* `isr`, `flag`, `from`, `to`, `cpu` are the interrupt handler's progress,
  the three variables of `context_gcc.S` and the thread whose registers are loaded.
  `cpu` and `rt_current_thread` differ between a switch inside a handler and its end.
* `pc` and `arg` record what a thread still has to do where the code enables
  interrupts in the middle of a call: `"schedule"` (suspended or woken somebody,
  `rt_schedule` still to come), `"startup"` (`rt_thread_startup` after the check of
  `rt_thread_resume`), `"resume"` (`rt_thread_resume` after its check),
  `"delete"` (`rt_thread_delete` between removing and closing).
* `deferred` is a history variable: a call that leaves `rt_schedule` to its
  caller (`rt_thread_resume`, `CHANGE_PRIORITY`) has returned and `rt_schedule` has
  not run since.

`Block` stands for every way in which a thread suspends itself, `Wake` and
`DeviceWake` for every IPC call that resumes a waiter and ends in `rt_schedule`, so
the scheduler is checked against all of them at once. When a thread timer expires
is left open here. `Calls` selects the optional services an instance uses (create, exit,
wait, delete, resume, priority, critical), to keep its state space small. Without
`"wait"` threads sleep but wait for no object, and no device interrupt comes.

Guards that come from assertions: a blocking IPC call needs an unlocked scheduler
(`RT_DEBUG_SCHEDULER_AVAILABLE`). Others are rules for callers, below.

### Timer and TimerService

`rt_tick_t` is a number modulo `TickMod`; all comparisons are the code's unsigned
differences against `RT_TICK_MAX / 2`. `_timer_list` is the list in its order, `list`
the local list of `rt_timer_check` that tells it whether the callback touched its
own timer. Threads call the functions between interrupts, callbacks during them
(`Calling`), and `rt_timer_stop` by a thread is two steps because it reads the flag
with interrupts enabled. Creating and deleting (`rt_timer_create`, `rt_timer_delete`)
are the same actions as init and detach. `Features` selects `detach`, `control` and
`own_oneshot` (a callback that makes its own timer one-shot; see the findings).

`TimerService` has no list and no wraparound: each armed timer has a number of
ticks left; a tick decrements all of them, the handler calls what is due, earliest
first, and ends only when nothing is due. The refinement mapping turns
`timeout_tick` into the signed distance from `rt_tick`.

### Mutex

Which thread runs is left open: any thread that is not waiting may take its
next step. That includes every schedule the scheduler can produce, so the
invariants hold under the real one. One action per outcome of `rt_mutex_take`
(`TakeAgain`, `TakeFree`, `TakeFails`, `TakeWait`) and `rt_mutex_release` (`ReleaseFails`,
`ReleaseInner`, `ReleaseFree`, `ReleaseHandOver`). A waiter passes through `"wait"` and
`"return"`, where it has been woken and not yet looked at `thread->error`.
`DetachTest` and `DetachResume` are the two halves of a turn of
`_ipc_list_resume_all`. `Nested` says whether a thread may ask for a mutex while it
owns another; `Detaches` whether mutexes are detached.

### IpcThread, the objects and Ipc

As in `Mutex` the schedule is left open, and a step is one section with interrupts
disabled; a call that does not wait therefore also stands for one from an interrupt
handler. `IpcThread` has what the blocking calls share:

* `suspend_thread` maps each list to the threads in it, `pc` and `op` say where a
  thread is and in which call, `error` is `thread->error`.
* `thread_timer` is the tick at which the thread's timer expires. `Tick` is the tick
  interrupt: it wakes every thread whose timer is due with `ETIMEOUT`.
* `timeout` and `tick_delta` are the local variables with which `rt_mb_send_wait`,
  `rt_mb_recv`, `rt_mq_send_wait`, `rt_mq_recv` and `rt_mp_alloc` compute what is left of
  their time (`TimeLeft`); `budget` is a history variable that counts the caller's
  time down independently, for `DeadlineKept`.
* `Suspend`, `Wait`, `Resume`, `WaitAgain`, `WaitFailed` are the code fragments all
  objects repeat; `ResumeAllTest` and `ResumeAllNext` are `_ipc_list_resume_all`, whose
  test is made with interrupts enabled.

Each object module adds its own fields under their C names, one action per section
of each function, and its properties.

* `Semaphore`: `granted` is a history variable, the threads a release has resumed.
* `Event`: `rt_event_send` is a fold of `Visit`, the body of its loop, over the list.
* `Mailbox`: the ring with its two offsets. `MessageQueue`: nodes, `next` pointers,
  head, tail and free list. A send takes a node, copies (`SendCopy`) and links it; a
  receive unlinks a node, copies (`RecvCopy`) and frees it; each is three steps.
* `MemPool`: a woken thread computes the time left before it disables interrupts
  (`MpTimeLeft`, then `MpAgain`).
* `Completion`: `rt_completion_done` is `DoneTest` and `DoneAct`. `posted`, `notified` and
  `late` are history variables.
* `WaitQueue`: `waiting_list` holds the nodes on the waiters' stacks; a waiter is
  unlinked by the wakeup or, after its timeout, by itself (`WqueueReturn`).
* `DataQueue`: `rt_data_queue_reset` empties the ring in one section, and then wakes
  both lists with the scheduler locked (`DqResetLock`, `Unlocked`).
* `Signal`: one signal that every thread has unmasked. `at` says whether a thread that
  has suspended itself has reached `rt_schedule`; `sig` whether a signal waits for the
  end of `rt_schedule` (`"pending"`), sits as a frame on the stack of a thread off the CPU
  (`"entry"`; it runs when the thread gets the CPU, also in the middle of `rt_schedule`), or
  has been left by an interrupt (`"left"`). `KillSelf` is a thread that signals itself.

`Channel` is a bounded queue with a message in the hand of each receiver that has
taken it and not yet returned. The mapping reads the ring from `out_offset`
(`get_index`) on, or follows `next` from `msg_queue_head`.

`Ipc` composes them. `Objects` says which kinds exist, `MaxObjects` how many at a time;
objects are initialised, used, detached and initialised again.

### WorkQueue

`work_list`, `delayed_list`, `work_current` and the flags of each work are those of
`workqueue.c`; `timer` is the set of works whose delay timer runs. The work thread is
four steps: `WorkerIdle`, `WorkerTake`, `WorkerDone`, `_workqueue_work_completion`.
`rt_workqueue_submit_work` with a delay is two, because the timer is started after
interrupts are enabled; `rt_workqueue_cancel_work_sync` is an unlocked test followed
by a wait or a cancel; `rt_workqueue_cancel_all_work` is a loop under the scheduler
lock that timers may interrupt. `accepted` and `overrun` are history variables.

## The runs

| run | instance | result |
|---|---|---|
| `sched_life` | idle, main and one thread on three priorities, slices of one tick, all services | pass |
| `sched_fair` | three threads of one priority above idle, slices of one and two ticks, create, sleep, yield and critical sections, fairness | pass |
| `sched_delete` | as `sched_life` with create, exit, wait and delete, and with `TimedDelete` | `ClosedUnlinked` is violated |
| `timer_api` | two timers, durations 0 and 2, tick modulo 8, one call per callback, the whole API, fairness | pass |
| `mutex_api` | three threads, two mutexes, nested, detached, hold limit 2 | pass |
| `mutex_fair` | three threads, two mutexes, a thread owns one at a time, fairness | pass |
| `mutex_nested` | three threads, two mutexes, nested | `Inherited` is violated |
| `ipc_sync` | three threads of two priorities on a semaphore (with signals), event set, memory pool, completion, wait queue or data queue | pass |
| `ipc_queue` | the same threads on a mailbox or a message queue | pass |
| `ipc_detach` | a semaphore detached while threads wait with a timeout | `ResumesThread` is violated |
| `ipc_signal` | a semaphore and signals at any moment | `UnitKept` is violated |
| `workqueue` | two clients with a work each, and a work that work functions submit, fairness | pass |

What they show, property by property.

Scheduler:

* `ReadyQueueConsistent`: bitmap, ready lists, wait lists and states agree in every
  interruptible state, so `rt_schedule` neither misses a thread nor takes the head of an
  empty list, and a release finds suspended threads only.
* `ClosedUnlinked`: a closed thread is in the defunct queue once and in no ready list.
* `OneRunning`: a suspended thread woken before it reaches `rt_schedule` becomes
  RUNNING again and is not queued as well.
* `TimeoutAssertion`: the `RT_ASSERT` at the head of `_thread_timeout`.
* `ContextExact`: the chain of switches one handler may ask for ends with the
  interrupted thread's registers in its own stack.
* `HighestPriorityRuns`: outside critical sections, and once `rt_schedule` has run, no
  ready thread is more urgent than the running one.
* `ZombieStaysOff`, `CriticalKeepsCpu`: what a step may never do: revive a closed thread
  or give it the CPU, take the CPU from a thread inside a critical section.
* `NoStarvation`: round robin reaches every thread that nobody outranks. Two threads
  wait in the list of the third, so the order in which the list is served matters: the
  mutant `InsertAtHead`, a list served last come, first served, breaks it.

Timers:

* `ActiveListed`: `RT_TIMER_FLAG_ACTIVATED` says whether a timer is in the list.
* `NextTimeoutEarliest`: the head of the list is the next timeout, across the wrap.
* `ServiceSpec`: `Timer` implements `TimerService`.
* `HandlerEnds`: `rt_timer_check` terminates as long as no duration is 0.

Mutexes:

* `FreeOrOwned`, `WaitersExact`, `HandOverExact`: no waiter is lost, and success is
  reported exactly to the thread that owns the mutex.
* `Inherited`, `PriorityRestored`: inheritance and its end.
* `UrgentServed`: the most urgent waiter gets the mutex.

IPC objects:

* `SuspendedListed`: a thread is suspended exactly if it stands, once, in the list of
  its call, and only then can its timer fire.
* `NoIdleUnit`, `NoMissedEvent`, `PoolWakeups`, `ChannelWakeups`: no unit, bit, block,
  message or free place lies idle beside a sleeping thread. Where woken threads own
  nothing (pools, mailboxes, queues), enough of them are on their way.
* `SemHandOver`, `CompletionKept`: a woken thread finds `RT_EOK` exactly if it got the
  unit or the completion, and a done is not forgotten.
* `DeadlineKept`: a call that waits several times keeps the caller's deadline, across
  the wrap of the tick.
* `WaitNodesLive`: no node of a wait queue outlives its stack frame. `WakeupDelivered`:
  a wakeup reaches a waiter.
* `NodesConserved`: each node of a message queue is in exactly one place, although
  messages are copied outside the critical sections.
* `MailboxChannel`, `QueueChannel`, `DataQueueChannel`: the three implement `Channel`. The
  last one adds that the data queue does not get stuck although a pop wakes a pusher
  only at the low water mark.

Work queue:

* `NoWorkAsleep`: the work thread does not sleep over work.
* `WorkAccounted`: an accepted work is executed or cancelled, unless its delay ends
  while it is still executed from an earlier submission.
* `FlagsExact`: flags, timers and lists agree; the assertion of the timer handler.
* `SyncReturns`: `rt_workqueue_cancel_work_sync` returns.

Bounds and why they are enough. Three priorities give a thread above, at and below
another. With idle and main there are always two runnable threads; one more suffices
for every pairwise race, and since priorities change one handler can switch twice.
`sched_fair` has two priorities, one for three equal threads and one for idle: the least
with two threads in a list and one that keeps coming back to it. In `Timer` one thread
at a time stands between the test and the rest of `rt_timer_stop` on a timer; a second
one would add nothing (`StopCheck`).
`MaxNest = 1` already distinguishes the locked and the unlocked scheduler. `TickMod = 8`
makes `RT_TICK_MAX / 2` equal 3, the least value that leaves room for durations up to
2, and each behaviour wraps many times; durations include 0, for which a timer expires
inside the handler that started it. `MaxCalls` bounds the calls of one callback; it does
not bound behaviours. Three threads and two mutexes are the least that show a
waiter, an owner and a third party, and nesting in both orders; `RT_MUTEX_HOLD_MAX = 2`
reaches the limit.

In `ipc_sync` and `ipc_queue` three threads give two waiters and one that acts, or a
woken thread, one that overtakes it and one that still waits, which is what a lost
wakeup takes. Two priorities put a late waiter before an early one. A limit of two for
the semaphore, two places in each queue, two blocks, two bits and two messages let
each structure be empty, partly full and full, and let its indices wrap. A timeout
of two ticks can be cut in half by a wakeup; `TickMod = 4` makes the tick wrap during a
wait; `MaxLag = 2`, the ticks from the start of a wait to the step of the thread woken
from it, lets a woken thread find its time used up. `MaxObjects = 1` keeps the
state space small; the objects share no state but the threads, and a thread is in one
call at a time. `lwm = 0` is what the audio driver uses; `lwm` is less than `dq_size`
because a greater mark, which `rt_data_queue_init` takes as well, acts as `dq_size - 1`.

The runs with a `VIEW` leave out of the state what nothing reads before writing it
(each MC module says what). They also leave out a signal that nothing handles (`"left"`):
all it does is to keep another one away, and no signal need come anyway. The runs of
`MCIpc` also use that the two threads of
equal priority and the two messages are interchangeable. The fairness runs use
neither. `mutex_api` does not check for deadlock, because threads that take two
mutexes in opposite orders without a timeout really do deadlock; every other passing
run does. Every passing run reaches between 30 000 and about 640 000 distinct states.

## Rules for callers

The code leaves some exclusion to its callers. Each rule is a guard of its own or a
constant, so that a reader sees what the passing runs depend on; the runs that expect
a violation drop one rule each.

* `Scheduler`: nobody starts, resumes, deletes or re-prioritises a thread that is being
  deleted (`~Deleting`); nobody deletes a thread that somebody starts or resumes, or that
  is inside such a call itself, and it does not exit meanwhile (`Unpinned`). Nobody
  sleeps, exits or deletes himself in a critical section, where `rt_schedule` would come
  back to him; idle never blocks, and nobody deletes or re-prioritises it. These hold in
  every run.
* `TimedDelete` (`Scheduler`): is a thread deleted while its thread timer runs?
  `sched_delete` allows it. A thread in a wait without timeout may be deleted in every
  run.
* `Nested` (`Mutex`): the inheritance properties hold if no thread asks for a mutex while
  it owns one. `mutex_nested` drops it. A mutex is not used while it is detached.
* `Quiet` (`IpcThread`): an object is detached only when every thread inside a call on it
  is suspended and, unless `TimedDetach`, waits without a timeout; nobody uses it
  meanwhile. `ipc_detach` sets `TimedDetach`. A reset of a data queue has the same loop
  and the same rule.
* `Polite` (`Signal`): signals spare threads that are entering or leaving a wait, and
  objects being detached. `ipc_signal` drops it.
* At most one thread waits for a completion (asserted by the code); the application
  frees each block of a pool once.
* `Careful` (`WorkQueue`): a work whose delay is running is cancelled before it is
  submitted directly; a thread in `rt_workqueue_cancel_work_sync` is more urgent than the
  work thread; no delay ends while `rt_workqueue_cancel_all_work` runs. A work has one
  user (`User`), and `cancel_all` is not called while another thread is about to start a
  delay timer.

## Fairness

* `sched_fair`: the tick keeps coming (strong fairness, because handlers exclude one
  another) and handlers finish; threads that have the CPU get on with the calls they have
  begun (`Continue`, strong because interrupts come in between), and critical sections
  end (strong, because a thread may sit in a call or be interrupted). No thread is assumed
  to block, yield or exit: the property is about threads that do none of it. The last two
  are about whoever has the CPU, not about each thread, so they promise no thread the CPU.
* `timer_api`: the handler takes its next step; nothing can preempt it. Callbacks
  return, since `MaxCalls` is finite. `HandlerEnds` has the premise that no duration is
  0: a periodic timer of duration 0 keeps the handler busy for ever, and the code
  accepts one.
* `mutex_fair`: an owner releases what it took (an obligation of the client, not of
  the kernel), and a woken thread returns from its call.
* `workqueue`: work functions end and the callers leave the work thread the CPU again
  and again (strong fairness, because a caller may lock the scheduler), and a caller
  inside a call goes on.

## The proofs

Every theorem holds for all values of the constants its module's ASSUMEs allow: any set
of threads, objects, priorities, timeouts and tick width, any length of the lists. The
sets of threads and of memory pool blocks are finite (`ThreadAssumption`,
`BlockAssumption`), which only the theorems that count threads or blocks use. What
a theorem needs beyond them is a rule for callers (above), and is a hypothesis of the
theorem. None of the properties is inductive by itself; each section below gives the
invariant that is, and what its parts are for. TLC checked each of these invariants on
the instances of the runs before it was proved.

| module | theorem states | for callers that |
|---|---|---|
| `SchedulerProofs` | `TypeOK`, `ReadyQueueConsistent`, `ClosedUnlinked`, `OneRunning`, `ContextExact`, `TimeoutAssertion`, `HighestPriorityRuns`, `ZombieStaysOff`, `CriticalKeepsCpu` | delete no thread in a timed wait (`~TimedDelete`) |
| `TimerProofs` | `NextTimeoutEarliest`; `Timer` implements `TimerService` | do anything |
| | `ActiveListed` | have no `own_oneshot` |
| `MutexProofs` | `TypeOK`, `FreeOrOwned`, `WaitersExact`, `HandOverExact` | do anything |
| | `Inherited` | keep `~Nested` |
| | `PriorityRestored` | keep `~Nested` and detach no mutex |
| `IpcProofs` | `SuspendedListed`, `WaitNodesLive`, `NoMissedEvent`, `NoIdleUnit`, `DeadlineKept` | do anything |
| | `SemHandOver` | keep `Polite` |
| | `CompletionKept`, `WakeupDelivered` | send no signals |
| `ChannelProofs` | `MailboxChannel`; `DataQueue` implements `Channel` | do anything |
| | `PoolWakeups`, `DataQueueChannel` | keep `Polite` |
| `QueueProofs` | `NodesConserved`, `QueueChannel`, `ChannelWakeups`, `TypeOK` of `Ipc` | keep `Polite` |
| `WorkQueueProofs` | `NoWorkAsleep` | do anything |
| | `FlagsExact`, `WorkAccounted` | are `Careful` |

"Do anything" is anything the model lets a caller do: what is a guard of an action
(`Quiet`, one waiter per completion, `User`) still holds.

`ListLemmas` has the facts about lists all of these rest on: what `RemoveFirst`,
`Append`, `InsertAt`, `Head` and `Tail` do to the set of elements, to a list without
repetitions and to a list ordered by a rank, and that inserting before the first larger
element keeps the order. They are proved from the definitions of the community modules.

### SchedulerProofs

The invariant `IInv` is the conjunction of

* `TypeOK`;
* `KInv(Kernel, DeletedSet, current_priority)`: the same statement about ready lists,
  bitmap, wait lists (`KWait`), defunct queue and current thread as the properties make,
  but about a
  snapshot and relative to the set of threads some other thread is deleting. This
  form lets each kernel function have one lemma about what it does to any snapshot
  (`RemoveThreadFacts`, `InsertFacts`, `ResumedInv`, `SwitchedInv`, `ScheduleInv`,
  `ClosedInv`, `ReclaimInv`), which the actions then compose;
* `ContextExact`, `TimeoutAssertion`;
* `DeleteWindow` and `ResumeWindow`: what is true of the target of a pending
  `rt_thread_delete`, `rt_thread_startup` or `rt_thread_resume` between its two halves.
  They are why a stale check does no harm to callers that keep the rules;
* `RunningUnlessScheduling`: only a thread on its way to `rt_schedule` may be current
  without being RUNNING;
* `HighestPriorityRuns`.

The two action properties also use `FlagInv`: a pending switch goes to a RUNNING
thread and was not made under the lock. Each action has a lemma of its own;
`MildStep` and `ScheduledStep` collect what the actions share.

### TimerProofs

The code compares ticks by unsigned differences, which order nothing by themselves: the
order is circular. `TimerInv` therefore says `InTime`, that every listed timer is less
than half the tick range ahead and, inside the handler, at most one tick behind, and
`InOrder`, that the list is ordered by the signed distance from `rt_tick`. With both, the
scan of `rt_timer_start` finds the right place (`GapLater`, `InsertedFacts`), and a tick
moves all distances by one and keeps the order. The bound on durations that this rests
on is asserted in `rt_timer_init` and `rt_timer_control` (`time < RT_TICK_MAX / 2`). `ListedActive` and
`LocalList` account for the list and for the handler's local list. `ActiveListed` needs
one more fact, `ActiveAccounted`: a timer whose callback runs and is ACTIVATED is
periodic; `own_oneshot` is what breaks it.

`Refinement` shows that every step of `Timer` is a step of `TimerService` or a stutter,
under the mapping of `Timer`: `Left` is the distance, `Phase` the state of the handler,
`Again` the periodic timer to be re-armed. `TimerInv` is used in every step.

### MutexProofs

`SafetyInv` adds three facts to the four properties. `DetachersAlone`: a mutex being
detached is owned by nobody else, has one detacher, its waiters have no timer and, when
the loop has found the list not empty, it stays so; this is what makes the unlocked test
of `_ipc_list_resume_all` harmless here. `WaitNoError`: a suspended thread carries
`RT_EOK`, so that the error a thread returns with was set by whoever woke it.
`OwnerPriority`: an owned mutex has a priority to restore.

`InheritInv` (for `~Nested`) adds `OneMutex`, an owner owns one mutex and is not waiting,
and `ListsOrdered`, wait lists are ordered by priority: a hand-over goes to the most
urgent waiter, who is then at least as urgent as the rest. `RestoreInv` adds that the
saved `original_priority` is the owner's own. A detach keeps an inherited priority with
the old owner, hence the second hypothesis of `PriorityRestored`.

### IpcProofs

All objects share the thread's side, so the proof treats them alike. Each section of
each call is one of two kinds: the caller suspends itself in the list of its call
(`Sleeps`), or threads of a set `S`, mostly the first waiter or nobody, are resumed
(`Wakes`); one lemma per object (`SemKind` ... `DataQueueKind`, `TickKind`) shows it,
with the calls `P` it touches. What the two kinds do to the threads and lists is proved
once: `SleepsKeeps` and `WakesKeeps`, and `Frame`, that a step in the calls `P` leaves
other calls and lists alone. An object's own invariant then has to be shown for its own
steps, for detaches, ticks and signals, and carries over all others by `OwnApart`.

* `CoreInv`: `ThreadInv` (types, the calls possible at each `pc`, and `SuspendedListed`),
  the types of the event's fields, `NodesInv` (wait queue nodes, and that a queue
  somebody waits on exists) and `ArgInv` (a detach has an object).
* `EventInv`: nobody waits for no bit at all. `NoMissedEvent` then follows through the
  scan of `rt_event_send`: bits are only cleared during it, so that a receiver the scan
  has passed over is not satisfied at its end either.
* `SemInv`: a semaphore with waiters exists, and one being detached has its list still
  to be emptied or empty, so that it cannot be created again with waiters left over.
* `DeadlineInv`: what the code computes as the time left (`Left`, from `timeout` and
  `tick_delta`) equals the caller's budget whenever a thread is suspended or has just
  been woken, and a timed wait has a timer. Its arithmetic, modulo `TickMod`, is in
  `TimerDue` and `TickNearer`. The bound `MaxLag` on how long a woken thread waits for
  the CPU is below the tick range: with a longer wait the difference of the ticks wraps.
* `SigInv` and `HandInv`: where a polite signal can find a thread, and that `error`,
  `granted` and a pending signal agree for each thread woken in `rt_sem_take`.
* `CompletionInv`: there is at most one waiter; a waiter that has timed out while a done
  is posted is what `late` records. `WakeInv`: a node whose thread is not suspended
  belongs to a thread that timed out. Both need that nobody gets a signal: a thread
  resumed by one carries `RT_EOK` until it runs, and the two properties, which say what
  `RT_EOK` means, make no exception for it.

The loops of the model (`Kept` takes threads out of a list, `Scan` visits the receivers)
are recursive functions over the positions of a list. The facts about them are proved for
every length by the least position at which they would fail.

### ChannelProofs

`Ring` reads a ring as a sequence; `RingAppend`, `RingFront` and `RingTail` say what a
write behind it, a write before it and a step of the first index do to that sequence, for
every size and across the wrap. `MailboxInv` says that the offsets are `entry` places
apart; `DataInv` that the indices meet if and only if one of the flags is set, and never
both, from which `LenFacts` computes `rt_data_queue_len`. `MailboxMoves` and
`DataQueueMoves` reduce every section of every call to one of a few moves of the ring, and
each move is a step of `Channel` or leaves it alone. `RecvInv` (a receiver has at most one
message in its hand, and only before it returns) and `SendInv` (a suspended sender keeps
its message) account for the threads between their two sections.

In these objects, and in the memory pool, a woken thread owns nothing; the properties count the woken threads. They
are not inductive: a signal may make a woken thread give up. `Coming(c)` is the
set of threads that will look at the object again in call `c`, those that have been woken,
have `RT_EOK` and no signal; `Covered(s, n, R)` says that while the list `s` is not empty,
`n` units have as many threads in `R` on their way. `CoverKept`, `CoverTaken`, `CoverGiven`
and `CoverNone` are the four ways in which a step keeps it: fewer units or more threads, a
thread that takes a unit, a unit for which the first waiter is woken, nothing to cover.

* `BackInv`: `SigInv`; a suspended thread has `RT_EOK` (`WaitInv`), so that who is woken
  for a unit does come; and `UseInv`, an object that somebody waits for or comes back to is
  there, since a detach begins when all its users are suspended and wakes them with an
  error. Without `UseInv` an object could be initialised beside its old waiters. `HoldInv`
  says the same of the threads that have a node of the message queue in their hands.
* `MailboxCover`: messages are covered by receivers, free places by senders.
* `PoolInv` and `PoolCover`: the free list has every block that the application does not
  hold, once, and as many as the counter says; free blocks are covered, by threads before
  and after they have computed the rest of their timeout.
* `DataQueueCover` and `ResetInv`: items are covered by poppers and, unless a reset is
  going on, the places from the low water mark down by pushers. A reset empties the ring
  long before it wakes the pushers; `ResetInv` says that once it has locked the scheduler
  every waiter stands in a list that is still to be emptied, so that nobody is left in
  them at its end.

`Polite` is a hypothesis because a signal that hits a thread just woken for a unit takes
the wakeup away with it; the code does not pass it on.

### QueueProofs

The message queue is the one object whose calls have three sections: a sender takes a node
off the free list, copies its message with interrupts enabled, and links the node; a
receiver unlinks a node, copies, and gives it back. In between the node is in no list, and
any number of threads may be in between.

`Chain(s, p, nx)` says that the sequence `s`, without repetitions, is what follows the
pointer `p` through the links `nx`. `Path`, which the properties use, is a recursive
function over positions; `ChainPath` shows that it returns `s`, by the least position at
which the two would differ, so that everything else can be said of sequences. Each way in
which the code changes links has a lemma: taking the head, putting a node before it or
behind the tail, and the loop of a reset, which puts the nodes of the queue on the free list
one by one and so leaves them there in reverse (`ChainReset`).

* `NodeInv`: a thread has a node exactly while it is between two sections, no two have the
  same, and what is linked or fetched next has been written.
* `Placed(f, q)`: the free list is the sequence `f`, the queue is `q`; they have no node in
  common with each other or with a thread's hand, `entry` and the tail fit `q`, each node of
  `q` holds a message, and while the queue exists there is no node but these. `QueueInv` is
  `NodeInv` with some such `f` and `q`; `NodesConserved` follows.
* `MqMoves` reduces each section of each call to a move of one node, a reset or an init.
  `MqRefines` shows that each move keeps `QueueInv` and is a step of `Channel`: linking
  sends, unlinking receives, giving the node back returns, and taking a node or copying
  is a stutter. That copying is a stutter needs both parts: the thread that copies writes
  to a node in no list, and no other thread reads or writes it.
* `QueueCover`: messages are covered by receivers and free nodes by senders, as above.
  The units are counted when a node is linked, which is later than the section in which
  room was found, so that the counts come from `Placed`.
* `TypeOK` of `Ipc` collects the types in all these invariants. `PlainInv` adds the ones
  that no other speaks of: the semaphore's value, two flags, and the pool's counter, which
  a detach leaves as it was.

`Polite` is a hypothesis because of `HoldInv`, and with it of the rule that a signal does
not take a thread out of an object that is being detached: a thread that ran on could
take a node of a queue that is going away.

### WorkQueueProofs

`ShapeInv`: the two lists have no work twice or in common, the work thread holds no work
when it sleeps, a thread inside a call on a work is that work's user, and nobody is about
to start a timer while `rt_workqueue_cancel_all_work` has locked the scheduler.
`NoWorkAsleep` follows, whatever the callers do. `RuleInv` (for `Careful`) adds that the
flags say which list a work is in and that a thread about to start a timer
(`StartersListed`) finds its work still delayed and its timer stopped: interrupts are
enabled between the two, and this is why nothing has happened to the work meanwhile.

### Only model-checked

* `NoStarvation`, `HandlerEnds`, `UrgentServed` and `SyncReturns`: liveness under fairness
  is out of the prover's reach.

Every other invariant, action property and refinement of the passing runs is a theorem.

## Findings

Each of these is a run that expects a violation.

* `sched_delete`: `rt_thread_delete` and `rt_thread_detach` act on the ready lists before
  they disable interrupts (`src/thread.c:504-514`). If the target's time-out fires in
  between, the thread is READY and queued when it is closed: it is linked in the
  defunct queue while its ready list still points at it. Nothing else can wake the
  target there: it is out of its wait list. The timer is the one way to the violation.
* `mutex_nested`: the release of one mutex drops the priority inherited through
  another (`src/ipc.c:1134`), even if mutexes are released in reverse order.
* `ipc_detach`: `_ipc_list_resume_all` tests its list with interrupts enabled
  (`src/ipc.c:226`). If the last waiter times out before the body disables them, the
  list head is taken for a thread.
* `ipc_signal`: a signal to a thread that a release has handed a unit, and that is ready
  and off the CPU, makes `rt_sem_take` fail: the frame of `_signal_entry` (`src/signal.c:132`)
  runs before the thread is back from `rt_schedule` and leaves `-RT_EINTR` in
  `thread->error` (`:480`). The unit is lost.

Other behaviour met while modelling, which the passing runs exclude by a rule or a
history variable:

* Timers. `RT_TIMER_CTRL_GET_STATE` falls through into GET_REMAIN_TIME and answers with a
  tick (`src/timer.c:597-609`). A callback that makes its own periodic timer one-shot
  leaves it ACTIVATED and in no list (`src/timer.c:679`); `ActiveListed` fails with
  `own_oneshot`.
* Mutexes. `PriorityRestored` fails as well with `Nested`: `original_priority` may itself
  be an inherited priority (`src/ipc.c:967`), and mutexes released in the order they were
  taken leave their owner with it.
* Signals. A thread that is signalled before it reaches `rt_schedule` may come back with
  `RT_EOK` and no unit. A signal that an interrupt sends to the thread it has interrupted
  is recorded (`src/signal.c:119-131`) and handled by nothing, and the same signal is not
  sent again (`"left"`).
* Completions. A done between a waiter's timeout and its return is wiped out by the
  waiter, which clears the flag whatever it returns (`late`).
* Wait queues. A wakeup may be spent on the node of a waiter that has timed out and has
  not unlinked it yet (`absorbed`).
* Memory pools. Waiters are served last come, first served (`src/mempool.c:354`), and the
  time left is computed before interrupts are disabled (`src/mempool.c:379`), so that a
  tick in between lengthens the wait; `DeadlineKept` leaves the pool out.
* Data queues. A thread that has to wait again waits its whole timeout again; with
  `lwm < size - 1` a pusher may sleep beside a free place until the queue has drained to
  the mark; and `rt_data_queue_reset` has the loop of `_ipc_list_resume_all`.
* Work queues. A work submitted with a delay and then without leaves its timer running;
  the worker clears `work->workqueue`, and the assertion at `workqueue.c:186` fails. The
  test in `rt_workqueue_cancel_work_sync` (`workqueue.c:401`) is stale if the worker
  finishes first, and the caller then waits for the next completion. A delay that ends
  while the work is executed is dropped (`overrun`), and a submission of the work that
  is being executed takes an earlier urgent submission out of the list. A delay that
  ends between test and body of `rt_workqueue_cancel_all_work` (`workqueue.c:440`) leaves
  the body without a work.

## What is not modelled

Hooks, notification callbacks, logging, error codes beyond the ones a property needs,
stack and register contents, the stack check, and the start-up sequence before the
first thread. Of signals: masks, `rt_signal_wait`, the siginfo list and its pool. In
`Scheduler` the moment of a time-out is arbitrary, which covers every timing that
`Timer` can produce; `Mutex` and `Ipc` allow every schedule, which covers the scheduler's.
The three are not composed, so that properties which need the real schedule (a
missing `rt_schedule` after a priority has been lowered, a waiter whose priority
changes) are out of the model. SMP code, soft timers and the slab allocator are not
compiled for this board.

The allocators (`mem.c`, `memheap.c`), ring buffers, pipes, the object and device
registries are sequential code behind one lock. Everything above the kernel (drivers,
file systems, shell, libc, network stack, GUI, packages) makes up by far the largest
part of the repository; it is vendored or sequential client code that reaches the
kernel through the objects modelled here. `PROJECT.json` lists every component with its
status, and every hazard that no property covers yet.

## The plan

1. (done) `Scheduler`, its runs, invariant and theorems; `Timer` against `TimerService`;
   `Mutex`.
2. (done) `IpcThread` and the objects on it; `Mailbox`, `MessageQueue` and `DataQueue`
   against `Channel`; signals; `WorkQueue`.
3. (done) `MutexProofs`, `TimerProofs` with the refinement, `WorkQueueProofs`, `IpcProofs`.
4. (done) `ChannelProofs`: the rings of mailbox and data queue against `Channel`,
   `PoolWakeups`, `DataQueueChannel` and the mailbox's half of `ChannelWakeups`.
5. (done) `QueueProofs`: `NodesConserved` of the message queue, with the used and the free
   nodes as sequences; from it `QueueChannel`, `ChannelWakeups` and `TypeOK` of `Ipc`.
6. Composition of `Scheduler` and `Mutex`: bounded priority inversion for the running
   thread, and a wait list whose members change priority.
7. `RingBuffer` as a refinement of a sequence; `mem.c` as operators on a block list.
