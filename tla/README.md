# ForgeRTOS in TLA+

This directory models ForgeRTOS: the scheduler with its tick and
context-switch machinery, the synchronization objects built on it, the trace,
the task stacks, the crash records, and the release image that runs a demo and
a UART monitor on the kernel. TLC checks small instances; TLAPS proves the
core's properties for every number of tasks, every set of priorities and every
even tick width above 3.

## The system

ForgeRTOS runs a fixed pool of tasks on one Cortex-M4 core. All concurrency
comes from exceptions.

- **Thread mode** runs one task. Kernel calls work inside critical sections,
  which raise BASEPRI and so mask SysTick and PendSV.
- **SysTick** advances the tick, ends the waits that are due and, if another
  task should run, pends PendSV. It outranks PendSV.
- **PendSV** has the lowest priority and performs the context switch.

Three facts make the kernel hard to test. A task that blocks keeps executing
until PendSV strikes, and a tick can end its wait before that. A call does part
of its work outside its critical section: it fixes its deadline before and reads
the outcome after. A tick can fall between PendSV entry and the critical section
in which PendSV chooses the next task.

### Inventory

| part | source | state | operations | module |
|---|---|---|---|---|
| tick, timeouts | `kernel/tick.c`, `wait_timeout.c` | tick counter, wait budget | deadline comparison, start, remaining | `Tick` |
| scheduler, wait engine | `kernel/scheduler.c` | current task, running flag, TCB state and wait fields | select, start, block, unblock, expire, switch, sleep, yield | `Scheduler` |
| task registry | `kernel/task.c` | pool, count | create (reserve, then publish) | `Scheduler` |
| exceptions | `port/cortex_m4/` | PendSV pending / active | SysTick, PendSV, yield SVC | `Scheduler` |
| invariant scanner | `kernel/diagnostics.c` | none | scan | `Diagnostics` |
| mutex | `kernel/mutex.c` | owner, effective priorities | init, lock, unlock, waiter removal | `Mutex` |
| semaphores | `kernel/semaphore.c` | count, maximum | init, take, give | `Semaphore` |
| message queue | `kernel/queue.c` | ring buffer | init, send, receive | `MessageQueue` |
| event flags | `kernel/event_flags.c` | bits, per-task request and result | init, set, clear, wait | `EventFlags` |
| trace ring | `kernel/trace.c` | ring, counters | record, enable, clear, snapshot | `Trace`, `TracedKernel` |
| task stacks | `kernel/task.c`, `task_context.c`, `portasm.S` | memory, saved SP | validate, fill, frame, save, restore, grow, watermark, guard | `TaskStack` |
| assertions, faults | `kernel/assert.c`, `port/cortex_m4/fault.c` | two crash records | capture, store by store | `CrashRecord` |
| UART driver | `bsp/stm32f446re/uart.c` | peripheral registers | init, write, try_read | `Uart` |
| demo | `src/demo.c` | counters, sequence numbers | produce, consume | `Demo` |
| monitor, bootstrap | `src/monitor.c`, `src/main.c` | position in the program | boot, poll, answer, sleep | `Release` |
| startup, board, processor support | several | none of interest | bring-up | not modelled |

## How the modules fit together

```
Tick <- Scheduler <- Diagnostics <- Mutex | Semaphore | EventFlags
                                 <- MessageQueue <- Demo <- Release -> Uart
                                 <- TracedKernel -> Trace
                                 <- TaskStack    -> CrashRecord

MessageQueue implements FifoChannel, Trace implements TraceLog
```

Each of these modules EXTENDS the core and adds its steps to the core's, so
every check runs on the real scheduler with its ticks, preemption and switches.
The object modules add calls. `TracedKernel` and `TaskStack` conjoin to every
step of the core what it records, and what it does to the stacks. `Release`
is closed: it takes the queue module's calls in the order in which `src/main.c`,
`src/demo.c` and `src/monitor.c` make them. `Diagnostics` computes the set of
violations the scanner would report. Its two stack checks are arguments:
`TaskStack` passes what it knows of the memory, and where stacks are not
modelled (`Violations`) geometry is valid and a task has a stack pointer once it
is published. The `MC*` modules hold the constants and
views of the TLC instances; `*Proofs` hold the theorems.

### State

| model | code |
|---|---|
| `tick` | `g_fr_kernel_tick_count`, modulo `TickMod` (2^32 in the code) |
| `state`, `priority`, `base_priority`, `wait` | the fields of `fr_task_t`; index 0 of `state` is the idle task |
| `task_count`, `running`, `current` | `g_fr_task_count`, `g_fr_scheduler_running`, `g_fr_scheduler_current_task` |
| `pendsv`, `switching` | PendSV pending; PendSV entered, critical section not yet reached |
| `call` | where each thread is in a kernel call, with its local `fr_wait_timeout_t` |
| `trace` | the `g_fr_trace_*` variables |
| `stack`, `saved_sp`, `pattern`, `psp` | `stack_base` and `stack_size_words`, `saved_sp`; the words of memory that hold the fill pattern; the process stack pointer |
| `assert_record`, `fault_record`, `capture` | the two crash records; the handler that owns the core and the stores it has left |
| `tx`, `rx`, `status`, `tx_left` | USART2 data and shift register; RXNE, ORE and the flags of a damaged byte (PE, FE, NE); the local copy of these flags; bytes still to write |
| `at`, `demo`, `sequence`, `expected`, `lines` | where each thread of the release image is, `g_fr_release_demo_status`, the locals of producer and consumer, lines still to print |

`SUSPENDED` is a state the code declares and never enters.

### Steps

A critical section is one step, because nothing the kernel knows of can
interrupt it. A call is cut where the code leaves a critical section:

- `fr_task_create`: `CreateReserve`, `CreatePublish`.
- `fr_mutex_lock`: `LockStart` (deadline), `LockEnter` (critical section),
  `LockReturn` (reads `wait_result` and `owner` after it). Semaphore takes and
  event waits have the same shape.
- `fr_queue_send_wait` and `fr_queue_receive_wait`: `SendStart`, then one
  `SendLoop` per pass of the `for (;;)`, and `QueueTimeout`.
- `fr_task_yield` decides (`fr_task_yield`) and then issues the SVC (`YieldSVC`).
- `SysTick_Handler` is one step: tick, expiry of every due wait in index order,
  priority recomputation for expired mutex waiters, switch request.
- PendSV is two steps, `PendSV_Entry` and `PendSV_Handler`, because SysTick may
  come between.
- A recorded event belongs to the step that records it; a tick records the
  timeout and the end of each wait in index order (`TickEvents`).
- PendSV entry writes the exception frame, with a padding word if the stack
  pointer is odd, and r4-r11 below it (`StackSwitchEntry`); the switch checks
  both stack pointers and either moves on (`StackSwitch`) or asserts
  (`SwitchAssertFails`). A tick writes a frame, too.
- A crash handler is one step per group of fields, since a debugger may halt
  the core anywhere. `CrashStep` goes on until the handler spins.
- `fr_uart_try_read` is two steps, status and data register; `fr_uart_write` is
  one step per byte and one for the final wait. The peripheral moves in between.
- Producer, consumer and monitor are cut at their critical sections and at
  their kernel and UART calls.

A thread step needs `Executes(t)`: no PendSV pending or active, and `t` current.
Calls that return false and change nothing are stuttering steps and are left out.

### Abstractions

- An item is one value, not `item_size` bytes; an event mask is a set of bits.
- A magic number is membership in the set `magic` of initialized objects.
- Debug counters are left out; nothing modelled depends on them.
- A trace entry keeps sequence number, event and task; its tick and arguments
  are payload. The 32-bit counters wrap at `CounterMod`.
- Addresses count words, 8-byte alignment is evenness. Of a word of stack memory
  the model knows whether it holds the fill pattern. What is stored may equal
  the pattern by chance, in the words `AlikeWords` of the instance.
- The memory of a stack is filled in with the step that publishes the task: the
  watermark properties speak of published tasks only. `saved_sp` is NULL from
  the reservation on, as in the code, and the scanner sees it.
- What a task does on a stack that another task has overwritten is undefined;
  the model lets such a task do nothing. The culprit goes on.
- A frame of a C function is a pushed word and, below it, up to `MaxLocals`
  words of locals, any of which may stay unwritten, the lowest ones too. With
  the padding of an exception frame these are fewer than the guard has. The
  compiler does not promise that: a task whose frames skip the eight words of
  the guard can jump it, and `OverflowNeverSilent` does not speak of it.
- A byte on the UART is whole or damaged. Reading the data register clears RXNE
  and the error flags that the preceding read of the status register has seen;
  one that is raised between the two reads stays for the next call. A line of the monitor is a number of
  bytes, an answer a number of lines.
- The maximum of the divisor computation is 2^31 - 1 instead of 2^32 - 1, TLC's
  largest number; the clock of the board is far below both.
- `holds`, `tokens`, `request`, `matched_bits`, `gap`, `passed`, `deepest`,
  `trampled`, `alike`, `owed`, `lost` and `corrupted` record what happened, so
  that properties can compare it with the state of the kernel.
- Yield is part of the core runs only. To the objects it is one more way to be
  preempted, which ticks already provide.

## What TLC checks

| run | instance | result |
|---|---|---|
| `kernel` | pool of 4 on 2 levels, every thread creates, ticks modulo 4, delay 1, a trace of 3 entries with counters modulo 5 | all hold |
| `round_robin` | 3 equal tasks, ticks modulo 8, delays 1 and 3, fair timer | all hold |
| `round_robin_preempted` | 3 tasks on 2 levels, fair timer | `RoundRobin` violated |
| `create_at_runtime` | 3 tasks, priorities 0 and 2 in every mixture, every thread creates | `HighestReadyRuns` violated |
| `mutex` | 3 tasks, 2 mutexes, timeouts 1 and for ever | all hold |
| `mutex_deadlock` | the same on 3 levels | `PrioritiesRestoredInDeadlock` violated |
| `semaphore` | 3 tasks, a binary and a counting semaphore (maximum 2), timeouts 0, 1, for ever | all hold |
| `queue_fifo` | 2 tasks, capacity 2, 2 item values, ticks modulo 6, timeouts 2 and for ever | all hold |
| `queue_wakeup` | 3 tasks, capacity 2, timeouts 1 and for ever | all hold |
| `event_flags` | 3 tasks, 2 bits, any / all / clear-on-exit requests | all hold |
| `stack` | 2 tasks and idle, stacks of 8 words, 3 guard words, contexts of 2 + 2 words, frames with one local, 3 words where data may equal the pattern, 6 bad stacks offered | all hold |
| `release` | producer, consumer and monitor, queue of 1, sequence numbers modulo 2, lines of 2 bytes | all hold |

The properties:

- **Core.** `RunningIsCurrent`: one task is RUNNING and it is current.
  `SwitchNeverTraps`: PendSV always finds a task. `HighestReadyRuns`: Thread
  mode never runs below a READY task. `NoOverdueWaiter`, `TimeoutAtDeadline`: a
  wait ends on the tick of its deadline, across wraparound. `SleepEndsByTimeout`:
  a sleep that returns has slept. `CallsConsistent`: creators do not publish one
  another's tasks. `RoundRobin`: if a task gets the CPU again and again, or keeps
  it, no task of its priority stays READY for ever. `SleepersWake`: every sleep
  ends.
- **Scanner.** `ScannerFindsNothing`: the kernel's own checker never reports a
  violation to a thread. `ScannerBlamesOnlyCreation`: if tasks create tasks, it
  reports `TASK_STATE` and `SAVED_SP` exactly while a create is unfinished, and
  nothing else ever.
- **Trace.** `TraceIsBoundedLog`: the ring implements `TraceLog`, the newest
  `TraceCapacity` of all events the kernel passed to `fr_trace_record_locked`
  while recording was on, in order. `SnapshotIsNewest`: a
  snapshot into a buffer of any size is the newest events in order, across the
  wraparound of ring and counters, and the counters account for every event.
  `TraceTellsStates`: what the last entries say of the tasks and of the CPU is
  so, unless recording was switched off in between.
- **Stacks.** `WatermarkApproximates`: the reported peak never exceeds the
  deepest word used by the task or by a context saved for it, an overflow is
  reported only if the task got into its guard, and the peak falls short by at
  most the locals of one frame unless stored data equalled the pattern.
  `OverflowNeverSilent`: who went below its stack has a broken guard, with the
  same proviso. `StacksPassScan`: what creation accepts and switches store is
  what the scanner accepts.
- **Crash records.** `CrashRecordsTrue`: a record with its magic is whole and
  describes the first cause.
- **Release image.** `MessagesConserved`: sent messages are received or queued,
  in order. `MonitorSeesBalance`: whenever the monitor can look, the demo is at
  rest and its counters agree. `UartLosesNothing`: an overrun is counted or
  still flagged, also one between the two reads of `fr_uart_try_read`; no
  damaged byte is delivered, none is overwritten on its way out. `DemoDelivers` and `BytesFetched`:
  liveness.
- **Mutex.** `OwnersKnow`: the owner field and what `fr_mutex_lock` reported
  agree, also when a timeout races a handoff. `WaitersHaveOwner`,
  `OwnerOutranksWaiters`, and `PrioritiesRestored`: outside deadlocks every
  priority is exactly the one its transitive waiters justify.
- **Semaphore.** `TokensConserved`, `NoTokenWithWaiter`.
- **Queue.** `QueueIsFifo`: the ring implements `FifoChannel` under the mapping
  `fifo <- Contents(q)`. `RingConsistent`, `NoLostWakeup`,
  `OriginalDeadlineKept`.
- **Event flags.** `NoSatisfiedWaiter`, `ResultAnswersRequest`, and
  `EventsReachATask`: a bit disappears by `fr_event_flags_clear` or with a task
  that is told of it, also within the call that sets it.

### Where the code and its documents part

1. **Round-robin under preemption.** The ring scan starts after the current
   task, whoever that is. When a higher-priority task wakes on every tick and
   blocks again, the scan restarts from its index each time and picks the same
   one of two equal-priority tasks. `docs/ARCHITECTURE.md:101` says they rotate.
2. **Creation at run time.** `fr_task_create` requests no switch, so the creator
   of a higher-priority task keeps running until the next tick or kernel call
   that reconsiders. `docs/ARCHITECTURE.md:100` says the highest READY task wins.
3. **Inheritance in a deadlock.** Inside a cycle of waits, an inherited priority
   sustains itself after its donor has timed out. `docs/ARCHITECTURE.md:161`
   says priorities are restored as waiters leave.

### Bounds

Three tasks are the least that give a preemptor and two equal tasks, a chain of
two mutex waits, a deadlock with an outside waiter, and a queue waiter that is
overtaken; the fourth slot of `kernel` lets two creators be preempted
inside a create. A tick range of 4 to 8 wraps around many times in a run; the
timeout properties of the core are checked in `round_robin`, with the longest
delay its range allows, half of it less one. Every
model bound is a constant of a `.cfg`; the state spaces are finite without
constraints. The small tick range also covers tasks that stay off the CPU for
more than half of it, which the real kernel reaches after 2^31 ticks.

In `kernel`, one tick can record four events into a trace of three, so that a
burst overwrites its own beginning. In `stack`, the stack of task 1 has data
below it and then no memory, and task 2 overflows into task 1: an overflow can
be harmless, hit a neighbour, or fault. The stacks hold a context, the guard and
a word, so that every combination of growth, unwritten locals, padding and saved
context at the edge occurs. Data may equal the pattern in the highest guard word
of task 1 and in the word above the guard of each task, where it makes the
watermark fall short and an overflow go unseen. In `release`, the producer's period is longer than
the monitor's poll, as in the image; a queue of one makes both ends wait. Sequence numbers
and counters modulo 2 are enough: they move by one, so an imbalance or a message
lost or repeated shows as a difference of one first.

Boot alone creates tasks in every run but `kernel` and `create_at_runtime`,
which is how `src/main.c` uses the kernel.

### Views

The object runs use a VIEW that replaces deadlines by their distance from the
current tick. The code uses ticks through differences modulo the tick width
only, so states that agree up to a shift of the counter have the same future,
and no property checked under a view reads a tick or a deadline in another way.
The view also drops data that the next use overwrites: the wait result of a task
in no call, an item buffer outside a send, storage slots that hold no item, the
request and result of an event wait that is over. The invariants read none of
these except to say that they have their type. The view of
`kernel` also takes sequence numbers by their distance from the next one and
drops ring slots beyond the count and `passed`, which properties read only as
the outcome of a step. The view of `stack` drops everything but the records once
the system has crashed, when nothing else can change. Of the pattern it keeps
the words that a scan from the base reaches, now or after written words below
have come to equal the pattern; below its stack it does not ask how deep a task
went; and of a task whose stack was overwritten, which never runs again, it
keeps nothing that no property reads. The liveness runs use no view.

### Fairness

`SchedulerFairSpec` assumes weak fairness of the tick, of PendSV entry and of
the PendSV handler. `fr_systick_init` starts a free-running timer, and the core
takes a pending exception when nothing of higher priority is active. Nothing is
assumed of tasks: they may compute for ever, so preemption has to do the work.

`ReleaseSpec` adds the threads of the image, whose code is known: weak fairness
of boot and of the demo, which has the CPU until it waits, and of the UART
transmitter, which shifts on its own clock. The monitor is preempted again and
again, so that its next step is enabled and disabled for ever; strong fairness
says that it executes instructions whenever it has the CPU. `BytesFetched` is
conditional on the monitor having the CPU again and again: fixed-priority
scheduling promises it nothing, and if every tick struck as soon as the demo
had handled the last one, it would never run.

## What is proved

`TickProofs` works on the modular arithmetic. `RemainingKeepsDeadline` says that
waiting again for what `fr_wait_timeout_remaining` returns ends at the original
deadline, for every tick width: the reason queue retries do not stretch a
timeout.

`SchedulerProofs` proves, for `SchedulerSpec` and every value of the constants
that satisfies `TickModAssumption` and `SchedulerAssumption`:

| theorem | property |
|---|---|
| `TypeCorrect` | `SchedulerTypeOK` |
| `OneTaskRuns` | `RunningIsCurrent` |
| `CreationIsolated` | `CallsConsistent` |
| `NobodyOverdue` | `NoOverdueWaiter` |
| `PendSVNeverTraps` | `SwitchNeverTraps` |
| `PriorityScheduling` | `HighestReadyRuns`, if tasks are created at boot only |
| `TimeoutsOnTime` | `TimeoutAtDeadline` |
| `SleepReturnsByTimeout` | `SleepEndsByTimeout` |

The inductive invariant is `CoreInv`, the conjunction of the types,
`RunningIsCurrent`, `CallsConsistent` and `NoOverdueWaiter` (theorem
`CoreInvariant`). They need one another. That a switch keeps one runner needs
the selection to return a registered task, which needs the types. That
publishing a task cannot disturb the running one needs the published slot to be
CREATED. That a timeout happens exactly on its tick needs every waiter to have
been ahead of its deadline on the tick before, which is `NoOverdueWaiter`.

The argument goes action by action (`CreateReserveCore` to `SleepCore`). Under
it lie the facts about selection (`HighestOfPicks`, `HighestAfterPicks`,
`SelectNextPicks`): in a nonempty set of tasks the CHOOSE that stands for each
scan has a value, by well-foundedness of the naturals. `PriorityScheduling` adds
that a request for a switch, or a switch, restores the property (`NextHighest`);
its assumption on creators cannot be dropped, as the run `create_at_runtime`
shows. `SleepReturnsByTimeout` adds an invariant of sleeping tasks (`SleepInv`).

### Only model-checked

Liveness (`RoundRobin`, `SleepersWake`, `DemoDelivers`, `BytesFetched`) and
everything about the objects, the trace, the stacks, the crash records and the
release image is checked by TLC on the instances above. Liveness under fairness is outside the
prover's reach, and so is what the recursive chain walk of the mutex computes
for every input.

## What is not modelled

- The text the monitor prints, and the status queries it is taken from
  (`fr_task_get_info`, `fr_trace_get_status`, `fr_uart_get_status` and the
  like): they copy fields inside a critical section and change nothing.
- The demo's latency statistics and the LED.
- The values of saved registers, the context probe (`context_probe.S`), which
  tests them, and the boot snapshot: straight-line code on hardware registers.
- Startup, linker script and board: they run once, before anything interleaves.
- A task kept off the CPU for half the tick range between fixing its deadline
  and using it (`kernel/wait_timeout.c:47`): the code assumes that this does not
  happen, and fixed-priority scheduling does not prevent it.
- Interrupts above the kernel ceiling: by the documented contract they call no
  kernel service, and no modelled state depends on them.

## Plan

Prove: the object modules by reusing the action lemmas of the core: mutex
ownership (`OwnersKnow`, `WaitersHaveOwner`), `TokensConserved`,
`RingConsistent`, `NoSatisfiedWaiter`, and that `MessageQueue` implements
`FifoChannel`; `SnapshotIsNewest` and that `Trace` implements `TraceLog`; and
`CrashRecordsTrue`.

## Running

```
tlc -workers 2 -config kernel.cfg MCKernel
tlc -workers 2 -config mutex.cfg MCMutex
tlapm SchedulerProofs.tla
```

`PROJECT.json` lists every run, the mutation that shows each property can fail,
the source lines behind each definition, the hazards and the theorems.
