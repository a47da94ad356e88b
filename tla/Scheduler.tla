------------------------------ MODULE Scheduler ------------------------------
(***************************************************************************)
(* The kernel core: task registry (kernel/task.c), scheduler and wait      *)
(* engine (kernel/scheduler.c), SysTick (kernel/tick.c, systick.c) and     *)
(* PendSV (portasm.S, pendsv.c).                                           *)
(*                                                                         *)
(* A critical section raises BASEPRI to the kernel ceiling and so masks    *)
(* both SysTick and PendSV: each critical section is one step.  Between    *)
(* two of them the exceptions may strike.  SysTick outranks PendSV and     *)
(* both outrank Thread mode, hence                                         *)
(*   - a thread executes only when no PendSV is pending or active;         *)
(*   - SysTick may run at any moment, also after PendSV has been entered   *)
(*     and before its critical section starts.                             *)
(*                                                                         *)
(* Tasks are named by their id (index + 1); the kernel-owned idle task is  *)
(* 0 and stays outside the registry; Boot is the reset thread that creates *)
(* the tasks and calls fr_scheduler_start.                                 *)
(***************************************************************************)
EXTENDS Tick

CONSTANTS
    MaxTasks,      \* FR_CONFIG_MAX_TASKS
    MaxPriority,   \* FR_CONFIG_MAX_TASK_PRIORITY
    Priorities,    \* the priorities each task may be created with
    Delays,        \* the delay_ticks tasks pass to fr_task_sleep
    Objects,       \* addresses of the synchronization objects
    Bits,          \* bit positions of an event-flag mask
    Creators,      \* the threads that call fr_task_create
    NULL

Idle == 0
Tasks == 1 .. MaxTasks
TCBs == 0 .. MaxTasks
Boot == MaxTasks + 1
Threads == Tasks \cup {Boot}

ASSUME SchedulerAssumption ==
    /\ MaxTasks \in Nat \ {0}
    /\ MaxPriority \in Nat
    /\ Priorities \in [Tasks -> SUBSET (0 .. MaxPriority)]
    /\ Delays \subseteq Ticks
    /\ Creators \subseteq Threads
    /\ NULL \notin Int
    /\ NULL \notin Objects

TaskStates == {"INVALID", "CREATED", "READY", "RUNNING", "BLOCKED", "SUSPENDED"}

ObjectReasons == {"SYNC", "MUTEX", "QUEUE_SEND", "QUEUE_RECEIVE", "EVENT_FLAGS"}
WaitReasons == {"NONE", "SLEEP"} \cup ObjectReasons
WaitResults == {"PENDING", "TIMEOUT", "SIGNALED"}

(* The wait_* fields of a TCB (wait_flags_result excepted: EventFlags has it). *)
Waits ==
    [reason : WaitReasons, object : Objects \cup {NULL}, result : WaitResults,
     has_deadline : BOOLEAN, deadline : Ticks,
     mask : SUBSET Bits, all : BOOLEAN, clear : BOOLEAN]

NoWait(result) ==
    [reason |-> "NONE", object |-> NULL, result |-> result,
     has_deadline |-> FALSE, deadline |-> 0,
     mask |-> {}, all |-> FALSE, clear |-> FALSE]

VARIABLES
    tick,           \* g_fr_kernel_tick_count
    task_count,     \* g_fr_task_count
    state,          \* fr_task_t.state, the idle task's included
    priority,       \* fr_task_t.priority, the effective priority
    base_priority,  \* fr_task_t.base_priority
    wait,           \* fr_task_t.wait_*
    running,        \* g_fr_scheduler_running
    current,        \* g_fr_scheduler_current_task
    pendsv,         \* SCB->ICSR.PENDSVSET: a PendSV is pending
    switching,      \* PendSV is active, before its critical section
    call            \* the API call each thread has in progress

tcb == <<state, priority, base_priority, wait>>
sched == <<task_count, running, current>>
schedVars == <<tick, tcb, sched, pendsv, switching, call>>

(* Where a thread is in a call: x is before its critical section, x_wait   *)
(* after the one in which it blocked.                                      *)
CallOps == {"none", "create", "sleep", "yield", "lock", "lock_wait", "take", "take_wait",
            "send", "send_wait", "receive", "receive_wait", "wait", "wait_wait"}

Calls == [op : CallOps, object : Objects \cup Tasks \cup {NULL}, timeout : Timeouts]

(* A thread that is in no kernel call. *)
NoCall == [op |-> "none", object |-> NULL, timeout |-> NoTimeout]

Call(op, object, timeout) == [op |-> op, object |-> object, timeout |-> timeout]

(* t executes Thread-mode instructions: nothing pending or active preempts it. *)
Executes(t) ==
    /\ ~pendsv
    /\ ~switching
    /\ t = IF running THEN current ELSE Boot

InUserCode(t) == Executes(t) /\ call[t] = NoCall

-----------------------------------------------------------------------------
(* Selection *)

Registered == 1 .. task_count

ReadyTasks(st) == {t \in Registered : st[t] = "READY"}

(* How many steps after cur the registry ring reaches t. *)
RingOffset(cur, t) == IF t > cur THEN t - cur ELSE t + task_count - cur

(* The first task of the index order among those of highest priority. *)
HighestOf(S, pr) ==
    CHOOSE t \in S : \A u \in S : pr[t] > pr[u] \/ (pr[t] = pr[u] /\ t <= u)

(* The same along the ring that starts after cur. *)
HighestAfter(S, pr, cur) ==
    CHOOSE t \in S : \A u \in S :
        pr[t] > pr[u] \/ (pr[t] = pr[u] /\ RingOffset(cur, t) <= RingOffset(cur, u))

fr_scheduler_select_highest_ready(st, pr) ==
    IF ReadyTasks(st) = {} THEN NULL ELSE HighestOf(ReadyTasks(st), pr)

\* Mutant: an equal task does not displace the one on the CPU.
KeepsCpuAmongEquals(st, pr, cur, best) == st[cur] = "RUNNING" /\ pr[best] <= pr[cur]

(* Whether cur goes on although best is READY. *)
KeepsCpu(st, pr, cur, best) == st[cur] = "RUNNING" /\ pr[best] < pr[cur]

fr_scheduler_select_next(st, pr, cur) ==
    IF cur = NULL THEN NULL
    ELSE IF cur = Idle
      THEN IF ReadyTasks(st) = {} THEN Idle ELSE HighestOf(ReadyTasks(st), pr)
    ELSE IF st[cur] \notin {"RUNNING", "BLOCKED"} \/ cur \notin Registered THEN NULL
    ELSE IF ReadyTasks(st) = {}
      THEN IF st[cur] = "RUNNING" THEN cur ELSE Idle
    ELSE LET best == HighestAfter(ReadyTasks(st), pr, cur)
         IN IF KeepsCpu(st, pr, cur, best) THEN cur ELSE best

SwitchNeeded(st, pr) ==
    /\ running
    /\ fr_scheduler_select_next(st, pr, current) \notin {NULL, current}

\* Mutant: the request for a context switch is forgotten.
RequestForgotten(st, pr) == pendsv' = pendsv

(* fr_scheduler_request_if_needed_locked, given the TCBs the caller leaves behind. *)
fr_scheduler_request_if_needed_locked(st, pr) ==
    pendsv' = (pendsv \/ SwitchNeeded(st, pr))

(* The waiter a wake-up goes to: highest effective priority, then lowest index. *)
Waiters(reason, object) ==
    {t \in Registered : /\ state[t] = "BLOCKED"
                        /\ wait[t].reason = reason
                        /\ wait[t].result = "PENDING"
                        /\ wait[t].object = object}

fr_scheduler_select_waiter_locked(reason, object) ==
    IF Waiters(reason, object) = {} THEN NULL
    ELSE HighestOf(Waiters(reason, object), priority)

-----------------------------------------------------------------------------
(* Blocking and waking *)

\* Mutant: the deadline of a finite wait is not recorded.
BlockedWaitForever(w, reason, object, ticks) ==
    [w EXCEPT !.reason = reason, !.object = object, !.result = "PENDING",
              !.has_deadline = FALSE, !.deadline = 0]

(* The wait_* fields fr_scheduler_block_current_locked leaves in a TCB. *)
BlockedWait(w, reason, object, ticks) ==
    [w EXCEPT !.reason = reason, !.object = object, !.result = "PENDING",
              !.has_deadline = (ticks # FR_WAIT_FOREVER),
              !.deadline = IF ticks = FR_WAIT_FOREVER
                             THEN 0 ELSE (tick + ticks) % TickMod]

(* The early returns of fr_scheduler_block_current_locked, for a task t     *)
(* that calls it from Thread mode.                                         *)
CanBlock(t, ticks) ==
    /\ ticks # 0
    /\ ticks <= FR_WAIT_MAX_FINITE_TICKS \/ ticks = FR_WAIT_FOREVER
    /\ running
    /\ t # Idle
    /\ state[t] = "RUNNING"

\* Mutant: the context switch is not requested.
BlockWithoutSwitch(t, w, reason, object, ticks) ==
    /\ state' = [state EXCEPT ![t] = "BLOCKED"]
    /\ wait' = [wait EXCEPT ![t] = BlockedWait(w, reason, object, ticks)]
    /\ pendsv' = pendsv

fr_scheduler_block_current_locked(t, w, reason, object, ticks) ==
    /\ state' = [state EXCEPT ![t] = "BLOCKED"]
    /\ wait' = [wait EXCEPT ![t] = BlockedWait(w, reason, object, ticks)]
    /\ pendsv' = TRUE

\* Mutant: a task whose wait ends before its switch is queued as READY.
ReadyAfterUnblock(t) == "READY"

(* A task whose wait ends before PendSV took it off the CPU is still current. *)
StateAfterUnblock(t) == IF t = current THEN "RUNNING" ELSE "READY"

(* fr_scheduler_unblock_task_locked, for every task of S at once.  Its     *)
(* early returns cannot be taken: S holds BLOCKED tasks only.              *)
UnblockedStates(S) == [t \in TCBs |-> IF t \in S THEN StateAfterUnblock(t) ELSE state[t]]

\* Mutant: the reason and the object of the wait are left behind.
UnblockedWaitsKept(S, result) ==
    [t \in Tasks |-> IF t \in S THEN [wait[t] EXCEPT !.result = result, !.has_deadline = FALSE]
                                ELSE wait[t]]

UnblockedWaits(S, result) == [t \in Tasks |-> IF t \in S THEN NoWait(result) ELSE wait[t]]

-----------------------------------------------------------------------------
(* Task creation: reserve a slot, build the stack outside any critical     *)
(* section, publish.                                                       *)

PoolHasRoom == task_count < MaxTasks

\* Mutant: the slot is filled in but not claimed.
CreateReserveUnclaimed(t, p) ==
    /\ InUserCode(t)
    /\ PoolHasRoom
    /\ LET id == task_count + 1 IN
         /\ p \in Priorities[id]
         /\ state' = [state EXCEPT ![id] = "CREATED"]
         /\ priority' = [priority EXCEPT ![id] = p]
         /\ base_priority' = [base_priority EXCEPT ![id] = p]
         /\ call' = [call EXCEPT ![t] = Call("create", id, NoTimeout)]
    /\ UNCHANGED <<tick, task_count, wait, running, current, pendsv, switching>>

CreateReserve(t, p) ==
    /\ InUserCode(t)
    /\ PoolHasRoom
    /\ LET id == task_count + 1 IN
         /\ p \in Priorities[id]
         /\ task_count' = id
         /\ state' = [state EXCEPT ![id] = "CREATED"]
         /\ priority' = [priority EXCEPT ![id] = p]
         /\ base_priority' = [base_priority EXCEPT ![id] = p]
         /\ wait' = [wait EXCEPT ![id] = [@ EXCEPT !.mask = {}, !.all = FALSE, !.clear = FALSE]]
         /\ call' = [call EXCEPT ![t] = Call("create", id, NoTimeout)]
    /\ UNCHANGED <<tick, running, current, pendsv, switching>>

\* Mutant: the newest slot is published, whoever reserved it.
CreatePublishNewest(t) ==
    /\ Executes(t)
    /\ call[t].op = "create"
    /\ state' = [state EXCEPT ![task_count] = "READY"]
    /\ wait' = [wait EXCEPT ![task_count] = NoWait("PENDING")]
    /\ call' = [call EXCEPT ![t] = NoCall]
    /\ UNCHANGED <<tick, priority, base_priority, sched, pendsv, switching>>

CreatePublish(t) ==
    /\ Executes(t)
    /\ call[t].op = "create"
    /\ LET id == call[t].object IN
         /\ state' = [state EXCEPT ![id] = "READY"]
         /\ wait' = [wait EXCEPT ![id] = [@ EXCEPT !.deadline = 0, !.object = NULL,
                                                   !.reason = "NONE", !.result = "PENDING",
                                                   !.has_deadline = FALSE]]
    /\ call' = [call EXCEPT ![t] = NoCall]
    /\ UNCHANGED <<tick, priority, base_priority, sched, pendsv, switching>>

-----------------------------------------------------------------------------
(* Starting, ticking, switching *)

fr_scheduler_start ==
    /\ InUserCode(Boot)
    /\ LET first == IF fr_scheduler_select_highest_ready(state, priority) = NULL
                      THEN Idle ELSE fr_scheduler_select_highest_ready(state, priority)
       IN /\ state' = [state EXCEPT ![Idle] = "READY", ![first] = "RUNNING"]
          /\ current' = first
    /\ running' = TRUE
    /\ pendsv' = FALSE
    /\ UNCHANGED <<tick, task_count, priority, base_priority, wait, switching, call>>

\* Mutant: only tasks that are past their deadline expire.
ExpiredLate(now) ==
    {t \in Registered : /\ state[t] = "BLOCKED"
                        /\ wait[t].has_deadline
                        /\ wait[t].deadline # now
                        /\ fr_tick_deadline_reached(now, wait[t].deadline)}

(* The tasks fr_scheduler_expire_timeouts unblocks. *)
Expired(now) ==
    {t \in Registered : /\ state[t] = "BLOCKED"
                        /\ wait[t].has_deadline
                        /\ fr_tick_deadline_reached(now, wait[t].deadline)}

(* The SysTick handler: fr_kernel_tick_isr, then fr_scheduler_tick_isr.    *)
(* pr is what the mutex layer makes of the priorities as mutex waiters     *)
(* expire (fr_mutex_waiter_removed_locked); without mutexes, priority.     *)
SysTick_Handler(pr) ==
    LET now == (tick + 1) % TickMod
        X == IF running THEN Expired(now) ELSE {}
    IN /\ tick' = now
       /\ state' = UnblockedStates(X)
       /\ wait' = UnblockedWaits(X, "TIMEOUT")
       /\ priority' = IF running THEN pr ELSE priority
       /\ fr_scheduler_request_if_needed_locked(state', priority')
       /\ UNCHANGED <<base_priority, sched, switching, call>>

(* Exception entry clears the pending bit; a SysTick may still come first. *)
PendSV_Entry ==
    /\ pendsv
    /\ ~switching
    /\ pendsv' = FALSE
    /\ switching' = TRUE
    /\ UNCHANGED <<tick, tcb, sched, call>>

\* Mutant: the task that loses the CPU stays RUNNING.
SwitchWithoutDemotion(next) ==
    /\ state' = [state EXCEPT ![next] = "RUNNING"]
    /\ current' = next

(* The bookkeeping of a switch to another task. *)
SwitchTo(next) ==
    /\ state' = [state EXCEPT ![current] = IF @ = "RUNNING" THEN "READY" ELSE @,
                              ![next] = "RUNNING"]
    /\ current' = next

(* fr_scheduler_switch_from_isr; a NULL selection traps, see SwitchNeverTraps. *)
PendSV_Handler ==
    /\ switching
    /\ LET next == fr_scheduler_select_next(state, priority, current)
       IN /\ next # NULL
          /\ IF next = current THEN UNCHANGED <<state, current>> ELSE SwitchTo(next)
    /\ switching' = FALSE
    /\ UNCHANGED <<tick, priority, base_priority, wait, task_count, running, pendsv, call>>

-----------------------------------------------------------------------------
(* What a task does to itself: sleep and yield *)

fr_task_sleep(t, ticks) ==
    /\ InUserCode(t)
    /\ ticks \in FiniteTimeouts
    /\ CanBlock(t, ticks)
    /\ fr_scheduler_block_current_locked(t, wait[t], "SLEEP", NULL, ticks)
    /\ call' = [call EXCEPT ![t] = Call("sleep", NULL, NoTimeout)]
    /\ UNCHANGED <<tick, priority, base_priority, sched, switching>>

(* The sleeper is back on the CPU and returns wait_result == TIMEOUT. *)
SleepReturn(t) ==
    /\ Executes(t)
    /\ call[t].op = "sleep"
    /\ call' = [call EXCEPT ![t] = NoCall]
    /\ UNCHANGED <<tick, tcb, sched, pendsv, switching>>

(* fr_task_yield decides inside its critical section and requests the      *)
(* switch, by SVC, after it.                                               *)
fr_task_yield(t) ==
    /\ InUserCode(t)
    /\ running
    /\ t # Idle
    /\ SwitchNeeded(state, priority)
    /\ call' = [call EXCEPT ![t] = Call("yield", NULL, NoTimeout)]
    /\ UNCHANGED <<tick, tcb, sched, pendsv, switching>>

YieldSVC(t) ==
    /\ Executes(t)
    /\ call[t].op = "yield"
    /\ pendsv' = TRUE
    /\ call' = [call EXCEPT ![t] = NoCall]
    /\ UNCHANGED <<tick, tcb, sched, switching>>

-----------------------------------------------------------------------------
(* The core on its own; the modules of the synchronization objects extend  *)
(* it and add their calls.                                                 *)

SchedulerInit ==
    /\ tick \in Ticks
    /\ task_count = 0
    /\ state = [t \in TCBs |-> "INVALID"]
    /\ priority = [t \in Tasks |-> 0]
    /\ base_priority = [t \in Tasks |-> 0]
    /\ wait = [t \in Tasks |-> NoWait("PENDING")]
    /\ running = FALSE
    /\ current = NULL
    /\ pendsv = FALSE
    /\ switching = FALSE
    /\ call = [t \in Threads |-> NoCall]

KernelStep ==
    \/ \E t \in Creators : (\E p \in 0 .. MaxPriority : CreateReserve(t, p)) \/ CreatePublish(t)
    \/ fr_scheduler_start
    \/ PendSV_Entry
    \/ PendSV_Handler

SleepStep ==
    \E t \in Tasks : (\E ticks \in Delays : fr_task_sleep(t, ticks)) \/ SleepReturn(t)

YieldStep ==
    \E t \in Tasks : fr_task_yield(t) \/ YieldSVC(t)

(* No task of the core waits for a mutex: a tick leaves priorities alone. *)
SchedulerTick == SysTick_Handler(priority)

SchedulerNext == SchedulerTick \/ KernelStep \/ SleepStep \/ YieldStep

SchedulerSpec == SchedulerInit /\ [][SchedulerNext]_schedVars

(* The timer keeps ticking and a pending exception is taken.  Nothing is   *)
(* assumed of the tasks: they may compute for ever.                        *)
SchedulerFairSpec ==
    /\ SchedulerSpec
    /\ WF_schedVars(SchedulerTick)
    /\ WF_schedVars(PendSV_Entry)
    /\ WF_schedVars(PendSV_Handler)

-----------------------------------------------------------------------------
(* Properties *)

(* Types of the kernel's globals and TCB fields; slots beyond              *)
(* g_fr_task_count are untouched, and the pool is never overrun.           *)
SchedulerTypeOK ==
    /\ tick \in Ticks
    /\ task_count \in 0 .. MaxTasks
    /\ state \in [TCBs -> TaskStates]
    /\ priority \in [Tasks -> 0 .. MaxPriority]
    /\ base_priority \in [Tasks -> 0 .. MaxPriority]
    /\ wait \in [Tasks -> Waits]
    /\ running \in BOOLEAN
    /\ current \in TCBs \cup {NULL}
    /\ pendsv \in BOOLEAN
    /\ switching \in BOOLEAN
    /\ \A t \in Tasks : state[t] = "INVALID" <=> t > task_count

(* One task at a time is RUNNING and it is g_fr_scheduler_current_task; a  *)
(* current task that has blocked is about to be switched out; before the   *)
(* scheduler starts nothing runs, waits or asks for a switch.              *)
RunningIsCurrent ==
    /\ ~running =>
         /\ current = NULL
         /\ \A t \in TCBs : state[t] \notin {"RUNNING", "BLOCKED"}
         /\ ~pendsv /\ ~switching
    /\ running =>
         /\ current = Idle \/ current \in Registered
         /\ state[current] = "RUNNING"
              \/ (current # Idle /\ state[current] = "BLOCKED" /\ (pendsv \/ switching))
         /\ \A t \in TCBs \ {current} : state[t] # "RUNNING"

(* The calls in progress.  A task under creation is CREATED until its own  *)
(* creator publishes it (kernel/task.c:142-215), also when several threads *)
(* create tasks and preempt one another in between.                        *)
CallsConsistent ==
    /\ call \in [Threads -> Calls]
    /\ \A t \in Threads :
         call[t].op = "create" =>
             call[t].object \in Registered /\ state[call[t].object] = "CREATED"
    /\ \A t, u \in Threads :
         (t # u /\ call[t].op = "create" /\ call[u].op = "create") =>
             call[t].object # call[u].object

(* fr_scheduler_switch_from_isr always finds a task: PendSV never takes    *)
(* the udf trap of portasm.S for a NULL stack pointer.                     *)
SwitchNeverTraps ==
    switching => fr_scheduler_select_next(state, priority, current) # NULL

(* "The highest-priority READY user task wins" (docs/ARCHITECTURE.md:100)  *)
(* and idle runs only when no user task is READY (:102): whenever Thread   *)
(* mode executes, no READY task outranks the one on the CPU.               *)
HighestReadyRuns ==
    (running /\ ~pendsv /\ ~switching) =>
        \A t \in ReadyTasks(state) : current # Idle /\ priority[t] <= priority[current]

(* fr_scheduler_tick_isr leaves no BLOCKED task behind whose deadline has  *)
(* come, across the wraparound of the tick counter.                        *)
NoOverdueWaiter ==
    \A t \in Tasks :
        (state[t] = "BLOCKED" /\ wait[t].has_deadline) =>
            ~fr_tick_deadline_reached(tick, wait[t].deadline)

(* A task back from fr_task_sleep slept: its wait is over and ended by     *)
(* timeout, so the call returns true (include/forge/task.h:60).            *)
SleepEndsByTimeout ==
    \A t \in Tasks :
        (Executes(t) /\ call[t].op = "sleep") => wait[t].result = "TIMEOUT"

(* A wait times out on the very tick it was given as its deadline, neither *)
(* early nor late, and the deadline does not move while the task waits.    *)
TimeoutAtDeadline ==
    [][\A t \in Tasks : state[t] = "BLOCKED" =>
          \/ state'[t] = "BLOCKED" /\ wait'[t].deadline = wait[t].deadline
          \/ wait'[t].result = "SIGNALED"
          \/ wait'[t].result = "TIMEOUT" /\ tick' = wait[t].deadline]_schedVars

(* fr_task_sleep ends: a sleeping task is unblocked. *)
SleepersWake ==
    \A t \in Tasks :
        (state[t] = "BLOCKED" /\ wait[t].reason = "SLEEP") ~> (state[t] # "BLOCKED")

(* "Equal-priority tasks rotate round-robin" (docs/ARCHITECTURE.md:101):   *)
(* no task b waits READY for ever while a task a of its priority keeps the *)
(* CPU or gets it again and again.  Tasks need not give up the CPU for it, *)
(* the tick has to rotate them (kernel/scheduler.c:165-183).               *)
RoundRobin ==
    \A a, b \in Tasks :
        (a # b /\ []<>(current = a)) =>
            []<>(state[b] # "READY" \/ priority[a] # priority[b])
=============================================================================
