-------------------------------- MODULE Mutex --------------------------------
(***************************************************************************)
(* Mutexes with priority inheritance (kernel/mutex.c) on the kernel core.  *)
(* fr_mutex_lock reads the tick before its critical section and reads      *)
(* wait_result and owner after it, so a call is up to three steps: start,  *)
(* critical section, return.                                               *)
(***************************************************************************)
EXTENDS Diagnostics, FiniteSetsExt

CONSTANTS
    Mutexes,
    LockTimeouts   \* the timeout_ticks tasks pass to fr_mutex_lock

ASSUME MutexAssumption == Mutexes \subseteq Objects /\ LockTimeouts \subseteq Ticks

VARIABLES
    magic,   \* the mutexes fr_mutex_init has prepared
    owner,   \* fr_mutex_t.owner
    holds    \* history: the mutexes each task has been told it locked

mutexVars == <<magic, owner, holds>>
vars == <<schedVars, mutexVars>>

-----------------------------------------------------------------------------
(* Priority inheritance.  blockedOn maps each task to the mutex it waits   *)
(* for, own each mutex to its owner; the loops of the code run on the TCBs *)
(* as the enclosing critical section or handler has left them so far.      *)

BlockedOn(S) ==
    [t \in Tasks |->
        IF state[t] = "BLOCKED" /\ wait[t].reason = "MUTEX" /\ t \notin S
          THEN wait[t].object ELSE NULL]

fr_mutex_compute_effective_priority_locked(blockedOn, own, pr, t) ==
    LET waiters == {w \in Registered : blockedOn[w] # NULL /\ own[blockedOn[w]] = t}
    IN Max({base_priority[t]} \cup {pr[w] : w \in waiters})

(* The next task of a wait-for chain; NULL ends it. *)
Upstream(blockedOn, own, t) ==
    IF blockedOn[t] = NULL \/ own[blockedOn[t]] = t THEN NULL ELSE own[blockedOn[t]]

\* Mutant: inheritance stops at the direct owner.
FirstOnly(blockedOn, own, first) ==
    [n \in 0 .. task_count |-> IF n = 0 THEN first ELSE NULL]

(* The tasks a chain loop meets: first, the owner of the mutex first waits *)
(* for, and so on; NULL once the chain has ended.                          *)
ChainFrom(blockedOn, own, first) ==
    LET at[n \in 0 .. task_count] ==
          IF n = 0 THEN first
          ELSE IF at[n - 1] = NULL THEN NULL ELSE Upstream(blockedOn, own, at[n - 1])
    IN at

(* Both loops visit at most task_count tasks; each visit sees the          *)
(* priorities the previous ones have set.                                  *)
fr_mutex_inherit_priority_chain_locked(blockedOn, own, pr, donor, first) ==
    LET at == ChainFrom(blockedOn, own, first)
        after[n \in 0 .. task_count] ==
          IF n = 0 THEN pr
          ELSE LET donated == after[n - 1][IF n = 1 THEN donor ELSE at[n - 2]]
               IN IF at[n - 1] = NULL THEN after[n - 1]
                  ELSE [after[n - 1] EXCEPT ![at[n - 1]] = Max({@, donated})]
    IN after[task_count]

fr_mutex_recompute_priority_chain_locked(blockedOn, own, pr, first) ==
    LET at == ChainFrom(blockedOn, own, first)
        after[n \in 0 .. task_count] ==
          IF n = 0 THEN pr
          ELSE IF at[n - 1] = NULL THEN after[n - 1]
          ELSE [after[n - 1] EXCEPT ![at[n - 1]] =
                  fr_mutex_compute_effective_priority_locked(blockedOn, own, after[n - 1], at[n - 1])]
    IN after[task_count]

\* Mutant: a waiter that times out leaves the owner's priority alone.
WaiterRemovedIgnored(expired, pr, m) == pr

(* fr_mutex_waiter_removed_locked, once the tasks of expired have left. *)
fr_mutex_waiter_removed_locked(expired, pr, m) ==
    IF owner[m] = NULL THEN pr
    ELSE fr_mutex_recompute_priority_chain_locked(BlockedOn(expired), owner, pr, owner[m])

(* What the loop of fr_scheduler_expire_timeouts makes of the priorities:  *)
(* the expired tasks leave one by one, in index order.                     *)
ExpirePriorities(now) ==
    LET X == Expired(now)
        after[i \in 0 .. task_count] ==
          IF i = 0 THEN priority
          ELSE IF i \in X /\ wait[i].reason = "MUTEX"
            THEN fr_mutex_waiter_removed_locked(X \cap (1 .. i), after[i - 1], wait[i].object)
            ELSE after[i - 1]
    IN after[task_count]

-----------------------------------------------------------------------------
(* The API *)

fr_mutex_init(m) ==
    /\ InUserCode(Boot)
    /\ magic' = magic \cup {m}
    /\ owner' = [owner EXCEPT ![m] = NULL]
    /\ UNCHANGED <<schedVars, holds>>

(* fr_mutex_lock up to its critical section: the deadline is fixed here. *)
LockStart(t, m, ticks) ==
    /\ InUserCode(t)
    /\ ticks \in FiniteTimeouts \cup {FR_WAIT_FOREVER}
    /\ call' = [call EXCEPT ![t] = Call("lock", m, fr_wait_timeout_start(tick, ticks))]
    /\ UNCHANGED <<tick, tcb, sched, pendsv, switching, mutexVars>>

(* The call is over; got tells whether it returns true. *)
LockReturns(t, m, got) ==
    /\ call' = [call EXCEPT ![t] = NoCall]
    /\ holds' = IF got THEN [holds EXCEPT ![t] = @ \cup {m}] ELSE holds

LockTake(t, m) ==
    /\ owner[m] = NULL
    /\ owner' = [owner EXCEPT ![m] = t]
    /\ LockReturns(t, m, TRUE)
    /\ UNCHANGED <<tcb, pendsv>>

(* Not initialized, already held by the caller, or out of time. *)
LockRefuse(t, m) ==
    /\ \/ m \notin magic
       \/ owner[m] = t
       \/ owner[m] # NULL /\ ~CanBlock(t, fr_wait_timeout_remaining(tick, call[t].timeout))
    /\ LockReturns(t, m, FALSE)
    /\ UNCHANGED <<tcb, pendsv, owner>>

LockBlock(t, m) ==
    LET ticks == fr_wait_timeout_remaining(tick, call[t].timeout)
    IN /\ owner[m] \notin {NULL, t}
       /\ CanBlock(t, ticks)
       /\ fr_scheduler_block_current_locked(t, wait[t], "MUTEX", m, ticks)
       /\ priority' = fr_mutex_inherit_priority_chain_locked(
                          [BlockedOn({}) EXCEPT ![t] = m], owner, priority, t, owner[m])
       /\ call' = [call EXCEPT ![t] = Call("lock_wait", m, NoTimeout)]
       /\ UNCHANGED <<base_priority, owner, holds>>

(* The critical section of fr_mutex_lock. *)
LockEnter(t) ==
    /\ Executes(t)
    /\ call[t].op = "lock"
    /\ LET m == call[t].object
       IN LockRefuse(t, m) \/ (m \in magic /\ (LockTake(t, m) \/ LockBlock(t, m)))
    /\ UNCHANGED <<tick, sched, switching, magic>>

\* Mutant: the end of the wait is taken for success.
LockReturnUnchecked(t) ==
    /\ Executes(t)
    /\ call[t].op = "lock_wait"
    /\ LockReturns(t, call[t].object, TRUE)
    /\ UNCHANGED <<tick, tcb, sched, pendsv, switching, magic, owner>>

(* Back on the CPU, after the critical section, the waiter reads the outcome. *)
LockReturn(t) ==
    /\ Executes(t)
    /\ call[t].op = "lock_wait"
    /\ LET m == call[t].object
       IN LockReturns(t, m, wait[t].result = "SIGNALED" /\ owner[m] = t)
    /\ UNCHANGED <<tick, tcb, sched, pendsv, switching, magic, owner>>

UnlockUncontended(t, m) ==
    /\ Waiters("MUTEX", m) = {}
    /\ owner' = [owner EXCEPT ![m] = NULL]
    /\ priority' = fr_mutex_recompute_priority_chain_locked(BlockedOn({}), owner', priority, t)
    /\ UNCHANGED <<state, wait, pendsv>>

\* Mutant: the waiter is woken to compete for a mutex left free.
UnlockWithoutHandoff(t, m) ==
    /\ Waiters("MUTEX", m) # {}
    /\ LET waiter == fr_scheduler_select_waiter_locked("MUTEX", m)
       IN /\ owner' = [owner EXCEPT ![m] = NULL]
          /\ state' = UnblockedStates({waiter})
          /\ wait' = UnblockedWaits({waiter}, "SIGNALED")
          /\ priority' = [priority EXCEPT ![t] = base_priority[t]]
    /\ fr_scheduler_request_if_needed_locked(state', priority')

(* Direct handoff: the waiter owns the mutex before it is READY. *)
UnlockHandoff(t, m) ==
    /\ Waiters("MUTEX", m) # {}
    /\ LET waiter == fr_scheduler_select_waiter_locked("MUTEX", m)
       IN /\ owner' = [owner EXCEPT ![m] = waiter]
          /\ state' = UnblockedStates({waiter})
          /\ wait' = UnblockedWaits({waiter}, "SIGNALED")
          /\ priority' = fr_mutex_recompute_priority_chain_locked(
                             BlockedOn({waiter}), owner', priority, t)
    /\ fr_scheduler_request_if_needed_locked(state', priority')

fr_mutex_unlock(t, m) ==
    /\ InUserCode(t)
    /\ m \in magic
    /\ owner[m] = t
    /\ UnlockUncontended(t, m) \/ UnlockHandoff(t, m)
    /\ holds' = [holds EXCEPT ![t] = @ \ {m}]
    /\ UNCHANGED <<tick, base_priority, sched, switching, call, magic>>

-----------------------------------------------------------------------------
Init ==
    /\ SchedulerInit
    /\ magic = {}
    /\ owner = [m \in Mutexes |-> NULL]
    /\ holds = [t \in Tasks |-> {}]

MutexStep ==
    \/ \E m \in Mutexes : fr_mutex_init(m)
    \/ \E t \in Tasks, m \in Mutexes :
          \/ \E ticks \in LockTimeouts : LockStart(t, m, ticks)
          \/ fr_mutex_unlock(t, m)
    \/ \E t \in Tasks : LockEnter(t) \/ LockReturn(t)

MutexTick == SysTick_Handler(ExpirePriorities((tick + 1) % TickMod)) /\ UNCHANGED mutexVars

Next ==
    \/ MutexTick
    \/ KernelStep /\ UNCHANGED mutexVars
    \/ SleepStep /\ UNCHANGED mutexVars
    \/ MutexStep

Spec == Init /\ [][Next]_vars

-----------------------------------------------------------------------------
(* Properties *)

(* Types of the mutexes, of the calls in progress and of the core. *)
MutexTypeOK ==
    /\ SchedulerTypeOK
    /\ CallsConsistent
    /\ magic \subseteq Mutexes
    /\ owner \in [Mutexes -> Tasks \cup {NULL}]
    /\ holds \in [Tasks -> SUBSET Mutexes]

(* What fr_mutex_lock reports and who owns the mutex never disagree: a     *)
(* task told that it holds m owns it (so no two tasks are told so), and an *)
(* owner has been told, or is a waiter that a handoff has just signaled.   *)
(* A timeout that races a handoff leaves no mutex with an owner that does  *)
(* not know of it.                                                         *)
OwnersKnow ==
    \A t \in Tasks, m \in Mutexes :
        owner[m] = t <=>
            \/ m \in holds[t]
            \/ /\ call[t].op = "lock_wait"
               /\ call[t].object = m
               /\ wait[t].result = "SIGNALED"

(* "The mutex therefore never becomes momentarily ownerless"               *)
(* (kernel/mutex.c:267): a mutex somebody waits for has an owner, another  *)
(* task than the waiter.                                                   *)
WaitersHaveOwner ==
    \A t \in Registered :
        BlockedOn({})[t] # NULL => owner[wait[t].object] \notin {NULL, t}

(* No task is outranked by one that waits for it, along whole chains of    *)
(* waits: fr_mutex_inherit_priority_chain_locked and the recomputations    *)
(* never leave an owner below its waiters.                                 *)
OwnerOutranksWaiters ==
    \A t \in Registered :
        LET m == BlockedOn({})[t]
        IN m # NULL => priority[owner[m]] >= priority[t]

(* The chain of waits that starts at t. *)
Chain(t) == ChainFrom(BlockedOn({}), owner, t)

Deadlocked(t) == Chain(t)[task_count] # NULL

(* The highest base priority among t and the tasks that wait for it,       *)
(* directly or through others.                                             *)
JustifiedPriority(t) ==
    Max({base_priority[w] : w \in {w \in Registered : \E n \in 0 .. task_count : Chain(w)[n] = t}})

(* Inheritance "restores priorities as waiters leave or ownership changes" *)
(* (docs/ARCHITECTURE.md:161): every task has exactly the priority its     *)
(* present waiters justify, unless it is caught in a deadlock, and again   *)
(* as soon as a timeout has broken the deadlock.                           *)
PrioritiesRestored ==
    \A t \in Registered : ~Deadlocked(t) => priority[t] = JustifiedPriority(t)

(* The sentence as it stands, for deadlocked tasks too. *)
PrioritiesRestoredInDeadlock ==
    \A t \in Registered : priority[t] = JustifiedPriority(t)
=============================================================================
