------------------------------ MODULE Semaphore ------------------------------
(***************************************************************************)
(* Binary and counting semaphores (kernel/semaphore.c) on the kernel core. *)
(* Both kinds share fr_semaphore_take_common and fr_semaphore_give_common; *)
(* a binary semaphore is one of maximum 1.  A take reads the tick before   *)
(* its critical section and wait_result after it.                          *)
(***************************************************************************)
EXTENDS Diagnostics

CONSTANTS
    BinarySemaphores,
    CountingSemaphores,
    MaxCounts,       \* the max_count values of fr_counting_semaphore_init
    TakeTimeouts     \* the timeout_ticks tasks pass to a take

Semaphores == BinarySemaphores \cup CountingSemaphores

ASSUME SemaphoreAssumption ==
    /\ Semaphores \subseteq Objects
    /\ BinarySemaphores \cap CountingSemaphores = {}
    /\ MaxCounts \subseteq Nat
    /\ TakeTimeouts \subseteq Ticks

VARIABLES
    magic,      \* the semaphores an init call has prepared
    count,      \* .available or .count
    max_count,  \* .max_count, 1 for a binary semaphore
    tokens      \* history: tokens put in, by init and gives, less those takes returned

semVars == <<magic, count, max_count, tokens>>
vars == <<schedVars, semVars>>

-----------------------------------------------------------------------------
SemaphoreInit(s, initial, max) ==
    /\ InUserCode(Boot)
    /\ initial <= max
    /\ magic' = magic \cup {s}
    /\ count' = [count EXCEPT ![s] = initial]
    /\ max_count' = [max_count EXCEPT ![s] = max]
    /\ tokens' = [tokens EXCEPT ![s] = initial]
    /\ UNCHANGED schedVars

fr_binary_semaphore_init(s) == \E initial \in {0, 1} : SemaphoreInit(s, initial, 1)

fr_counting_semaphore_init(s) ==
    \E max \in MaxCounts \ {0} : \E initial \in 0 .. max : SemaphoreInit(s, initial, max)

(* A take up to its critical section. *)
TakeStart(t, s, ticks) ==
    /\ InUserCode(t)
    /\ s \in magic
    /\ ticks \in FiniteTimeouts \cup {FR_WAIT_FOREVER}
    /\ call' = [call EXCEPT ![t] = Call("take", s, fr_wait_timeout_start(tick, ticks))]
    /\ UNCHANGED <<tick, tcb, sched, pendsv, switching, semVars>>

TakeReturns(t, s, got) ==
    /\ call' = [call EXCEPT ![t] = NoCall]
    /\ tokens' = IF got THEN [tokens EXCEPT ![s] = @ - 1] ELSE tokens

TakeAvailable(t, s) ==
    /\ count[s] # 0
    /\ count' = [count EXCEPT ![s] = @ - 1]
    /\ TakeReturns(t, s, TRUE)
    /\ UNCHANGED <<state, wait, pendsv>>

TakeBlockOrExpire(t, s) ==
    LET ticks == fr_wait_timeout_remaining(tick, call[t].timeout)
    IN /\ count[s] = 0
       /\ IF CanBlock(t, ticks)
            THEN /\ fr_scheduler_block_current_locked(t, wait[t], "SYNC", s, ticks)
                 /\ call' = [call EXCEPT ![t] = Call("take_wait", s, NoTimeout)]
                 /\ UNCHANGED tokens
            ELSE /\ TakeReturns(t, s, FALSE)
                 /\ UNCHANGED <<state, wait, pendsv>>
       /\ UNCHANGED count

(* The critical section of fr_semaphore_take_common. *)
TakeEnter(t) ==
    /\ Executes(t)
    /\ call[t].op = "take"
    /\ TakeAvailable(t, call[t].object) \/ TakeBlockOrExpire(t, call[t].object)
    /\ UNCHANGED <<tick, priority, base_priority, sched, switching, magic, max_count>>

\* Mutant: a wait that is over counts as a token, timed out or not.
TakeReturnAlways(t) ==
    /\ Executes(t)
    /\ call[t].op = "take_wait"
    /\ TakeReturns(t, call[t].object, TRUE)
    /\ UNCHANGED <<tick, tcb, sched, pendsv, switching, magic, count, max_count>>

(* Back on the CPU after the wait. *)
TakeReturn(t) ==
    /\ Executes(t)
    /\ call[t].op = "take_wait"
    /\ TakeReturns(t, call[t].object, wait[t].result = "SIGNALED")
    /\ UNCHANGED <<tick, tcb, sched, pendsv, switching, magic, count, max_count>>

(* The token goes straight to the waiter and never through count. *)
GiveToWaiter(s) ==
    /\ Waiters("SYNC", s) # {}
    /\ count[s] = 0
    /\ LET waiter == fr_scheduler_select_waiter_locked("SYNC", s)
       IN /\ state' = UnblockedStates({waiter})
          /\ wait' = UnblockedWaits({waiter}, "SIGNALED")
    /\ fr_scheduler_request_if_needed_locked(state', priority)
    /\ UNCHANGED count

\* Mutant: the waiters are not looked at.
StoreTokenUnconditionally(s) ==
    /\ count[s] < max_count[s]
    /\ count' = [count EXCEPT ![s] = @ + 1]
    /\ UNCHANGED <<state, wait, pendsv>>

\* Mutant: the count may pass its maximum by one.
StoreTokenOffByOne(s) ==
    /\ Waiters("SYNC", s) = {}
    /\ count[s] <= max_count[s]
    /\ count' = [count EXCEPT ![s] = @ + 1]
    /\ UNCHANGED <<state, wait, pendsv>>

GiveToCount(s) ==
    /\ Waiters("SYNC", s) = {}
    /\ count[s] < max_count[s]
    /\ count' = [count EXCEPT ![s] = @ + 1]
    /\ UNCHANGED <<state, wait, pendsv>>

(* fr_semaphore_give_common, when it returns true; a refused give changes  *)
(* nothing.                                                                *)
Give(t, s) ==
    /\ InUserCode(t)
    /\ s \in magic
    /\ GiveToWaiter(s) \/ GiveToCount(s)
    /\ tokens' = [tokens EXCEPT ![s] = @ + 1]
    /\ UNCHANGED <<tick, priority, base_priority, sched, switching, call, magic, max_count>>

-----------------------------------------------------------------------------
Init ==
    /\ SchedulerInit
    /\ magic = {}
    /\ count = [s \in Semaphores |-> 0]
    /\ max_count = [s \in Semaphores |-> 0]
    /\ tokens = [s \in Semaphores |-> 0]

SemaphoreStep ==
    \/ \E s \in BinarySemaphores : fr_binary_semaphore_init(s)
    \/ \E s \in CountingSemaphores : fr_counting_semaphore_init(s)
    \/ \E t \in Tasks, s \in Semaphores :
          \/ \E ticks \in TakeTimeouts : TakeStart(t, s, ticks)
          \/ Give(t, s)
    \/ \E t \in Tasks : TakeEnter(t) \/ TakeReturn(t)

Next ==
    \/ SchedulerTick /\ UNCHANGED semVars
    \/ KernelStep /\ UNCHANGED semVars
    \/ SleepStep /\ UNCHANGED semVars
    \/ SemaphoreStep

Spec == Init /\ [][Next]_vars

-----------------------------------------------------------------------------
(* Properties *)

(* Types of the semaphores and of the core; the count respects max_count. *)
SemaphoreTypeOK ==
    /\ SchedulerTypeOK
    /\ magic \subseteq Semaphores
    /\ max_count \in [Semaphores -> Nat]
    /\ \A s \in Semaphores : count[s] \in 0 .. max_count[s]
    /\ tokens \in [Semaphores -> Nat]

(* "A blocked waiter and an already available token should not coexist"    *)
(* (kernel/semaphore.c:111): the defensive return of give is never taken.  *)
NoTokenWithWaiter ==
    \A s \in Semaphores : Waiters("SYNC", s) # {} => count[s] = 0

(* Tokens are neither lost nor duplicated: what was put in and not yet     *)
(* taken out is in count or with a task that a give has woken and that has *)
(* not returned yet.  A give that races a timeout goes to exactly one of   *)
(* the two.                                                                *)
TokensConserved ==
    \A s \in Semaphores :
        tokens[s] = count[s] + Cardinality({t \in Tasks : /\ call[t].op = "take_wait"
                                                          /\ call[t].object = s
                                                          /\ wait[t].result = "SIGNALED"})
=============================================================================
