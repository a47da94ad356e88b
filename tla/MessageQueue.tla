---------------------------- MODULE MessageQueue ----------------------------
(***************************************************************************)
(* Message queues (kernel/queue.c) on the kernel core: a ring of items in  *)
(* caller-provided storage, and blocking send and receive that retry under *)
(* their original deadline when a wake-up turns out to be stale.           *)
(*                                                                         *)
(* An item is one value; buffer[t] is the memory the item argument of t's  *)
(* call points to.  fr_queue_send and fr_queue_receive are the blocking    *)
(* calls with a timeout of 0.                                              *)
(***************************************************************************)
EXTENDS Diagnostics, Sequences

CONSTANTS
    Queues,
    Capacity,       \* capacity of each queue
    Items,          \* the contents of items
    QueueTimeouts   \* the timeout_ticks tasks pass to send and receive

ASSUME QueueAssumption ==
    /\ Queues \subseteq Objects
    /\ Capacity \in [Queues -> Nat \ {0}]
    /\ Items # {}
    /\ QueueTimeouts \subseteq Ticks

VARIABLES
    magic,     \* the queues fr_queue_init has prepared
    storage,   \* .storage, one item per slot
    head,      \* .head
    tail,      \* .tail
    count,     \* .count
    buffer     \* the item each task sends or has received

queueVars == <<magic, storage, head, tail, count, buffer>>
vars == <<schedVars, queueVars>>

Slots(q) == 0 .. Capacity[q] - 1

-----------------------------------------------------------------------------
fr_queue_state_valid_locked(q) ==
    /\ q \in magic
    /\ head[q] < Capacity[q]
    /\ tail[q] < Capacity[q]
    /\ count[q] <= Capacity[q]

\* Mutant: the index runs one slot too far before it wraps.
NextIndexLate(index, capacity) == IF index = capacity THEN 0 ELSE index + 1

fr_queue_next_index(index, capacity) == IF index + 1 = capacity THEN 0 ELSE index + 1

\* Mutant: the waiter is looked for but never woken.
WakeNobody(reason, q) == UNCHANGED <<state, wait, pendsv>>

fr_queue_wake_waiter_locked(reason, q) ==
    IF Waiters(reason, q) = {} THEN UNCHANGED <<state, wait, pendsv>>
    ELSE LET waiter == fr_scheduler_select_waiter_locked(reason, q)
         IN /\ state' = UnblockedStates({waiter})
            /\ wait' = UnblockedWaits({waiter}, "SIGNALED")
            /\ fr_scheduler_request_if_needed_locked(state', priority)

fr_queue_init(q) ==
    /\ InUserCode(Boot)
    /\ magic' = magic \cup {q}
    /\ head' = [head EXCEPT ![q] = 0]
    /\ tail' = [tail EXCEPT ![q] = 0]
    /\ count' = [count EXCEPT ![q] = 0]
    /\ UNCHANGED <<schedVars, storage, buffer>>

-----------------------------------------------------------------------------
(* Send *)

SendStart(t, q, ticks) ==
    /\ InUserCode(t)
    /\ ticks \in FiniteTimeouts \cup {FR_WAIT_FOREVER}
    /\ \E x \in Items : buffer' = [buffer EXCEPT ![t] = x]
    /\ call' = [call EXCEPT ![t] = Call("send", q, fr_wait_timeout_start(tick, ticks))]
    /\ UNCHANGED <<tick, tcb, sched, pendsv, switching, magic, storage, head, tail, count>>

CallReturns(t) == call' = [call EXCEPT ![t] = NoCall]

\* Mutant: the tail moves before the item is copied.
SendAfterAdvance(t, q) ==
    /\ count[q] # Capacity[q]
    /\ tail' = [tail EXCEPT ![q] = fr_queue_next_index(@, Capacity[q])]
    /\ storage' = [storage EXCEPT ![q][tail'[q]] = buffer[t]]
    /\ count' = [count EXCEPT ![q] = @ + 1]
    /\ fr_queue_wake_waiter_locked("QUEUE_RECEIVE", q)
    /\ UNCHANGED <<head, buffer>>

fr_queue_try_send_locked(t, q) ==
    /\ count[q] # Capacity[q]
    /\ storage' = [storage EXCEPT ![q][tail[q]] = buffer[t]]
    /\ tail' = [tail EXCEPT ![q] = fr_queue_next_index(@, Capacity[q])]
    /\ count' = [count EXCEPT ![q] = @ + 1]
    /\ fr_queue_wake_waiter_locked("QUEUE_RECEIVE", q)
    /\ UNCHANGED <<head, buffer>>

\* Mutant: every retry starts the budget anew.
WaitAfreshOrGiveUp(t, q, op, reason) ==
    LET ticks == FR_WAIT_MAX_FINITE_TICKS
    IN /\ fr_scheduler_block_current_locked(t, wait[t], reason, q, ticks)
       /\ call' = [call EXCEPT ![t].op = op]
       /\ UNCHANGED <<storage, head, tail, count, buffer>>

(* The rest of the loop body, when the queue has nothing for the caller. *)
WaitOrGiveUp(t, q, op, reason) ==
    LET ticks == fr_wait_timeout_remaining(tick, call[t].timeout)
    IN /\ IF CanBlock(t, ticks)
            THEN /\ fr_scheduler_block_current_locked(t, wait[t], reason, q, ticks)
                 /\ call' = [call EXCEPT ![t].op = op]
            ELSE CallReturns(t) /\ UNCHANGED <<state, wait, pendsv>>
       /\ UNCHANGED <<storage, head, tail, count, buffer>>

(* t is at the top of the loop: first pass, or signaled and retrying. *)
AtLoopTop(t, first, retry) ==
    /\ Executes(t)
    /\ \/ call[t].op = first
       \/ call[t].op = retry /\ wait[t].result = "SIGNALED"

RefuseInvalid(t, q) ==
    /\ ~fr_queue_state_valid_locked(q)
    /\ CallReturns(t)
    /\ UNCHANGED <<state, wait, pendsv, storage, head, tail, count, buffer>>

(* One pass of fr_queue_send_wait through its critical section. *)
SendLoop(t) ==
    /\ AtLoopTop(t, "send", "send_wait")
    /\ LET q == call[t].object
       IN \/ RefuseInvalid(t, q)
          \/ /\ fr_queue_state_valid_locked(q)
             /\ \/ fr_queue_try_send_locked(t, q) /\ CallReturns(t)
                \/ count[q] = Capacity[q] /\ WaitOrGiveUp(t, q, "send_wait", "QUEUE_SEND")
    /\ UNCHANGED <<tick, priority, base_priority, sched, switching, magic>>

-----------------------------------------------------------------------------
(* Receive *)

ReceiveStart(t, q, ticks) ==
    /\ InUserCode(t)
    /\ ticks \in FiniteTimeouts \cup {FR_WAIT_FOREVER}
    /\ call' = [call EXCEPT ![t] = Call("receive", q, fr_wait_timeout_start(tick, ticks))]
    /\ UNCHANGED <<tick, tcb, sched, pendsv, switching, queueVars>>

fr_queue_try_receive_locked(t, q) ==
    /\ count[q] # 0
    /\ buffer' = [buffer EXCEPT ![t] = storage[q][head[q]]]
    /\ head' = [head EXCEPT ![q] = fr_queue_next_index(@, Capacity[q])]
    /\ count' = [count EXCEPT ![q] = @ - 1]
    /\ fr_queue_wake_waiter_locked("QUEUE_SEND", q)
    /\ UNCHANGED <<storage, tail>>

(* One pass of fr_queue_receive_wait through its critical section. *)
ReceiveLoop(t) ==
    /\ AtLoopTop(t, "receive", "receive_wait")
    /\ LET q == call[t].object
       IN \/ RefuseInvalid(t, q)
          \/ /\ fr_queue_state_valid_locked(q)
             /\ \/ fr_queue_try_receive_locked(t, q) /\ CallReturns(t)
                \/ count[q] = 0 /\ WaitOrGiveUp(t, q, "receive_wait", "QUEUE_RECEIVE")
    /\ UNCHANGED <<tick, priority, base_priority, sched, switching, magic>>

(* A wait of either kind that timed out: the call returns false. *)
QueueTimeout(t) ==
    /\ Executes(t)
    /\ call[t].op \in {"send_wait", "receive_wait"}
    /\ wait[t].result # "SIGNALED"
    /\ CallReturns(t)
    /\ UNCHANGED <<tick, tcb, sched, pendsv, switching, queueVars>>

-----------------------------------------------------------------------------
Init ==
    /\ SchedulerInit
    /\ magic = {}
    /\ storage = [q \in Queues |-> [i \in Slots(q) |-> NULL]]
    /\ head = [q \in Queues |-> 0]
    /\ tail = [q \in Queues |-> 0]
    /\ count = [q \in Queues |-> 0]
    /\ buffer \in [Tasks -> Items]

QueueStep ==
    \/ \E q \in Queues : fr_queue_init(q)
    \/ \E t \in Tasks, q \in Queues, ticks \in QueueTimeouts :
          SendStart(t, q, ticks) \/ ReceiveStart(t, q, ticks)
    \/ \E t \in Tasks : SendLoop(t) \/ ReceiveLoop(t) \/ QueueTimeout(t)

Next ==
    \/ SchedulerTick /\ UNCHANGED queueVars
    \/ KernelStep /\ UNCHANGED queueVars
    \/ SleepStep /\ UNCHANGED queueVars
    \/ QueueStep

Spec == Init /\ [][Next]_vars

-----------------------------------------------------------------------------
(* Properties *)

(* The items in the queue, oldest first. *)
Contents(q) == [i \in 1 .. count[q] |-> storage[q][(head[q] + i - 1) % Capacity[q]]]

(* Types of the queues and of the core; head, tail and count agree, and    *)
(* every live slot of the ring has been written, so that                   *)
(* fr_queue_state_valid_locked holds of every initialized queue.           *)
RingConsistent ==
    /\ SchedulerTypeOK
    /\ magic \subseteq Queues
    /\ buffer \in [Tasks -> Items]
    /\ \A q \in Queues :
         /\ count[q] \in 0 .. Capacity[q]
         /\ head[q] \in Slots(q)
         /\ tail[q] = (head[q] + count[q]) % Capacity[q]
         /\ \A i \in 1 .. count[q] : Contents(q)[i] \in Items

(* Tasks back from their wait with a signal they have not acted on yet. *)
Signaled(op, q) ==
    {t \in Tasks : call[t].op = op /\ call[t].object = q /\ wait[t].result = "SIGNALED"}

(* "A queue wake-up does not reserve an item or slot"                      *)
(* (docs/ARCHITECTURE.md:178), so another task may overtake the woken one. *)
(* Still no wake-up is lost: while a task waits, every item (or free slot) *)
(* is matched by a woken task that has yet to retry.                       *)
NoLostWakeup ==
    \A q \in Queues :
        /\ Waiters("QUEUE_RECEIVE", q) # {} =>
             count[q] <= Cardinality(Signaled("receive_wait", q))
        /\ Waiters("QUEUE_SEND", q) # {} =>
             Capacity[q] - count[q] <= Cardinality(Signaled("send_wait", q))

(* Queue operations "preserve the original deadline rather than restarting *)
(* the timeout budget after each wake-up" (docs/ARCHITECTURE.md:140).      *)
OriginalDeadlineKept ==
    \A t \in Tasks :
        (state[t] = "BLOCKED" /\ wait[t].reason \in {"QUEUE_SEND", "QUEUE_RECEIVE"}) =>
            /\ wait[t].has_deadline = ~call[t].timeout.wait_forever
            /\ wait[t].deadline = call[t].timeout.deadline
=============================================================================
