----------------------------- MODULE EventFlags -----------------------------
(***************************************************************************)
(* Event flags (kernel/event_flags.c) on the kernel core.  A mask is a set *)
(* of bit positions.  A wait reads the tick before its critical section    *)
(* and wait_result and wait_flags_result after it; set and clear are one   *)
(* critical section each.  fr_event_flags_get changes nothing.             *)
(***************************************************************************)
EXTENDS Diagnostics

CONSTANTS
    FlagObjects,
    FlagRequests,   \* the mask, wait_all and clear_on_exit arguments of waits
    FlagTimeouts    \* the timeout_ticks of waits

Masks == SUBSET Bits \ {{}}

ASSUME EventFlagsAssumption ==
    /\ FlagObjects \subseteq Objects
    /\ FlagRequests \subseteq [mask : Masks, all : BOOLEAN, clear : BOOLEAN]
    /\ FlagTimeouts \subseteq Ticks

VARIABLES
    magic,         \* the objects fr_event_flags_init has prepared
    bits,          \* .bits
    flags_result,  \* fr_task_t.wait_flags_result
    request,       \* the arguments of each task's latest wait
    matched_bits   \* what *matched_bits holds for each task's latest wait

flagVars == <<magic, bits, flags_result, request, matched_bits>>
vars == <<schedVars, flagVars>>

-----------------------------------------------------------------------------
fr_event_flags_condition_met(current_bits, mask, all) ==
    IF all THEN mask \subseteq current_bits ELSE mask \cap current_bits # {}

fr_event_flags_init(f) ==
    /\ InUserCode(Boot)
    /\ magic' = magic \cup {f}
    /\ bits' = [bits EXCEPT ![f] = {}]
    /\ UNCHANGED <<schedVars, flags_result, request, matched_bits>>

(* The waiters that the snapshot of the bits satisfies. *)
Satisfied(f, snapshot) ==
    {t \in Waiters("EVENT_FLAGS", f) :
        fr_event_flags_condition_met(snapshot, wait[t].mask, wait[t].all)}

\* Mutant: each waiter is told what is left after the clearing.
ResultAfterClear(f, woken, snapshot, cleared) ==
    [t \in Tasks |-> IF t \in woken THEN (snapshot \ cleared) \cap wait[t].mask
                                    ELSE flags_result[t]]

(* Every waiter observes the same snapshot, taken before any clearing. *)
WokenResults(f, woken, snapshot, cleared) ==
    [t \in Tasks |-> IF t \in woken THEN snapshot \cap wait[t].mask ELSE flags_result[t]]

\* Mutant: one waiter is woken per call, as a semaphore would.
WakeOne(f, snapshot) ==
    LET S == Satisfied(f, snapshot) IN IF S = {} THEN {} ELSE {HighestOf(S, priority)}

(* The loop of fr_event_flags_set wakes all of them. *)
Woken(f, snapshot) == Satisfied(f, snapshot)

fr_event_flags_set(t, f, B) ==
    /\ InUserCode(t)
    /\ f \in magic
    /\ LET snapshot == bits[f] \cup B
           woken == Woken(f, snapshot)
           cleared == UNION {wait[w].mask : w \in {w \in woken : wait[w].clear}}
       IN /\ bits' = [bits EXCEPT ![f] = snapshot \ cleared]
          /\ flags_result' = WokenResults(f, woken, snapshot, cleared)
          /\ state' = UnblockedStates(woken)
          /\ wait' = UnblockedWaits(woken, "SIGNALED")
          /\ IF woken = {} THEN UNCHANGED pendsv
             ELSE fr_scheduler_request_if_needed_locked(state', priority)
    /\ UNCHANGED <<tick, priority, base_priority, sched, switching, call, magic, request,
                   matched_bits>>

fr_event_flags_clear(t, f, B) ==
    /\ InUserCode(t)
    /\ f \in magic
    /\ bits' = [bits EXCEPT ![f] = @ \ B]
    /\ UNCHANGED <<schedVars, magic, flags_result, request, matched_bits>>

-----------------------------------------------------------------------------
(* fr_event_flags_wait *)

WaitStart(t, f, req, ticks) ==
    /\ InUserCode(t)
    /\ ticks \in FiniteTimeouts \cup {FR_WAIT_FOREVER}
    /\ request' = [request EXCEPT ![t] = req]
    /\ matched_bits' = [matched_bits EXCEPT ![t] = {}]
    /\ call' = [call EXCEPT ![t] = Call("wait", f, fr_wait_timeout_start(tick, ticks))]
    /\ UNCHANGED <<tick, tcb, sched, pendsv, switching, magic, bits, flags_result>>

WaitReturns(t, matched) ==
    /\ call' = [call EXCEPT ![t] = NoCall]
    /\ matched_bits' = [matched_bits EXCEPT ![t] = matched]

\* Mutant: clear_on_exit clears every bit.
ClearedAll(f, req) == IF req.clear THEN {} ELSE bits[f]

BitsAfterExit(f, req) == IF req.clear THEN bits[f] \ req.mask ELSE bits[f]

(* The condition holds already. *)
WaitMet(t, f) ==
    LET req == request[t]
    IN /\ f \in magic
       /\ fr_event_flags_condition_met(bits[f], req.mask, req.all)
       /\ bits' = [bits EXCEPT ![f] = BitsAfterExit(f, req)]
       /\ WaitReturns(t, bits[f] \cap req.mask)
       /\ UNCHANGED <<state, wait, pendsv, flags_result>>

WaitBlock(t, f) ==
    LET req == request[t]
        ticks == fr_wait_timeout_remaining(tick, call[t].timeout)
        w == [wait[t] EXCEPT !.mask = req.mask, !.all = req.all, !.clear = req.clear]
    IN /\ f \in magic
       /\ ~fr_event_flags_condition_met(bits[f], req.mask, req.all)
       /\ CanBlock(t, ticks)
       /\ flags_result' = [flags_result EXCEPT ![t] = {}]
       /\ fr_scheduler_block_current_locked(t, w, "EVENT_FLAGS", f, ticks)
       /\ call' = [call EXCEPT ![t] = Call("wait_wait", f, NoTimeout)]
       /\ UNCHANGED <<bits, matched_bits>>

(* Not initialized, or out of time. *)
WaitRefuse(t, f) ==
    /\ \/ f \notin magic
       \/ /\ ~fr_event_flags_condition_met(bits[f], request[t].mask, request[t].all)
          /\ ~CanBlock(t, fr_wait_timeout_remaining(tick, call[t].timeout))
    /\ WaitReturns(t, {})
    /\ UNCHANGED <<state, wait, pendsv, bits, flags_result>>

(* The critical section of fr_event_flags_wait. *)
WaitEnter(t) ==
    /\ Executes(t)
    /\ call[t].op = "wait"
    /\ LET f == call[t].object IN WaitMet(t, f) \/ WaitBlock(t, f) \/ WaitRefuse(t, f)
    /\ UNCHANGED <<tick, priority, base_priority, sched, switching, magic, request>>

(* Back on the CPU after the wait. *)
WaitReturn(t) ==
    /\ Executes(t)
    /\ call[t].op = "wait_wait"
    /\ WaitReturns(t, IF wait[t].result = "SIGNALED" THEN flags_result[t] ELSE {})
    /\ UNCHANGED <<tick, tcb, sched, pendsv, switching, magic, bits, flags_result, request>>

-----------------------------------------------------------------------------
Init ==
    /\ SchedulerInit
    /\ magic = {}
    /\ bits = [f \in FlagObjects |-> {}]
    /\ flags_result = [t \in Tasks |-> {}]
    /\ request \in [Tasks -> FlagRequests]
    /\ matched_bits = [t \in Tasks |-> {}]

FlagStep ==
    \/ \E f \in FlagObjects : fr_event_flags_init(f)
    \/ \E t \in Tasks, f \in FlagObjects :
          \/ \E B \in Masks : fr_event_flags_set(t, f, B) \/ fr_event_flags_clear(t, f, B)
          \/ \E req \in FlagRequests, ticks \in FlagTimeouts : WaitStart(t, f, req, ticks)
    \/ \E t \in Tasks : WaitEnter(t) \/ WaitReturn(t)

Next ==
    \/ SchedulerTick /\ UNCHANGED flagVars
    \/ KernelStep /\ UNCHANGED flagVars
    \/ SleepStep /\ UNCHANGED flagVars
    \/ FlagStep

Spec == Init /\ [][Next]_vars

-----------------------------------------------------------------------------
(* Properties *)

(* Types of the event flags, of the calls in progress and of the core. *)
FlagsTypeOK ==
    /\ SchedulerTypeOK
    /\ CallsConsistent
    /\ magic \subseteq FlagObjects
    /\ bits \in [FlagObjects -> SUBSET Bits]
    /\ flags_result \in [Tasks -> SUBSET Bits]
    /\ request \in [Tasks -> FlagRequests]
    /\ matched_bits \in [Tasks -> SUBSET Bits]

(* "All blocked tasks whose wait conditions are satisfied are made ready"  *)
(* (include/forge/event_flags.h:22): nobody waits for bits that are there, *)
(* whatever was set, cleared or waited for in between.                     *)
NoSatisfiedWaiter ==
    \A f \in FlagObjects : Satisfied(f, bits[f]) = {}

(* What a woken task is about to return answers what that task asked for,  *)
(* some steps earlier: bits of its mask, and all of them if wait_all,      *)
(* although other waiters of the same set may have cleared them and others *)
(* have set, cleared and waited since (docs/ARCHITECTURE.md:172).          *)
ResultAnswersRequest ==
    \A t \in Tasks :
        (call[t].op = "wait_wait" /\ wait[t].result = "SIGNALED") =>
            /\ flags_result[t] \subseteq request[t].mask
            /\ fr_event_flags_condition_met(flags_result[t], request[t].mask, request[t].all)

(* The bits of f before a step and those that arrive with it. *)
Raised(f) ==
    bits[f] \cup UNION {B \in Masks : \E t \in Tasks : fr_event_flags_set(t, f, B)}

(* No event is lost: a bit leaves the flags only by fr_event_flags_clear,  *)
(* or with a task that is told of it; a bit that a waiter clears in the    *)
(* very call that sets it included.                                        *)
EventsReachATask ==
    [][\A f \in FlagObjects : \A b \in Raised(f) \ bits'[f] :
             \/ \E t \in Tasks : b \in matched_bits'[t] /\ call[t].op = "wait"
             \/ \E t \in Tasks : b \in flags_result'[t] /\ t \in Waiters("EVENT_FLAGS", f)
             \/ \E t \in Tasks, B \in Masks : fr_event_flags_clear(t, f, B)]_vars
=============================================================================
