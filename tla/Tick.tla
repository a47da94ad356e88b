-------------------------------- MODULE Tick --------------------------------
(***************************************************************************)
(* Tick arithmetic of the kernel (kernel/tick.c) and the finite-wait       *)
(* budget built on it (kernel/wait_timeout.c).  fr_tick_t is a uint32_t;   *)
(* the width is a parameter, TickMod = UINT32_MAX + 1, so that a small     *)
(* instance wraps around and the proofs hold for every even modulus.       *)
(***************************************************************************)
EXTENDS Integers

CONSTANT TickMod

ASSUME TickModAssumption ==
    /\ TickMod \in Nat
    /\ TickMod > 3
    /\ TickMod % 2 = 0

Ticks == 0 .. TickMod - 1

FR_WAIT_FOREVER == TickMod - 1

FR_WAIT_MAX_FINITE_TICKS == (TickMod - 1) \div 2

\* Mutant: the deadline compared as a plain integer, blind to wraparound.
PlainDeadlineReached(now, deadline) == now >= deadline

fr_tick_deadline_reached(now, deadline) ==
    (now - deadline) % TickMod <= FR_WAIT_MAX_FINITE_TICKS

(* The timeouts fr_wait_timeout_start and fr_scheduler_block_current_locked accept. *)
FiniteTimeouts == 0 .. FR_WAIT_MAX_FINITE_TICKS

fr_wait_timeout_start(now, ticks) ==
    [wait_forever |-> ticks = FR_WAIT_FOREVER,
     deadline     |-> IF ticks = FR_WAIT_FOREVER
                        THEN 0
                        ELSE (now + ticks) % TickMod]

(* Ticks still to wait; 0 stands for the "expired" return (false).  A live *)
(* finite budget is never 0, so the two cannot be confused.                *)
fr_wait_timeout_remaining(now, timeout) ==
    IF timeout.wait_forever THEN FR_WAIT_FOREVER
    ELSE IF fr_tick_deadline_reached(now, timeout.deadline) THEN 0
    ELSE (timeout.deadline - now) % TickMod

NoTimeout == [wait_forever |-> FALSE, deadline |-> 0]
Timeouts == [wait_forever : BOOLEAN, deadline : Ticks]
=============================================================================
