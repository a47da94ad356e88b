----------------------------- MODULE TickProofs -----------------------------
(***************************************************************************)
(* Facts about wraparound tick arithmetic, for every even modulus.         *)
(***************************************************************************)
EXTENDS Tick, TLAPS

(* fr_kernel_tick_isr keeps the counter within fr_tick_t. *)
LEMMA NextTick ==
    ASSUME NEW now \in Ticks
    PROVE  (now + 1) % TickMod \in Ticks
  BY TickModAssumption DEF Ticks

(* A deadline a finite, non-zero number of ticks ahead has not been reached, *)
(* whether or not computing it wraps around.                                 *)
LEMMA FreshDeadline ==
    ASSUME NEW now \in Ticks, NEW ticks \in FiniteTimeouts, ticks # 0
    PROVE  /\ (now + ticks) % TickMod \in Ticks
           /\ ~fr_tick_deadline_reached(now, (now + ticks) % TickMod)
  BY TickModAssumption
     DEF Ticks, FiniteTimeouts, FR_WAIT_MAX_FINITE_TICKS, fr_tick_deadline_reached

(* A deadline that is first reached by the next tick is that very tick. *)
LEMMA ReachedOnTime ==
    ASSUME NEW now \in Ticks, NEW deadline \in Ticks,
           ~fr_tick_deadline_reached(now, deadline),
           fr_tick_deadline_reached((now + 1) % TickMod, deadline)
    PROVE  (now + 1) % TickMod = deadline
  BY TickModAssumption
     DEF Ticks, FR_WAIT_MAX_FINITE_TICKS, fr_tick_deadline_reached

(* FR_WAIT_FOREVER cannot be mistaken for a finite timeout. *)
LEMMA ForeverIsNotFinite == FR_WAIT_FOREVER \notin FiniteTimeouts
  BY TickModAssumption DEF FR_WAIT_FOREVER, FiniteTimeouts, FR_WAIT_MAX_FINITE_TICKS

(* fr_wait_timeout_remaining never asks for more ticks than were granted:  *)
(* waiting again for what is left, from any later tick before the deadline,*)
(* ends at the original deadline and is a legal finite timeout.            *)
THEOREM RemainingKeepsDeadline ==
    ASSUME NEW start \in Ticks, NEW ticks \in FiniteTimeouts,
           NEW elapsed \in 0 .. ticks - 1
    PROVE  LET now == (start + elapsed) % TickMod
               timeout == fr_wait_timeout_start(start, ticks)
               rest == fr_wait_timeout_remaining(now, timeout)
           IN /\ rest = ticks - elapsed
              /\ rest \in FiniteTimeouts \ {0}
              /\ (now + rest) % TickMod = timeout.deadline
  <1>. DEFINE now == (start + elapsed) % TickMod
              timeout == fr_wait_timeout_start(start, ticks)
              deadline == (start + ticks) % TickMod
              rest == fr_wait_timeout_remaining(now, timeout)
  <1>1. ticks # FR_WAIT_FOREVER /\ ticks \in Nat /\ elapsed \in Nat /\ elapsed < ticks
    BY TickModAssumption, ForeverIsNotFinite DEF FiniteTimeouts, FR_WAIT_MAX_FINITE_TICKS
  <1>2. timeout.wait_forever = FALSE /\ timeout.deadline = deadline
    BY <1>1 DEF fr_wait_timeout_start
  <1>3. (deadline - now) % TickMod = ticks - elapsed
    BY <1>1, TickModAssumption DEF Ticks, FiniteTimeouts, FR_WAIT_MAX_FINITE_TICKS
  <1>4. ~fr_tick_deadline_reached(now, deadline)
    BY <1>1, TickModAssumption
       DEF Ticks, FiniteTimeouts, FR_WAIT_MAX_FINITE_TICKS, fr_tick_deadline_reached
  <1>5. (now + (ticks - elapsed)) % TickMod = deadline
    BY <1>1, TickModAssumption DEF Ticks, FiniteTimeouts, FR_WAIT_MAX_FINITE_TICKS
  <1>6. ticks - elapsed \in FiniteTimeouts \ {0}
    BY <1>1, TickModAssumption DEF FiniteTimeouts, FR_WAIT_MAX_FINITE_TICKS
  <1>. HIDE DEF now, timeout, deadline
  <1>7. rest = ticks - elapsed
    BY <1>2, <1>3, <1>4 DEF fr_wait_timeout_remaining
  <1>. QED  BY <1>2, <1>5, <1>6, <1>7 DEF now, timeout, deadline
=============================================================================
