------------------------------- MODULE MCCore -------------------------------
(***************************************************************************)
(* What the TLC instances share: who creates tasks, and a view that takes  *)
(* equivalent states together.  States that differ only by a shift of the  *)
(* tick counter behave alike, the code compares ticks by their difference; *)
(* so do states that differ in the wait_result of a task past reading it.  *)
(***************************************************************************)
EXTENDS Diagnostics

MCBootOnly == {Boot}
MCAnyThread == Threads

FromNow(deadline) == (deadline - tick) % TickMod

ViewedWait(t) ==
    [wait[t] EXCEPT !.deadline = IF wait[t].has_deadline THEN FromNow(@) ELSE @,
                    !.result = IF call[t] = NoCall THEN "PENDING" ELSE @]

(* The calls whose budget is still to be consulted. *)
BudgetedCalls == {"lock", "take", "send", "send_wait", "receive", "receive_wait", "wait"}

ViewedCall(t) ==
    IF call[t].op \in BudgetedCalls /\ ~call[t].timeout.wait_forever
      THEN [call[t] EXCEPT !.timeout.deadline = FromNow(@)]
      ELSE call[t]

CoreView ==
    <<[t \in Tasks |-> ViewedWait(t)], [t \in Threads |-> ViewedCall(t)], state, priority,
      base_priority, task_count, running, current, pendsv, switching>>
=============================================================================
