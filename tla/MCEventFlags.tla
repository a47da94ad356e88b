---------------------------- MODULE MCEventFlags ----------------------------
(***************************************************************************)
(* A small instance of the event flags for TLC.                            *)
(***************************************************************************)
EXTENDS EventFlags, MCCore

MCPriorities == <<{0}, {1}, {1}>>

(* Waiters that compete for bit 1, and one that needs both bits at once. *)
MCRequests ==
    {[mask |-> {1}, all |-> FALSE, clear |-> TRUE],
     [mask |-> {1, 2}, all |-> TRUE, clear |-> TRUE],
     [mask |-> {1, 2}, all |-> FALSE, clear |-> FALSE]}

(* The arguments and the result of a wait count while it is in progress. *)
MCView ==
    <<CoreView, magic, bits,
      [t \in Tasks |-> IF call[t].op # "wait_wait" THEN {} ELSE flags_result[t]],
      [t \in Tasks |-> IF call[t].op \in {"wait", "wait_wait"} THEN request[t] ELSE NoCall]>>
=============================================================================
