----------------------------- MODULE MCScheduler -----------------------------
(***************************************************************************)
(* Small instances of the kernel core for TLC.                             *)
(***************************************************************************)
EXTENDS MCCore

(* Any mixture of two levels, with a gap between them. *)
MCPriorities == [t \in Tasks |-> {0, 2}]

(* For the rotation: one level, and two neighbouring ones. *)
MCEqualPriorities == [t \in Tasks |-> {1}]
MCTwoLevels == [t \in Tasks |-> {0, 1}]
=============================================================================
