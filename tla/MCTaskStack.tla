----------------------------- MODULE MCTaskStack -----------------------------
(***************************************************************************)
(* A small instance of the stack model for TLC: two words of data at the   *)
(* start of RAM, then the stacks of task 1, task 2 and idle.               *)
(***************************************************************************)
EXTENDS TaskStack, MCCore

MCPriorities == <<{0}, {1}>>

Stack(memory, size) == [memory |-> memory, size |-> size]

(* What fr_task_create is offered, most of it to be refused: NULL, too     *)
(* small, an odd size, an odd address, and the end of the address space.   *)
BadStacks == {Stack(0, 8), Stack(12, 6), Stack(12, 9), Stack(13, 8), Stack(28, 8), Stack(30, 8)}

MCStackConfigs ==
    [t \in TCBs |-> CASE t = 1 -> {Stack(4, 8)}
                      [] t = 2 -> {Stack(12, 8)} \cup BadStacks
                      [] t = 0 -> {Stack(20, 8)}]

Overflown(t) == deepest[t] < stack_base(t)

(* A task whose stack was overwritten does not run again, and no property  *)
(* speaks of its watermark unless it had overflown itself.                 *)
Scanned == {t \in Tasks : t \notin trampled \/ Overflown(t)}

(* Below its stack it does not matter how deep a task went. *)
ViewedDeepest(t) ==
    IF Overflown(t) THEN stack_base(t) - 1 ELSE IF t \in Scanned THEN deepest[t] ELSE stack_top(t)

(* The words that a scan from the base of a stack reaches, now or once the *)
(* written words below them have come to equal the pattern: the only ones  *)
(* the model ever looks at.                                                *)
InScan(w, words) == \A v \in words : v < w => v \in pattern \cup AlikeWords

ScannedPattern ==
    {w \in pattern : \A t \in Tasks : w \in StackWords(t) => t \in Scanned /\ InScan(w, StackWords(t))}

(* The padding of the running task is stored anew before it is looked at. *)
SavedPadding == [t \in Scanned \ {current} |-> padded[t]]

(* After a crash only the records change. *)
StackView ==
    IF Crashed
      THEN <<crashVars>>
      ELSE <<CoreView, stack, ScannedPattern, saved_sp, SavedPadding, psp,
             [t \in Tasks |-> ViewedDeepest(t)], trampled, alike>>
=============================================================================
