----------------------------- MODULE Diagnostics -----------------------------
(***************************************************************************)
(* The invariant scanner (kernel/diagnostics.c), as the set of violation   *)
(* flags fr_kernel_check_invariants would report.  Where a stack lies and  *)
(* where its stack pointer points is known to module TaskStack only: the   *)
(* scan takes the tasks that pass these two checks as arguments.           *)
(***************************************************************************)
EXTENDS Scheduler, FiniteSets

fr_kernel_wait_state_valid(t) ==
    IF state[t] = "BLOCKED"
      THEN /\ wait[t].reason # "NONE"
           /\ wait[t].result = "PENDING"
           /\ wait[t].object = NULL <=> wait[t].reason = "SLEEP"
           /\ IF wait[t].reason = "EVENT_FLAGS"
                THEN wait[t].mask # {}
                ELSE wait[t].mask = {} /\ ~wait[t].all /\ ~wait[t].clear
      ELSE wait[t] = NoWait(wait[t].result)

RunningTasks == {t \in Registered : state[t] = "RUNNING"}

(* fr_scheduler_current_task hides the idle task. *)
fr_scheduler_current_task == IF current = Idle THEN NULL ELSE current

CurrentTaskValid ==
    LET cur == fr_scheduler_current_task IN
    IF running
      THEN IF cur = NULL THEN RunningTasks = {} ELSE cur \in Registered /\ RunningTasks = {cur}
      ELSE cur = NULL

(* geometry_valid and saved_sp_valid are the tasks of which                *)
(* fr_kernel_stack_geometry_valid and fr_kernel_saved_sp_valid hold.       *)
fr_kernel_check_invariants(geometry_valid, saved_sp_valid) ==
    {v \in {"TASK_COUNT", "TASK_PRIORITY", "STACK_GEOMETRY", "SAVED_SP", "WAIT_STATE",
            "TASK_STATE", "RUNNING_COUNT", "CURRENT_TASK"} :
       CASE v = "TASK_COUNT" -> task_count > MaxTasks
         [] v = "TASK_PRIORITY" ->
              \E t \in Registered : \/ priority[t] > MaxPriority
                                    \/ base_priority[t] > MaxPriority
                                    \/ priority[t] < base_priority[t]
         [] v = "STACK_GEOMETRY" -> ~(Registered \subseteq geometry_valid)
         [] v = "SAVED_SP" -> ~(Registered \cap geometry_valid \subseteq saved_sp_valid)
         [] v = "WAIT_STATE" -> \E t \in Registered : ~fr_kernel_wait_state_valid(t)
         [] v = "TASK_STATE" ->
              \E t \in Registered : \/ state[t] = "CREATED" /\ running
                                    \/ state[t] = "INVALID"
         [] v = "RUNNING_COUNT" -> Cardinality(RunningTasks) > 1
         [] v = "CURRENT_TASK" -> ~CurrentTaskValid}

(* saved_sp is NULL from the reservation of a task to its publication, set *)
(* in the same critical sections as the state.                             *)
HasContext == {t \in Tasks : state[t] \notin {"INVALID", "CREATED"}}

(* The report of a scan, given that stacks keep to what module TaskStack   *)
(* shows of them.                                                          *)
Violations == fr_kernel_check_invariants(Tasks, HasContext)

(* Some thread may call the scanner. *)
SomeoneMayScan == \E t \in Threads : InUserCode(t)

(* Whichever thread calls fr_kernel_check_invariants, and whenever it gets *)
(* to, the scanner reports no violation: the transient states of the       *)
(* kernel are never visible to a thread.                                   *)
ScannerFindsNothing == SomeoneMayScan => Violations = {}
=============================================================================
