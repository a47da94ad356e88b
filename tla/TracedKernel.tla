---------------------------- MODULE TracedKernel ----------------------------
(***************************************************************************)
(* The kernel core composed with the trace: every step of the core records *)
(* the events its code passes to fr_trace_record_locked, in that order.    *)
(***************************************************************************)
EXTENDS Diagnostics, Trace

CONSTANT TraceUsers   \* the threads that control the trace

VARIABLES
    gap,      \* history: events went unrecorded after one that is still buffered
    passed    \* history: the events the last step passed to fr_trace_record_locked

tracedVars == <<schedVars, trace, gap, passed>>

(* What an entry speaks of: the CPU (under the name of the reset thread,   *)
(* which no entry mentions) or the wait of a task.                         *)
Subject(e) ==
    IF e.event \in {"SCHEDULER_START", "CONTEXT_SWITCH"} THEN Boot ELSE e.task_id

Records(events) ==
    /\ Record(events)
    /\ passed' = events
    /\ gap' = (gap \/ (~trace.enabled /\ trace.count > 0 /\ events # <<>>))

-----------------------------------------------------------------------------
(* The events of each step *)

\* Mutant: only the timeout is recorded, not the end of the wait.
ExpiryTimeoutOnly(t) == <<Event("TASK_TIMEOUT", t)>>

ExpiryEvents(t) == <<Event("TASK_TIMEOUT", t), Event("TASK_UNBLOCK", t)>>

(* fr_scheduler_expire_timeouts goes through the registry in index order. *)
TickEvents ==
    LET X == IF running THEN Expired((tick + 1) % TickMod) ELSE {}
    IN FoldLeft(LAMBDA events, t : events \o ExpiryEvents(t), <<>>, SetToSortSeq(X, <))

SwitchEvents ==
    IF current' = current THEN <<>> ELSE <<Event("CONTEXT_SWITCH", current')>>

TracedStep ==
    \/ SchedulerTick /\ Records(TickEvents)
    \/ \E t \in Creators, p \in 0 .. MaxPriority : CreateReserve(t, p) /\ Records(<<>>)
    \/ \E t \in Creators : CreatePublish(t) /\ Records(<<Event("TASK_CREATE", call[t].object)>>)
    \/ fr_scheduler_start /\ Records(<<Event("SCHEDULER_START", current')>>)
    \/ PendSV_Entry /\ Records(<<>>)
    \/ PendSV_Handler /\ Records(SwitchEvents)
    \/ \E t \in Tasks, ticks \in Delays :
          fr_task_sleep(t, ticks) /\ Records(<<Event("TASK_BLOCK", t)>>)
    \/ \E t \in Tasks : SleepReturn(t) /\ Records(<<>>)
    \/ YieldStep /\ Records(<<>>)

(* A thread switches recording on or off, or clears the buffer. *)
TraceCall ==
    /\ \E t \in TraceUsers : InUserCode(t)
    /\ \/ (\E enabled \in BOOLEAN : fr_trace_enable(enabled)) /\ UNCHANGED gap
       \/ fr_trace_clear /\ gap' = FALSE
    /\ passed' = <<>>
    /\ UNCHANGED schedVars

TracedInit == SchedulerInit /\ trace = fr_trace_init /\ gap = FALSE /\ passed = <<>>

TracedNext == TracedStep \/ TraceCall

TracedSpec == TracedInit /\ [][TracedNext]_tracedVars

-----------------------------------------------------------------------------
(* The log as a caller of fr_trace_snapshot sees it, without the numbers. *)
RecordedEvents ==
    LET log == fr_trace_snapshot(TraceCapacity)
    IN [i \in DOMAIN log |-> Event(log[i].event, log[i].task_id)]

Log ==
    INSTANCE TraceLog
      WITH Capacity <- TraceCapacity, log <- RecordedEvents, enabled <- trace.enabled,
           input <- passed

(* The ring implements the bounded log (kernel/trace.c:83-145): after any  *)
(* step of the kernel a snapshot shows exactly the newest events passed to *)
(* fr_trace_record_locked while recording was on, in that order.  A burst  *)
(* that is longer than the ring, a clear, or recording switched off and on *)
(* again in any position of the ring loses and reorders nothing else.      *)
TraceIsBoundedLog == Log!LogSpec

(* The last buffered entry of a subject, 0 if there is none. *)
LastOf(log, subject) ==
    LET about == {i \in DOMAIN log : Subject(log[i]) = subject}
    IN IF about = {} THEN 0 ELSE CHOOSE i \in about : \A j \in about : j <= i

(* What the monitor prints is the truth: in a snapshot the last entry      *)
(* about a task tells whether it is BLOCKED, and the last switch names the *)
(* task that has the CPU, at every moment a thread or an exception can     *)
(* take the snapshot, unless fr_trace_enable(false) suppressed an event    *)
(* since the oldest entry.                                                 *)
TraceTellsStates ==
    LET log == fr_trace_snapshot(TraceCapacity) IN
    ~gap => \A s \in Threads :
        LET i == LastOf(log, s) IN
        i # 0 => IF s = Boot
                   THEN log[i].task_id = current
                   ELSE log[i].event \in IF state[s] = "BLOCKED"
                                           THEN {"TASK_BLOCK"}
                                           ELSE {"TASK_CREATE", "TASK_UNBLOCK"}

(* A create that a higher-priority task preempts leaves a task in state    *)
(* CREATED and without a stack pointer, and a thread that scans meanwhile  *)
(* is told both (kernel/diagnostics.c:183-204).  With tasks that create    *)
(* tasks, these two flags are all the scanner ever reports, and it reports *)
(* them if and only if a create is unfinished.                             *)
ScannerBlamesOnlyCreation ==
    SomeoneMayScan =>
        Violations = IF \E t \in Threads : call[t].op = "create"
                       THEN {"TASK_STATE", "SAVED_SP"} ELSE {}
=============================================================================
