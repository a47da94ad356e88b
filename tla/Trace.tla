-------------------------------- MODULE Trace --------------------------------
(***************************************************************************)
(* The in-memory event trace (kernel/trace.c): a ring that overwrites its  *)
(* oldest entry when full, with running counters.  Every operation is one  *)
(* critical section (or runs in an exception handler that cannot be        *)
(* preempted by another recorder), so each is one function of the ring.    *)
(*                                                                         *)
(* An entry keeps its sequence number, its event and its task id; the tick *)
(* and the two arguments are payload.  The uint32_t counters wrap at       *)
(* CounterMod.                                                             *)
(***************************************************************************)
EXTENDS Integers, SequencesExt

CONSTANTS
    TraceCapacity,   \* FR_TRACE_BUFFER_CAPACITY
    CounterMod       \* UINT32_MAX + 1

ASSUME TraceAssumption ==
    /\ TraceCapacity \in Nat \ {0}
    /\ CounterMod \in Nat
    /\ CounterMod > TraceCapacity

VARIABLE trace   \* g_fr_trace_*

Event(event, task_id) == [event |-> event, task_id |-> task_id]

TraceSlots == 0 .. TraceCapacity - 1

fr_trace_advance_index(index) == IF index + 1 = TraceCapacity THEN 0 ELSE index + 1

(* Nothing is known of a slot that was never written. *)
EmptySlot == [sequence |-> 0, event |-> "NONE", task_id |-> 0]

fr_trace_init ==
    [buffer |-> [i \in TraceSlots |-> EmptySlot], write_index |-> 0, count |-> 0,
     next_sequence |-> 1, overwritten_events |-> 0, enabled |-> TRUE]

\* Mutant: a full ring writes its last slot again.
RecordWithoutAdvance(tr, e) ==
    IF ~tr.enabled THEN tr
    ELSE [tr EXCEPT !.buffer[tr.write_index] = [sequence |-> tr.next_sequence] @@ e,
                    !.next_sequence = (@ + 1) % CounterMod,
                    !.write_index = IF tr.count < TraceCapacity
                                      THEN fr_trace_advance_index(@) ELSE @,
                    !.count = IF @ < TraceCapacity THEN @ + 1 ELSE @,
                    !.overwritten_events =
                        IF tr.count < TraceCapacity THEN @ ELSE (@ + 1) % CounterMod]

(* The callers pass events of fr_trace_event_t only, none is refused. *)
fr_trace_record_locked(tr, e) ==
    IF ~tr.enabled THEN tr
    ELSE [tr EXCEPT !.buffer[tr.write_index] = [sequence |-> tr.next_sequence] @@ e,
                    !.next_sequence = (@ + 1) % CounterMod,
                    !.write_index = fr_trace_advance_index(@),
                    !.count = IF @ < TraceCapacity THEN @ + 1 ELSE @,
                    !.overwritten_events =
                        IF tr.count < TraceCapacity THEN @ ELSE (@ + 1) % CounterMod]

(* What one critical section or handler records, in order. *)
Record(events) == trace' = FoldLeft(fr_trace_record_locked, trace, events)

fr_trace_enable(enabled) == trace' = [trace EXCEPT !.enabled = enabled]

(* The slots keep their old contents. *)
fr_trace_clear ==
    trace' = [trace EXCEPT !.write_index = 0, !.count = 0, !.next_sequence = 1,
                           !.overwritten_events = 0]

\* Mutant: the oldest entries are copied instead of the newest.
SnapshotOldest(max_entries) ==
    LET copy_count == IF trace.count < max_entries THEN trace.count ELSE max_entries
        oldest_index == IF trace.count < TraceCapacity THEN 0 ELSE trace.write_index
    IN [i \in 1 .. copy_count |-> trace.buffer[(oldest_index + i - 1) % TraceCapacity]]

(* The copy fr_trace_snapshot returns: it starts at the oldest entry, and  *)
(* skips as many as do not fit.                                            *)
fr_trace_snapshot(max_entries) ==
    LET copy_count == IF trace.count < max_entries THEN trace.count ELSE max_entries
        oldest_index == IF trace.count < TraceCapacity THEN 0 ELSE trace.write_index
        skip_count == trace.count - copy_count
    IN [i \in 1 .. copy_count |->
          trace.buffer[(oldest_index + skip_count + i - 1) % TraceCapacity]]

-----------------------------------------------------------------------------
(* "Copy the newest events into entries in chronological order"            *)
(* (include/forge/trace.h:56), whatever the size of the destination: the   *)
(* sequence numbers run without a gap up to the last one given out, across *)
(* the wraparound of the ring and of the counters; and the status accounts *)
(* for every event, buffered or overwritten.                               *)
SnapshotIsNewest ==
    /\ \A max_entries \in 1 .. TraceCapacity + 1 :
         LET s == fr_trace_snapshot(max_entries)
         IN \A i \in DOMAIN s :
              s[i].sequence = (trace.next_sequence - 1 - Len(s) + i) % CounterMod
    /\ trace.count \in 0 .. TraceCapacity
    /\ (trace.count + trace.overwritten_events - (trace.next_sequence - 1)) % CounterMod = 0
=============================================================================
