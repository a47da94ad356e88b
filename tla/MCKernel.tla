------------------------------- MODULE MCKernel ------------------------------
(***************************************************************************)
(* A small instance of the kernel core with its trace for TLC.             *)
(***************************************************************************)
EXTENDS TracedKernel, MCCore

(* Two equal tasks first, then tasks that preempt them in the middle of a create. *)
MCRising == [t \in Tasks |-> {IF t < 3 THEN 0 ELSE 1}]

(* Slots beyond the count are never read, and neither is what the last     *)
(* step recorded; like ticks, sequence numbers matter by their distance    *)
(* from the next one.                                                      *)
TraceView ==
    LET log == fr_trace_snapshot(TraceCapacity)
        age(e) == (trace.next_sequence - e.sequence) % CounterMod
    IN <<CoreView, gap, trace.enabled, trace.write_index, trace.count,
         (trace.next_sequence - trace.overwritten_events) % CounterMod,
         [i \in DOMAIN log |-> [log[i] EXCEPT !.sequence = age(log[i])]]>>
=============================================================================
