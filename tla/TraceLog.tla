------------------------------ MODULE TraceLog ------------------------------
(***************************************************************************)
(* What the trace promises: while recording is on, every event is appended *)
(* to a log that keeps the newest Capacity events, oldest first, and drops *)
(* an event only to make room for a newer one.                             *)
(***************************************************************************)
EXTENDS Sequences, Integers

CONSTANT Capacity

VARIABLES
    log,
    enabled,
    input     \* the events of the last step, in order

Newest(events) ==
    LET dropped == IF Len(events) > Capacity THEN Len(events) - Capacity ELSE 0
    IN SubSeq(events, dropped + 1, Len(events))

LogInit == log = <<>> /\ enabled = TRUE /\ input = <<>>

Extend ==
    /\ log' = IF enabled THEN Newest(log \o input') ELSE log
    /\ UNCHANGED enabled

Clear == log' = <<>> /\ input' = <<>> /\ UNCHANGED enabled

Enable == enabled' \in BOOLEAN /\ input' = <<>> /\ UNCHANGED log

LogNext == Extend \/ Clear \/ Enable

LogSpec == LogInit /\ [][LogNext]_<<log, enabled, input>>
=============================================================================
