------------------------------ MODULE MCRelease ------------------------------
(***************************************************************************)
(* A small instance of the release image for TLC.                          *)
(***************************************************************************)
EXTENDS Release

(* Producer, consumer, monitor: 3, 4 and 1 in the code. *)
MCPriorities == <<{1}, {2}, {0}>>
MCCapacity == [q \in Queues |-> 1]
MCBootOnly == {Boot}
=============================================================================
