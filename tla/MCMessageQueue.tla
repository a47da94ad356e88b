--------------------------- MODULE MCMessageQueue ---------------------------
(***************************************************************************)
(* A small instance of the message queues for TLC.                         *)
(***************************************************************************)
EXTENDS MessageQueue, MCCore

MCPriorities == <<{0}, {1}, {1}>>
MCTwoTasks == <<{0, 1}, {1}>>
MCCapacity == [q \in Queues |-> 2]

(* A buffer counts while it is being sent, a slot while it is occupied. *)
MCView ==
    <<CoreView, magic, head, tail, count, [q \in Queues |-> Contents(q)],
      [t \in Tasks |-> IF call[t].op \in {"send", "send_wait"} THEN buffer[t] ELSE NULL]>>

TheQueue == CHOOSE q \in Queues : TRUE

Channel ==
    INSTANCE FifoChannel
      WITH Clients <- Tasks, Capacity <- Capacity[TheQueue], fifo <- Contents(TheQueue)

(* The queue implements a bounded FIFO channel (kernel/queue.c:92-148):    *)
(* items come out once, whole and in the order they went in, whoever is    *)
(* preempted, woken or timed out in between.                               *)
QueueIsFifo == Channel!ChannelSpec
=============================================================================
