----------------------------- MODULE FifoChannel -----------------------------
(***************************************************************************)
(* What a message queue promises: a bounded first-in first-out channel.    *)
(* A client loads its buffer and sends it, or has the oldest item put into *)
(* its buffer; nothing else happens to the items.                          *)
(***************************************************************************)
EXTENDS Sequences, Integers

CONSTANTS Clients, Items, Capacity

VARIABLES fifo, buffer

Send(t) ==
    /\ Len(fifo) < Capacity
    /\ fifo' = Append(fifo, buffer[t])
    /\ UNCHANGED buffer

Receive(t) ==
    /\ fifo # <<>>
    /\ buffer' = [buffer EXCEPT ![t] = Head(fifo)]
    /\ fifo' = Tail(fifo)

Load(t) ==
    /\ \E x \in Items : buffer' = [buffer EXCEPT ![t] = x]
    /\ UNCHANGED fifo

ChannelInit == fifo = <<>> /\ buffer \in [Clients -> Items]

ChannelNext == \E t \in Clients : Send(t) \/ Receive(t) \/ Load(t)

ChannelSpec == ChannelInit /\ [][ChannelNext]_<<fifo, buffer>>
=============================================================================
