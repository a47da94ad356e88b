-------------------------------- MODULE Demo --------------------------------
(***************************************************************************)
(* The demo application (src/demo.c): a producer that sends a numbered     *)
(* message and sleeps, and a consumer of higher priority that checks the   *)
(* numbering.  Both wait for ever on the queue.                            *)
(*                                                                         *)
(* Items are the sequence numbers, which wrap with uint32_t; timestamps    *)
(* and the latency computed from them are left out, and so is the LED.     *)
(***************************************************************************)
EXTENDS MessageQueue

CONSTANTS
    ProducerPeriod,   \* FR_RELEASE_DEMO_PRODUCER_PERIOD_TICKS
    TheQueue          \* g_fr_release_demo_queue

Producer == 1
Consumer == 2

VARIABLES
    at,         \* where each thread is in its program
    demo,       \* g_fr_release_demo_status; .derr: one of the error counters is not 0
    sequence,   \* the producer's last sequence
    expected    \* the consumer's expected_sequence

demoVars == <<at, demo, sequence, expected>>

(* Sequence numbers are 0 .. SequenceMod - 1 = Items. *)
SequenceMod == Cardinality(Items)
Increment(n) == (n + 1) % SequenceMod

GoTo(t, location) == at' = [at EXCEPT ![t] = location]

-----------------------------------------------------------------------------
(* The producer *)

ProducerSend ==
    /\ at[Producer] = "send"
    /\ SendStart(Producer, TheQueue, FR_WAIT_FOREVER)
    /\ buffer'[Producer] = Increment(sequence)
    /\ GoTo(Producer, "sending")
    /\ UNCHANGED <<demo, sequence, expected>>

\* Mutant: the sequence number is not advanced after a successful send.
ProducerSendingStuck ==
    /\ at[Producer] = "sending"
    /\ SendLoop(Producer)
    /\ IF call'[Producer] # NoCall THEN UNCHANGED at ELSE GoTo(Producer, "sent")
    /\ UNCHANGED <<demo, sequence, expected>>

(* A pass through fr_queue_send_wait: it blocks, or returns. *)
ProducerSending ==
    /\ at[Producer] = "sending"
    /\ SendLoop(Producer)
    /\ IF call'[Producer] # NoCall THEN UNCHANGED <<at, demo, sequence>>
       ELSE IF count' # count
         THEN GoTo(Producer, "sent") /\ sequence' = buffer[Producer] /\ UNCHANGED demo
         ELSE GoTo(Producer, "send") /\ demo' = [demo EXCEPT !.derr = TRUE] /\ UNCHANGED sequence
    /\ UNCHANGED expected

ProducerAccount ==
    /\ at[Producer] = "sent"
    /\ InUserCode(Producer)
    /\ demo' = [demo EXCEPT !.messages_sent = Increment(@), !.queue_depth = count[TheQueue]]
    /\ GoTo(Producer, "sleep")
    /\ UNCHANGED <<schedVars, queueVars, sequence, expected>>

ProducerSleep ==
    /\ at[Producer] = "sleep"
    /\ \/ fr_task_sleep(Producer, ProducerPeriod) /\ UNCHANGED <<at, demo>>
       \/ /\ SleepReturn(Producer)
          /\ demo' = [demo EXCEPT !.derr = @ \/ wait[Producer].result # "TIMEOUT"]
          /\ GoTo(Producer, "send")
    /\ UNCHANGED <<queueVars, sequence, expected>>

ProducerStep == ProducerSend \/ ProducerSending \/ ProducerAccount \/ ProducerSleep

-----------------------------------------------------------------------------
(* The consumer *)

ConsumerReceive ==
    /\ at[Consumer] = "receive"
    /\ ReceiveStart(Consumer, TheQueue, FR_WAIT_FOREVER)
    /\ GoTo(Consumer, "receiving")
    /\ UNCHANGED <<demo, sequence, expected>>

ConsumerReceiving ==
    /\ at[Consumer] = "receiving"
    /\ ReceiveLoop(Consumer)
    /\ IF call'[Consumer] # NoCall THEN UNCHANGED <<at, demo>>
       ELSE IF count' # count THEN GoTo(Consumer, "received") /\ UNCHANGED demo
       ELSE GoTo(Consumer, "receive") /\ demo' = [demo EXCEPT !.derr = TRUE]
    /\ UNCHANGED <<sequence, expected>>

ConsumerAccount ==
    /\ at[Consumer] = "received"
    /\ InUserCode(Consumer)
    /\ LET message == buffer[Consumer]
       IN /\ demo' = [demo EXCEPT !.messages_received = Increment(@),
                                  !.queue_depth = count[TheQueue],
                                  !.derr = @ \/ message # expected]
          /\ expected' = Increment(message)
    /\ GoTo(Consumer, "receive")
    /\ UNCHANGED <<schedVars, queueVars, sequence>>

ConsumerStep == ConsumerReceive \/ ConsumerReceiving \/ ConsumerAccount

-----------------------------------------------------------------------------
(* Before main: the tasks stand at their entry points. *)
DemoInit ==
    /\ at = [t \in Threads |-> CASE t = Producer -> "send"
                                 [] t = Consumer -> "receive"
                                 [] OTHER -> "entry"]
    /\ demo = [messages_sent |-> 0, messages_received |-> 0, queue_depth |-> 0, derr |-> FALSE]
    /\ sequence = 0
    /\ expected = 1

(* Every message is accounted for: what was sent is received or still in   *)
(* the queue, also when the consumer preempts the producer before it has   *)
(* counted its message (src/demo.c:75-79); nothing is received out of      *)
(* order, and no call of the kernel fails.                                 *)
MessagesConserved ==
    LET one(b) == IF b THEN 1 ELSE 0
        sent == demo.messages_sent + one(at[Producer] = "sent")
        received == demo.messages_received + one(at[Consumer] = "received")
    IN /\ (sent - received - count[TheQueue]) % SequenceMod = 0
       /\ ~demo.derr
=============================================================================
