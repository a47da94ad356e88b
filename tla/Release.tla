------------------------------- MODULE Release -------------------------------
(***************************************************************************)
(* The release image: main (src/main.c) brings the board up, creates the   *)
(* demo tasks and the monitor and starts the scheduler; the monitor        *)
(* (src/monitor.c) answers one-byte commands over the UART at the lowest   *)
(* priority.                                                               *)
(*                                                                         *)
(* An answer is a number of lines, each one fr_uart_write; what they say   *)
(* is taken from the status of the other parts in critical sections of     *)
(* their own.                                                              *)
(***************************************************************************)
EXTENDS Demo, Uart

CONSTANTS
    PollTicks,   \* FR_RELEASE_MONITOR_POLL_TICKS
    LineBytes,   \* the length of a line
    Answers      \* how many lines the answer to a command may have

Monitor == 3

VARIABLE lines   \* the lines the monitor has yet to write

releaseVars == <<schedVars, queueVars, demoVars, uartVars, lines>>

-----------------------------------------------------------------------------
(* main.  None of the failures that lead to fr_release_halt can happen:    *)
(* the arguments are constants and the pool holds eight tasks.             *)

BootPeripherals ==
    /\ at[Boot] = "entry"
    /\ fr_uart_init
    /\ GoTo(Boot, "systick")
    /\ UNCHANGED <<schedVars, queueVars, demo, sequence, expected, lines>>

(* From here on the timer ticks. *)
fr_systick_init ==
    /\ at[Boot] = "systick"
    /\ GoTo(Boot, "demo")
    /\ UNCHANGED <<schedVars, queueVars, demo, sequence, expected, uartVars, lines>>

fr_release_demo_init ==
    /\ at[Boot] = "demo"
    /\ fr_queue_init(TheQueue)
    /\ GoTo(Boot, "create")
    /\ UNCHANGED <<demo, sequence, expected, uartVars, lines>>

(* fr_release_demo_create_tasks and fr_release_monitor_create_task *)
BootCreate ==
    /\ at[Boot] = "create"
    /\ \/ \E p \in 0 .. MaxPriority : CreateReserve(Boot, p)
       \/ CreatePublish(Boot)
    /\ UNCHANGED <<queueVars, demoVars, uartVars, lines>>

BootStart ==
    /\ at[Boot] = "create"
    /\ task_count = Monitor
    /\ fr_scheduler_start
    /\ UNCHANGED <<queueVars, demoVars, uartVars, lines>>

BootStep == BootPeripherals \/ fr_systick_init \/ fr_release_demo_init \/ BootCreate \/ BootStart

-----------------------------------------------------------------------------
(* The monitor: a banner and the help, then poll, answer, sleep *)

(* Leaves everything but the monitor's own state and the UART alone. *)
MonitorOnly == UNCHANGED <<schedVars, queueVars, demo, sequence, expected>>

MonitorEntry ==
    /\ at[Monitor] = "entry"
    /\ InUserCode(Monitor)
    /\ lines' = 2
    /\ GoTo(Monitor, "print")
    /\ MonitorOnly /\ UNCHANGED uartVars

MonitorPrint ==
    /\ at[Monitor] = "print"
    /\ InUserCode(Monitor)
    /\ IF lines = 0
         THEN GoTo(Monitor, "poll") /\ UNCHANGED <<uartVars, lines>>
         ELSE GoTo(Monitor, "write") /\ WriteStart(LineBytes) /\ lines' = lines - 1
    /\ MonitorOnly

MonitorWrite ==
    /\ at[Monitor] = "write"
    /\ InUserCode(Monitor)
    /\ \/ WriteByte /\ UNCHANGED at
       \/ WriteReturn /\ GoTo(Monitor, "print")
    /\ MonitorOnly /\ UNCHANGED lines

MonitorPoll ==
    /\ at[Monitor] = "poll"
    /\ InUserCode(Monitor)
    /\ ReadStatus
    /\ GoTo(Monitor, IF status' = NothingReceived THEN "sleep" ELSE "read")
    /\ MonitorOnly /\ UNCHANGED lines

(* fr_release_process_command answers a byte that was delivered. *)
MonitorRead ==
    /\ at[Monitor] = "read"
    /\ InUserCode(Monitor)
    /\ \/ ReadDiscards /\ GoTo(Monitor, "sleep") /\ UNCHANGED lines
       \/ ReadDelivers /\ GoTo(Monitor, "print") /\ lines' \in Answers
    /\ MonitorOnly

MonitorSleep ==
    /\ at[Monitor] = "sleep"
    /\ \/ fr_task_sleep(Monitor, PollTicks) /\ UNCHANGED <<at, lines>>
       \/ /\ SleepReturn(Monitor)
          /\ IF wait[Monitor].result = "TIMEOUT"
               THEN GoTo(Monitor, "poll") /\ UNCHANGED lines
               ELSE GoTo(Monitor, "print") /\ lines' = 1
    /\ UNCHANGED <<queueVars, demo, sequence, expected, uartVars>>

MonitorStep ==
    \/ MonitorEntry
    \/ MonitorPrint
    \/ MonitorWrite
    \/ MonitorPoll
    \/ MonitorRead
    \/ MonitorSleep

-----------------------------------------------------------------------------
(* After reset: .bss is zero, and what the stacks hold is never read. *)
ReleaseInit ==
    /\ Init /\ tick = 0 /\ buffer = [t \in Tasks |-> 0]
    /\ DemoInit
    /\ UartInit
    /\ lines = 0

ReleaseTick ==
    /\ at[Boot] \notin {"entry", "systick"}
    /\ SchedulerTick
    /\ UNCHANGED <<queueVars, demoVars, uartVars, lines>>

ReleasePendSV ==
    /\ PendSV_Entry \/ PendSV_Handler
    /\ UNCHANGED <<queueVars, demoVars, uartVars, lines>>

DemoStep ==
    /\ ProducerStep \/ ConsumerStep
    /\ UNCHANGED <<uartVars, lines>>

Transmit == (TxLoad \/ TxSent) /\ UNCHANGED <<schedVars, queueVars, demoVars, lines>>
Receive ==
    (\E damaged \in BOOLEAN : RxArrive(damaged)) /\ UNCHANGED <<schedVars, queueVars, demoVars, lines>>

ReleaseNext ==
    \/ ReleaseTick
    \/ ReleasePendSV
    \/ BootStep
    \/ DemoStep
    \/ MonitorStep
    \/ Transmit
    \/ Receive

(* Time passes, exceptions are taken, the thread that has the CPU runs and *)
(* bytes get sent.  The demo may preempt the monitor over and over again:  *)
(* strong fairness says that it makes progress when it has the CPU.        *)
ReleaseSpec ==
    /\ ReleaseInit
    /\ [][ReleaseNext]_releaseVars
    /\ WF_releaseVars(ReleaseTick)
    /\ WF_releaseVars(ReleasePendSV)
    /\ WF_releaseVars(BootStep \/ DemoStep)
    /\ SF_releaseVars(MonitorStep)
    /\ WF_releaseVars(Transmit)

-----------------------------------------------------------------------------
(* Whatever the monitor reports is a moment at which the demo is at rest:  *)
(* sent equals recv, q is 0 and derr is 0 in every STATUS line             *)
(* (docs/UART_MONITOR.md), although two tasks write the counters in        *)
(* critical sections of their own and the send itself is in neither        *)
(* (src/demo.c:75-79, 203-219).                                            *)
MonitorSeesBalance ==
    Executes(Monitor) =>
        /\ demo.messages_sent = demo.messages_received
        /\ demo.queue_depth = 0
        /\ ~demo.derr

(* The driver loses nothing unnoticed, preempted between any two register  *)
(* accesses.  A byte that is overrun before, after or between the two      *)
(* reads of fr_uart_try_read is counted or leaves the flag by which the    *)
(* next call counts it, whether this call discards or delivers; and it     *)
(* never hands a damaged byte to the monitor (bsp/stm32f446re/uart.c:202-  *)
(* 218).  No byte is overwritten in the transmit data register, and when   *)
(* fr_uart_write has returned the last stop bit is out (uart.c:179-192).   *)
UartLosesNothing ==
    /\ lost => rx.ore
    /\ ~corrupted
    /\ owed = Cardinality({r \in DOMAIN tx : tx[r]})
    /\ at[Monitor] # "write" => owed = 0

(* The demo goes on for ever: another message is received.                 *)
DemoDelivers == []<><<ConsumerAccount>>_releaseVars

(* A byte on the UART is fetched, as long as the demo leaves the monitor   *)
(* some of the CPU.                                                        *)
BytesFetched ==
    []<>Executes(Monitor) => (rx.rxne ~> ~rx.rxne)
=============================================================================
