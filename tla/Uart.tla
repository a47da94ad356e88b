-------------------------------- MODULE Uart --------------------------------
(***************************************************************************)
(* The polled USART2 driver (bsp/stm32f446re/uart.c) and the part of the   *)
(* peripheral it relies on.  The driver runs in one thread, which may be   *)
(* preempted between any two accesses to the peripheral; the peripheral    *)
(* goes on meanwhile.  What a byte says is left out, except whether it was *)
(* received damaged: then PE, FE or NE is set together with RXNE.  ORE is  *)
(* set when a byte is lost because the one before was not fetched in time. *)
(* Reading DR clears RXNE, and those error flags that the last read of SR  *)
(* has seen set.                                                           *)
(***************************************************************************)
EXTENDS Integers

CONSTANTS
    PeripheralClock,   \* peripheral_clock_hz
    BaudRate,          \* baud_rate
    MaxUint            \* UINT32_MAX

VARIABLES
    initialized,   \* g_fr_uart_initialized
    tx,            \* .data: the data register is full, .shift: a byte is on the wire
    rx,            \* the receive flags of SR: .rxne, .damaged (PE, FE or NE), .ore
    status,        \* those flags as fr_uart_try_read has read them, while it runs
    tx_left,       \* the bytes fr_uart_write has yet to hand over
    owed,          \* history: bytes handed over and not yet sent
    lost,          \* history: bytes were overrun and rx_error_count does not say so yet
    corrupted      \* history: the caller was handed a damaged byte

uartVars == <<initialized, tx, rx, status, tx_left, owed, lost, corrupted>>

NothingReceived == [rxne |-> FALSE, damaged |-> FALSE, ore |-> FALSE]

-----------------------------------------------------------------------------
(* The peripheral (external) *)

(* The data register empties into the idle shift register. *)
TxLoad ==
    /\ tx.data /\ ~tx.shift
    /\ tx' = [data |-> FALSE, shift |-> TRUE]
    /\ UNCHANGED <<initialized, rx, status, tx_left, owed, lost, corrupted>>

(* The stop bit of a byte has left. *)
TxSent ==
    /\ tx.shift
    /\ tx' = [tx EXCEPT !.shift = FALSE]
    /\ owed' = owed - 1
    /\ UNCHANGED <<initialized, rx, status, tx_left, lost, corrupted>>

(* A byte arrives; an overrun leaves the data register as it is. *)
RxArrive(damaged) ==
    /\ initialized
    /\ IF rx.rxne
         THEN rx' = [rx EXCEPT !.ore = TRUE] /\ lost' = TRUE
         ELSE rx' = [rx EXCEPT !.rxne = TRUE, !.damaged = @ \/ damaged] /\ UNCHANGED lost
    /\ UNCHANGED <<initialized, tx, status, tx_left, owed, corrupted>>

(* The flags after DR has been read. *)
AfterDataRead ==
    [rxne |-> FALSE, damaged |-> rx.damaged /\ ~status.damaged, ore |-> rx.ore /\ ~status.ore]

-----------------------------------------------------------------------------
(* The driver *)

fr_uart_calculate_brr ==
    LET rounding == BaudRate \div 2
        divisor == (PeripheralClock + rounding) \div BaudRate
    IN IF PeripheralClock = 0 \/ BaudRate = 0 THEN 0
       ELSE IF PeripheralClock > MaxUint - rounding THEN 0
       ELSE IF divisor < 16 \/ divisor > 65535 THEN 0 ELSE divisor

fr_uart_init ==
    /\ ~initialized
    /\ fr_uart_calculate_brr # 0
    /\ initialized' = TRUE
    /\ rx' = NothingReceived
    /\ UNCHANGED <<tx, status, tx_left, owed, lost, corrupted>>

(* fr_uart_write of length bytes *)
WriteStart(length) ==
    /\ initialized
    /\ tx_left' = length
    /\ UNCHANGED <<initialized, tx, rx, status, owed, lost, corrupted>>

\* Mutant: the wait for TXE is inverted.
WriteByteInverted ==
    /\ tx_left > 0
    /\ tx.data
    /\ tx' = [tx EXCEPT !.data = TRUE]
    /\ tx_left' = tx_left - 1
    /\ owed' = owed + 1
    /\ UNCHANGED <<initialized, rx, status, lost, corrupted>>

(* TXE is set: the next byte goes to the data register. *)
WriteByte ==
    /\ tx_left > 0
    /\ ~tx.data
    /\ tx' = [tx EXCEPT !.data = TRUE]
    /\ tx_left' = tx_left - 1
    /\ owed' = owed + 1
    /\ UNCHANGED <<initialized, rx, status, lost, corrupted>>

(* TC is set: the write returns. *)
WriteReturn ==
    /\ tx_left = 0
    /\ ~tx.data /\ ~tx.shift
    /\ UNCHANGED uartVars

(* fr_uart_try_read reads the status register ... *)
ReadStatus ==
    /\ initialized
    /\ status' = rx
    /\ UNCHANGED <<initialized, tx, rx, tx_left, owed, lost, corrupted>>

\* Mutant: FR_USART_ERROR_MASK leaves out PE, FE and NE.
ReadLooksForOverrunOnly(s) == s.ore

ReadFindsError(s) == s.damaged \/ s.ore

(* ... and then the data register.  With an error the byte is discarded    *)
(* and the error counted: a loss that SR has told of is accounted for, one *)
(* that came after it is not.                                              *)
ReadDiscards ==
    /\ ReadFindsError(status)
    /\ rx' = AfterDataRead
    /\ lost' = (lost /\ ~status.ore)
    /\ status' = NothingReceived
    /\ UNCHANGED <<initialized, tx, tx_left, owed, corrupted>>

(* Without one the byte is handed to the caller. *)
ReadDelivers ==
    /\ ~ReadFindsError(status)
    /\ status.rxne
    /\ rx' = AfterDataRead
    /\ corrupted' = (corrupted \/ rx.damaged)
    /\ status' = NothingReceived
    /\ UNCHANGED <<initialized, tx, tx_left, owed, lost>>

UartInit ==
    /\ initialized = FALSE
    /\ tx = [data |-> FALSE, shift |-> FALSE]
    /\ rx = NothingReceived
    /\ status = NothingReceived
    /\ tx_left = 0
    /\ owed = 0
    /\ lost = FALSE
    /\ corrupted = FALSE
=============================================================================
