----------------------------- MODULE Hi16xxUart -----------------------------
(***************************************************************************)
(* The HI16xx UART driver, src/core/drivers/hi16xx_uart.c: init, putc,    *)
(* flush and getchar of one console caller against the UART, whose TX    *)
(* FIFO drains through the shifter and whose RX FIFO fills from the line. *)
(* Characters are not told apart; the FIFOs are their fill levels.       *)
(* UART_USR is built bit by bit and tested with the code's masks.        *)
(***************************************************************************)
EXTENDS Naturals, Bitwise

CONSTANTS
    Depth,      \* FIFO depth (32 on the chip)
    Clks,       \* uart_clk values the platform passes to hi16xx_uart_init
    Bauds       \* baud_rate values

ASSUME Depth \in Nat \ {0} /\ Bauds \subseteq Nat \ {0}

\* the status register's bit numbers, UART_USR_*_BIT
UART_USR_BUSY_BIT == 0
UART_USR_TFNF_BIT == 1
UART_USR_TFE_BIT  == 2
UART_USR_RFNE_BIT == 3
UART_USR_RFF_BIT  == 4

UART_FCR_FIFO_EN == 1
UART_LCR_DLS8 == 3

VARIABLES
    txFifo,     \* characters in the TX FIFO
    shifting,   \* the transmitter is sending a character
    rxFifo,     \* characters in the RX FIFO
    regs,       \* FCR, LCR, DLL, DLH, IEL as written
    pc,         \* the caller: "init", "idle", "flush", "putc", "getchar"
    lostTx,     \* history: a character was written to a full TX FIFO
    emptyRead   \* history: RBR was read with the RX FIFO empty

vars == <<txFifo, shifting, rxFifo, regs, pc, lostTx, emptyRead>>

Bit(b, n) == IF b THEN 2^n ELSE 0

\* read32(base + UART_USR)
UART_USR ==
    Bit(shifting, UART_USR_BUSY_BIT) + Bit(txFifo < Depth, UART_USR_TFNF_BIT)
    + Bit(txFifo = 0, UART_USR_TFE_BIT) + Bit(rxFifo > 0, UART_USR_RFNE_BIT)
    + Bit(rxFifo = Depth, UART_USR_RFF_BIT)

\* mutant: the BUSY bit number used as the mask
TxTestBusyBit == (UART_USR & UART_USR_BUSY_BIT) # 0

\* the loop tests as written: the bit numbers are used as masks
TxTest == (UART_USR & UART_USR_TFE_BIT) # 0
RxTest == (UART_USR & UART_USR_RFNE_BIT) # 0

\* uint16_t freq_div = uart_clk / (16 * baud_rate)
FreqDiv(clk, baud) == (clk \div (16 * baud)) % 2^16

Init ==
    /\ txFifo \in 0..Depth
    /\ shifting \in BOOLEAN
    /\ rxFifo \in 0..Depth
    /\ regs = [fcr |-> 0, lcr |-> 0, dll |-> 0, dlh |-> 0, iel |-> 0]
    /\ pc = "init"
    /\ lostTx = FALSE
    /\ emptyRead = FALSE

-----------------------------------------------------------------------------
(* The driver.                                                           *)

\* mutant: DLL written without "& 0xFF"
UartInitDllUnmasked(clk, baud) ==
    /\ pc = "init"
    /\ regs' = [fcr |-> UART_FCR_FIFO_EN,
                lcr |-> UART_LCR_DLS8,
                dll |-> FreqDiv(clk, baud),
                dlh |-> (FreqDiv(clk, baud) \div 2^8) & 255,
                iel |-> 0]
    /\ pc' = "flush"
    /\ UNCHANGED <<txFifo, shifting, rxFifo, lostTx, emptyRead>>

\* hi16xx_uart_init: the register writes, then hi16xx_uart_flush
UartInit(clk, baud) ==
    /\ pc = "init"
    /\ regs' = [fcr |-> UART_FCR_FIFO_EN,
                lcr |-> UART_LCR_DLS8,
                dll |-> FreqDiv(clk, baud) & 255,
                dlh |-> (FreqDiv(clk, baud) \div 2^8) & 255,
                iel |-> 0]
    /\ pc' = "flush"
    /\ UNCHANGED <<txFifo, shifting, rxFifo, lostTx, emptyRead>>

\* the console calls putc, flush or getchar
Call ==
    /\ pc = "idle"
    /\ \E op \in {"putc", "flush", "getchar"} : pc' = op
    /\ UNCHANGED <<txFifo, shifting, rxFifo, regs, lostTx, emptyRead>>

\* hi16xx_uart_flush: while (!(USR & UART_USR_TFE_BIT)); return.  A loop
\* iteration whose test fails changes nothing.
Flush ==
    /\ pc = "flush"
    /\ IF TxTest
       THEN /\ pc' = "idle"
            /\ UNCHANGED <<txFifo, shifting, rxFifo, regs, lostTx, emptyRead>>
       ELSE UNCHANGED vars

\* mutant: putc without the wait loop
PutcNoWait ==
    /\ pc = "putc"
    /\ txFifo' = IF txFifo < Depth THEN txFifo + 1 ELSE txFifo
    /\ lostTx' = (lostTx \/ txFifo = Depth)
    /\ pc' = "idle"
    /\ UNCHANGED <<shifting, rxFifo, regs, emptyRead>>

\* hi16xx_uart_putc: the same wait, then write32(ch & 0xFF, UART_THR);
\* a full FIFO drops the character
Putc ==
    /\ pc = "putc"
    /\ IF TxTest
       THEN /\ txFifo' = IF txFifo < Depth THEN txFifo + 1 ELSE txFifo
            /\ lostTx' = (lostTx \/ txFifo = Depth)
            /\ pc' = "idle"
            /\ UNCHANGED <<shifting, rxFifo, regs, emptyRead>>
       ELSE UNCHANGED vars

\* hi16xx_uart_getchar: while (!have_rx_data()); read32(UART_RBR)
Getchar ==
    /\ pc = "getchar"
    /\ IF RxTest
       THEN /\ rxFifo' = IF rxFifo > 0 THEN rxFifo - 1 ELSE 0
            /\ emptyRead' = (emptyRead \/ rxFifo = 0)
            /\ pc' = "idle"
            /\ UNCHANGED <<txFifo, shifting, regs, lostTx>>
       ELSE UNCHANGED vars

-----------------------------------------------------------------------------
(* The UART.                                                             *)

HwTxStart ==
    /\ txFifo > 0 /\ ~shifting
    /\ txFifo' = txFifo - 1
    /\ shifting' = TRUE
    /\ UNCHANGED <<rxFifo, regs, pc, lostTx, emptyRead>>

HwTxDone ==
    /\ shifting
    /\ shifting' = FALSE
    /\ UNCHANGED <<txFifo, rxFifo, regs, pc, lostTx, emptyRead>>

HwRx ==
    /\ rxFifo < Depth
    /\ rxFifo' = rxFifo + 1
    /\ UNCHANGED <<txFifo, shifting, regs, pc, lostTx, emptyRead>>

-----------------------------------------------------------------------------

Next ==
    \/ \E clk \in Clks, baud \in Bauds : UartInit(clk, baud)
    \/ Call \/ Flush \/ Putc \/ Getchar
    \/ HwTxStart \/ HwTxDone \/ HwRx

\* Boot calls init; the caller's busy-wait loops run on; the transmitter
\* drains the FIFO.
\* Characters arrive only when the other end sends, so HwRx is not fair.
Fairness ==
    /\ WF_vars(\E clk \in Clks, baud \in Bauds : UartInit(clk, baud))
    /\ WF_vars(Flush) /\ WF_vars(Putc) /\ WF_vars(Getchar)
    /\ WF_vars(HwTxStart) /\ WF_vars(HwTxDone)

FairSpec == Init /\ [][Next]_vars /\ Fairness

-----------------------------------------------------------------------------
(* Properties.                                                           *)

TypeOK ==
    /\ txFifo \in 0..Depth /\ rxFifo \in 0..Depth
    /\ shifting \in BOOLEAN /\ lostTx \in BOOLEAN /\ emptyRead \in BOOLEAN
    /\ regs.dll \in 0..255 /\ regs.dlh \in 0..255
    /\ pc \in {"init", "idle", "flush", "putc", "getchar"}

\* putc writes UART_THR only when the TX FIFO has room: no console
\* character is dropped by the transmitter.
NoTxOverflow == ~lostTx

\* init, flush and putc return: their busy-wait on UART_USR ends once
\* the transmitter drains the FIFO.
UartCallsReturn ==
    \A l \in {"init", "flush", "putc"} : pc = l ~> pc = "idle"

\* hi16xx_uart_flush waits on UART_USR_TFE, "Transmit FIFO empty": it
\* returns only when the TX FIFO is empty.
FlushDrains == [][Flush => txFifo = 0]_vars

\* hi16xx_uart_getchar waits for have_rx_data, "Receive FIFO not empty":
\* it reads UART_RBR only when a character was received.
GetcharReadsData == ~emptyRead

=============================================================================
