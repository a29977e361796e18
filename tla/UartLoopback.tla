------------------------------ MODULE UartLoopback -----------------------------
(***************************************************************************)
(* The command "shell_uart_release" of the shell sample, uart_reinit.c: it *)
(* ends the shell on the UART, runs a loopback there, and brings the shell *)
(* back when 'x' is pressed.  The loopback is an interrupt handler, or a   *)
(* timer that polls, as the shell's own driver is configured.  A handler   *)
(* is one step; bytes arrive and leave between two of them.                *)
(***************************************************************************)
EXTENDS Integers, SequencesExt

CONSTANT RX_FIFO  \* bound: bytes waiting in the UART

VARIABLES
    irq_driven,  \* CONFIG_SHELL_BACKEND_SERIAL_INTERRUPT_DRIVEN
    owner,       \* of the UART: "shell", "uninit" (ending) or "loopback"
    work,        \* submissions of shell_init_work since it ran last
    timer,       \* uart_poll_timer runs
    rx_fifo,     \* bytes received and not read
    rx_irq, tx_irq,  \* interrupts that the loopback has enabled
    sending,     \* the UART is sending a byte
    buf, tx_busy,    \* statics of direct_uart_callback()
    typed        \* history: "none", the last byte was "x", or "after_x"

uart_irq_vars == <<rx_irq, tx_irq, sending, buf, tx_busy>>
uart_vars == <<irq_driven, owner, work, timer, rx_fifo, uart_irq_vars, typed>>

UartInit ==
    /\ irq_driven \in BOOLEAN
    /\ owner = "shell"
    /\ work = 0
    /\ rx_fifo = <<>>
    /\ buf = "other"
    /\ typed = "none"
    /\ timer = FALSE
    /\ rx_irq = FALSE /\ tx_irq = FALSE
    /\ sending = FALSE /\ tx_busy = FALSE

----------------------------------------------------------------------------
CmdUartRelease ==
    /\ owner = "shell"
    /\ owner' = "uninit"
    /\ UNCHANGED <<irq_driven, work, timer, rx_fifo, uart_irq_vars, typed>>

ShellUninitCb ==
    /\ owner = "uninit"
    /\ owner' = "loopback"
    /\ IF irq_driven
       THEN rx_irq' = TRUE /\ UNCHANGED timer
       ELSE timer' = TRUE /\ UNCHANGED rx_irq
    /\ UNCHANGED <<irq_driven, work, rx_fifo, tx_irq, sending, buf, tx_busy, typed>>

(* External: a byte arrives.                                               *)
Type(byte) ==
    /\ owner = "loopback"
    /\ Len(rx_fifo) < RX_FIFO
    /\ rx_fifo' = Append(rx_fifo, byte)
    /\ typed' = CASE byte = "x"     -> "x"
                  [] typed = "none" -> "none"
                  [] OTHER          -> "after_x"
    /\ UNCHANGED <<irq_driven, owner, work, timer, uart_irq_vars>>

(* External: a byte is on the line.                                        *)
TxDone ==
    /\ sending
    /\ sending' = FALSE
    /\ UNCHANGED <<irq_driven, owner, work, timer, rx_fifo, rx_irq, tx_irq, buf, tx_busy, typed>>

(* k_work_init() and k_work_submit() of the static item.                   *)
ShellReinitTrigger == work' = work + 1

(* Every byte in the FIFO is read into the one of buf.                     *)
Received == IF rx_fifo = <<>> THEN buf ELSE Last(rx_fifo)
TxEnabled == tx_irq \/ (rx_fifo # <<>> /\ ~tx_busy)

(* The UART may take a moment to report that it can send.                  *)
TxNotReady ==
    /\ sending \/ ~tx_irq
    /\ tx_irq' = TxEnabled
    /\ UNCHANGED <<work, rx_irq, sending, tx_busy>>

FillFifo ==
    /\ TxEnabled /\ ~sending /\ ~tx_busy
    /\ tx_irq' = TRUE
    /\ sending' = TRUE
    /\ tx_busy' = TRUE
    /\ UNCHANGED <<work, rx_irq>>

(* Mutants: reception stays enabled; transmission is not marked as over.   *)
RxAfterXOn == rx_irq
TxBusyAfterX == Received = "x"

RxAfterX == FALSE

TxBusyAfter == FALSE

ByteSent ==
    /\ TxEnabled /\ ~sending /\ tx_busy
    /\ tx_irq' = FALSE
    /\ tx_busy' = TxBusyAfter
    /\ IF Received = "x"
       THEN rx_irq' = RxAfterX /\ ShellReinitTrigger
       ELSE UNCHANGED <<rx_irq, work>>
    /\ UNCHANGED sending

DirectUartCallback ==
    /\ owner = "loopback"
    /\ (rx_irq /\ rx_fifo # <<>>) \/ (tx_irq /\ ~sending)
    /\ rx_fifo' = <<>>
    /\ buf' = Received
    /\ TxNotReady \/ FillFifo \/ ByteSent
    /\ UNCHANGED <<irq_driven, owner, timer, typed>>

(* Echoes are left out.  Only the first k_timer_stop() finds the timer     *)
(* running and calls uart_poll_timer_stopped().                            *)
UartPollTimeout ==
    /\ timer
    /\ rx_fifo # <<>>
    /\ rx_fifo' = <<>>
    /\ IF Contains(rx_fifo, "x")
       THEN timer' = FALSE /\ ShellReinitTrigger
       ELSE UNCHANGED <<timer, work>>
    /\ UNCHANGED <<irq_driven, owner, uart_irq_vars, typed>>

(* The system work queue; what is left in the FIFO is the shell's.         *)
ShellInitFromWork ==
    /\ work > 0
    /\ work' = 0
    /\ owner' = "shell"
    /\ rx_fifo' = <<>>
    /\ typed' = "none"
    /\ UNCHANGED <<irq_driven, timer, uart_irq_vars>>

UartHandler ==
    \/ ShellUninitCb \/ TxDone \/ DirectUartCallback \/ UartPollTimeout
    \/ ShellInitFromWork

----------------------------------------------------------------------------
(* The loopback's sources of events are off and its statics at rest.       *)
Quiet == ~timer /\ ~rx_irq /\ ~tx_irq /\ ~sending /\ ~tx_busy

(* The static work item is never initialised while it is queued, and the   *)
(* UART has one owner: once the return of the shell is asked for, and      *)
(* until the next release, no handler of the loopback can run, and the     *)
(* next loopback starts with clean statics.  Only the configured kind of   *)
(* loopback ever runs.                                                     *)
UartInv ==
    /\ irq_driven \in BOOLEAN /\ timer \in BOOLEAN /\ sending \in BOOLEAN
    /\ rx_irq \in BOOLEAN /\ tx_irq \in BOOLEAN /\ tx_busy \in BOOLEAN
    /\ owner \in {"shell", "uninit", "loopback"}
    /\ timer => ~irq_driven
    /\ ~irq_driven => ~rx_irq /\ ~tx_irq /\ ~sending /\ ~tx_busy
    /\ work \in {0, 1}
    /\ work = 1 => owner = "loopback"
    /\ (owner # "loopback" \/ work = 1) => Quiet

(* When 'x' is the last byte typed, the shell comes back, whatever was in  *)
(* transmission or in the FIFO when it came.  A loopback that polls needs  *)
(* only that 'x' was typed.                                                *)
LastXReturnsShell ==
    /\ typed = "x" ~> typed # "x"
    /\ (typed # "none" /\ ~irq_driven) ~> typed = "none"

(* uart_reinit.c:120: "Shell instance is reinitialized when 'x' is         *)
(* pressed", whatever is typed next.                                       *)
XReturnsShell == typed # "none" ~> typed = "none"
============================================================================
