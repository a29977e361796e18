--------------------------------- MODULE Shell --------------------------------
(***************************************************************************)
(* The commands of the shell sample that keep state, on several instances  *)
(* of the shell.  An instance runs commands unless it is bypassed or its   *)
(* UART is released.  Nobody types behind shell_uart_release before the    *)
(* loopback runs.                                                          *)
(***************************************************************************)
EXTENDS DynamicCmd, Bypass, UartLoopback

CONSTANT UART_SHELL  \* the instance on the UART

ASSUME ShellAssumption ==
    /\ UART_SHELL \in SHELLS
    /\ MAX_CHUNK \in Nat \ {0}
    /\ RX_FIFO \in Nat \ {0}

shell_vars == <<vars, bypass_vars, uart_vars>>

ShellInit == Init /\ BypassInit /\ UartInit

RunsCommands(sh) == sh \notin bypassed /\ (sh = UART_SHELL => owner = "shell")

(* shell_uart_release on another instance is refused.                      *)
UartReleaseStep ==
    /\ RunsCommands(UART_SHELL)
    /\ CmdUartRelease
    /\ UNCHANGED <<vars, bypass_vars>>

DynamicCmdStep ==
    /\ \E sh \in SHELLS : RunsCommands(sh)
    /\ Next
    /\ UNCHANGED <<bypass_vars, uart_vars>>

BypassStep ==
    /\ \E sh \in SHELLS :
        \/ RunsCommands(sh) /\ CmdBypass(sh)
        \/ \E data \in Chunk : BypassCb(sh, data)
    /\ UNCHANGED <<vars, uart_vars>>

HandlerStep == UartHandler /\ UNCHANGED <<vars, bypass_vars>>

TypeStep == (\E byte \in {"x", "other"} : Type(byte)) /\ UNCHANGED <<vars, bypass_vars>>

ShellNext ==
    \/ DynamicCmdStep \/ BypassStep
    \/ UartReleaseStep \/ TypeStep \/ HandlerStep

ShellSpec == ShellInit /\ [][ShellNext]_shell_vars

(* Interrupts, the timer and the work queue are served; nobody has to type *)
(* anything.                                                               *)
FairShellSpec ==
    /\ ShellSpec
    /\ WF_uart_vars(ShellUninitCb)
    /\ WF_uart_vars(TxDone)
    /\ WF_uart_vars(DirectUartCallback)
    /\ WF_uart_vars(UartPollTimeout)
    /\ WF_uart_vars(ShellInitFromWork)
============================================================================
