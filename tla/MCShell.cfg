SPECIFICATION FairShellSpec
CONSTANTS
    MAX_CMD_CNT = 2
    NAMES <- MCNames
    BEHIND <- MCBehind
    SHELLS = {"uart", "other"}
    UART_SHELL = "uart"
    MAX_CHUNK = 3
    RX_FIFO = 2
INVARIANTS
    TableInv
    BypassInv
    EscapeEndsBypass
    UartInv
PROPERTIES
    ImplementsCommandSet
    LastXReturnsShell
