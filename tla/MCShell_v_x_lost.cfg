SPECIFICATION FairShellSpec
CONSTANTS
    MAX_CMD_CNT = 1
    NAMES <- MCNames
    BEHIND <- MCBehind
    SHELLS = {"uart", "other"}
    UART_SHELL = "uart"
    MAX_CHUNK = 1
    RX_FIFO = 2
PROPERTY
    XReturnsShell
