SPECIFICATION FairSpec
CONSTANTS
    POOL_SIZE = 16
    BOOTS = {{"sensor", "led"}}
    MAX_PRESSES = 3
    MAX_COMMANDS = 2
    USERS = {"patient", "impatient"}
CHECK_DEADLOCK FALSE
INVARIANTS
    SettledIsDark
PROPERTIES
    LedGoesDark
    EveryPressIsRead
