SPECIFICATION Spec
CONSTANTS
    POOL_SIZE = 4
    BOOTS = {{"sensor", "led"}, {"sensor"}, {"led"}, {}}
    MAX_PRESSES = 4
    MAX_COMMANDS = 2
    USERS = {"patient", "impatient"}
CHECK_DEADLOCK FALSE
INVARIANTS
    SimTrackInv
    CountedPressIsRead
    CountersAccountForReads
    LedShowsRead
PROPERTIES
    LitOnlyByLostResult
