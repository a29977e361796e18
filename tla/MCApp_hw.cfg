SPECIFICATION FairSpec
CONSTANTS
    Thread = {"sysworkq", "shell"}
    POWER_ON_TICKS = 1
    POWER_OFF_TICKS = 2
    PULSE_ON_TICKS = 1
    ALARM_ON_TICKS = 1
    ALARM_OFF_TICKS = 1
    ALARM_DURATION_TICKS = 3
    TICK_WORD = 4
    WORK_EVENTS = {"BUTTON_PRESSED", "SENSOR_READING", "TEMP_ALERT"}
    SLEEP_EVENTS = {"BUTTON_PRESSED", "SENSOR_READING", "TEMP_ALERT"}
    SHELL_LEDS = {}
    PREEMPTIVE = TRUE
    OTHER_CTL_USER = FALSE
INVARIANTS
    SerialInv
    AppInv
    Agreement
    NestedPubNeverWaits
    ActiveBlinks
PROPERTIES
    SerialLedSpec
    EventChannelIsReleased
    ActiveKeepsBlinking
    TimedModesEnd
    ImplementsToggle
