SPECIFICATION Spec
CONSTANTS
    Thread = {"sysworkq", "shell"}
    POWER_ON_TICKS = 1
    POWER_OFF_TICKS = 2
    PULSE_ON_TICKS = 1
    ALARM_ON_TICKS = 1
    ALARM_OFF_TICKS = 1
    ALARM_DURATION_TICKS = 3
    TICK_WORD = 4
    WORK_EVENTS = {"BUTTON_PRESSED"}
    SLEEP_EVENTS = {"BUTTON_PRESSED"}
    SHELL_LEDS = {1}
    PREEMPTIVE = TRUE
    OTHER_CTL_USER = FALSE
INVARIANT
    ActiveBlinks
