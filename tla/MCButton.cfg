SPECIFICATION Spec
CONSTANTS
    BOUNCE_MS = 4
    HOLD_MS = 12
    GAP_MS = 14
    DEBOUNCE_DELAY_MS = 10
    LATE_MS = 2
INVARIANT
    ButtonInv
PROPERTY
    PublishesOncePerPress
