SPECIFICATION Spec
CONSTANTS
    BOUNCE_MS = 9
    HOLD_MS = 15
    GAP_MS = 15
    DEBOUNCE_MS = 10
    LATE_MS = 4
INVARIANT
    SimButtonInv
PROPERTY
    PublishesOncePerPress
