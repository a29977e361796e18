----------------------------- MODULE PressOnce -----------------------------
(* What a debounced button promises: every press of the key yields exactly *)
(* one event, while the key is down.                                       *)
EXTENDS Naturals

VARIABLES
    down,    \* the user holds the key down
    events   \* events published since the key was last pressed

press_vars == <<down, events>>

Init == down = FALSE /\ events = 0

Press == ~down /\ down' = TRUE /\ events' = 0

Event == down /\ events = 0 /\ events' = 1 /\ UNCHANGED down

Release == down /\ events = 1 /\ down' = FALSE /\ UNCHANGED events

Next == Press \/ Event \/ Release

Spec == Init /\ [][Next]_press_vars
=============================================================================
