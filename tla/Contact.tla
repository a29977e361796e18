------------------------------ MODULE Contact ------------------------------
(***************************************************************************)
(* The key behind sw0 and a millisecond clock.  A contact that closes or   *)
(* opens bounces: its level may flip any number of times before it settles *)
(* within BOUNCE_MS.  The user holds the key at least HOLD_MS and leaves   *)
(* at least GAP_MS between two presses.                                    *)
(***************************************************************************)
EXTENDS Naturals

CONSTANTS BOUNCE_MS, HOLD_MS, GAP_MS

ASSUME ContactAssumption == {BOUNCE_MS, HOLD_MS, GAP_MS} \subseteq Nat

VARIABLES
    phase,  \* "up", "closing", "down" or "opening"
    level,  \* gpio_pin_get(): the contact is closed
    age     \* ms since the phase began, up to the bound that matters

contact_vars == <<phase, level, age>>

AgeBound(p) == IF p = "up" THEN GAP_MS ELSE IF p = "down" THEN HOLD_MS ELSE BOUNCE_MS

ContactTypeOK ==
    /\ phase \in {"up", "closing", "down", "opening"}
    /\ level \in BOOLEAN
    /\ age \in 0 .. AgeBound(phase)

ContactInit == phase = "up" /\ level = FALSE /\ age = 0

Enter(p, l) == phase' = p /\ level' = l /\ age' = 0

Close  == phase = "up" /\ age = GAP_MS /\ Enter("closing", TRUE)
Open   == phase = "down" /\ age = HOLD_MS /\ Enter("opening", FALSE)
Bounce == phase \in {"closing", "opening"} /\ level' = ~level /\ UNCHANGED <<phase, age>>
Settle == \/ phase = "closing" /\ level /\ Enter("down", TRUE)
          \/ phase = "opening" /\ ~level /\ Enter("up", FALSE)

ContactMoves == Close \/ Open \/ Bounce \/ Settle

(* A millisecond passes; a bouncing contact must settle in time.           *)
ContactAges ==
    /\ phase \in {"closing", "opening"} => age < BOUNCE_MS
    /\ age' = IF age < AgeBound(phase) THEN age + 1 ELSE age
    /\ UNCHANGED <<phase, level>>

(* The edge that the GPIO interrupt is configured for.                     *)
EdgeToActive == ~level /\ level'

Held == phase \in {"closing", "down"}
=============================================================================
