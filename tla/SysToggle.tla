----------------------------- MODULE SysToggle -----------------------------
(* What the application promises its user: a button press toggles the      *)
(* system between SLEEP and ACTIVE, and LED0 has caught up with one toggle *)
(* before the next is accepted.                                            *)

VARIABLES
    sys,     \* system state
    signal   \* LED0 is in its ACTIVE mode

toggle_vars == <<sys, signal>>

Current == signal = (sys = "ACTIVE")

Init == sys = "SLEEP" /\ signal = FALSE

Press == /\ Current
         /\ sys' = IF sys = "SLEEP" THEN "ACTIVE" ELSE "SLEEP"
         /\ UNCHANGED signal

Follow == /\ ~Current
          /\ signal' = (sys = "ACTIVE")
          /\ UNCHANGED sys

Next == Press \/ Follow

Safety == Init /\ [][Next]_toggle_vars

Spec == Safety /\ WF_toggle_vars(Follow)
=============================================================================
