----------------------------- MODULE SimButton -----------------------------
(***************************************************************************)
(* The button of the simulation track,                                     *)
(* samples/sim_test_track/src/modules/button/button.c.  Every edge         *)
(* postpones a delayed work item by DEBOUNCE_MS; the item samples the      *)
(* level and publishes if the key is down.  On an emulated GPIO the shell  *)
(* command `button emulate` takes the place of the key: it sets the input  *)
(* and leaves the release to a second work item.                           *)
(***************************************************************************)
EXTENDS Contact

CONSTANTS
    DEBOUNCE_MS,
    LATE_MS       \* bound on how late the work queue runs a due item

ASSUME SimButtonAssumption == DEBOUNCE_MS \in Nat \ {0} /\ LATE_MS \in Nat

VARIABLES
    input,         \* the build's sw0: a real key or, on native_sim, gpio_emul
    publish_work,  \* ms until publish_event runs at the latest, or Unscheduled
    release_work,  \* the same for release_emulated_button
    events         \* events published since the key was last pressed

vars == <<contact_vars, input, publish_work, release_work, events>>

HOLD_EMULATED_MS == DEBOUNCE_MS * 3
Unscheduled      == HOLD_EMULATED_MS + LATE_MS + 1
EVENT_BOUND      == 2    \* one more than a press may publish

TypeOK ==
    /\ ContactTypeOK
    /\ input \in {"key", "gpio_emul"}
    /\ publish_work \in 0 .. Unscheduled
    /\ release_work \in 0 .. Unscheduled
    /\ events \in 0 .. EVENT_BOUND

Init ==
    /\ ContactInit
    /\ input \in {"key", "gpio_emul"}
    /\ publish_work = Unscheduled
    /\ release_work = Unscheduled
    /\ events = 0

Due(work) == work <= LATE_MS
Left(work) == IF work = Unscheduled THEN work ELSE work - 1

(* Mutant: the delay of the other button, which samples half-way.          *)
PublishDelayHalf == DEBOUNCE_MS \div 2

PublishDelay == DEBOUNCE_MS

(* button_pressed(), in the GPIO interrupt or in the caller of             *)
(* gpio_emul_input_set().                                                  *)
ButtonPressed ==
    publish_work' = IF EdgeToActive THEN PublishDelay + LATE_MS ELSE publish_work

Key ==
    /\ input = "key"
    /\ ContactMoves
    /\ ButtonPressed
    /\ events' = IF Close THEN 0 ELSE events
    /\ UNCHANGED <<input, release_work>>

(* Mutant: the emulated key is held for one debounce time.                 *)
ReleaseDelayShort == DEBOUNCE_MS

ReleaseDelay == HOLD_EMULATED_MS

(* cmd_button_emulate().  A second command while the key is down makes no  *)
(* edge and only postpones the release.                                    *)
CmdButtonEmulate ==
    /\ input = "gpio_emul"
    /\ IF phase = "up" THEN Enter("down", TRUE) ELSE UNCHANGED contact_vars
    /\ ButtonPressed
    /\ release_work' = ReleaseDelay + LATE_MS
    /\ events' = IF phase = "up" THEN 0 ELSE events
    /\ UNCHANGED input

ReleaseEmulatedButton ==
    /\ Due(release_work)
    /\ Enter("up", FALSE)
    /\ release_work' = Unscheduled
    /\ UNCHANGED <<input, publish_work, events>>

(* Mutant: the level is not sampled.                                       *)
SamplesDownAlways == TRUE

SamplesDown == level

(* publish_event().                                                        *)
PublishEvent ==
    /\ Due(publish_work)
    /\ publish_work' = Unscheduled
    /\ events' = IF SamplesDown /\ events < EVENT_BOUND THEN events + 1 ELSE events
    /\ UNCHANGED <<contact_vars, input, release_work>>

Tick ==
    /\ 0 \notin {publish_work, release_work}
    /\ ContactAges
    /\ publish_work' = Left(publish_work)
    /\ release_work' = Left(release_work)
    /\ UNCHANGED <<input, events>>

Next == Key \/ CmdButtonEmulate \/ ReleaseEmulatedButton \/ PublishEvent \/ Tick

Spec == Init /\ [][Next]_vars

----------------------------------------------------------------------------
(* The timing that the debounce time copes with.                           *)
Debounced ==
    /\ BOUNCE_MS < DEBOUNCE_MS
    /\ DEBOUNCE_MS + LATE_MS < HOLD_MS
    /\ DEBOUNCE_MS + LATE_MS < GAP_MS
    /\ DEBOUNCE_MS + LATE_MS < HOLD_EMULATED_MS

(* A pending sample falls due only after the bouncing it was asked for in, *)
(* and before the next one: this is why the sampled level is the settled   *)
(* level.                                                                  *)
SampleTime == DEBOUNCE_MS + LATE_MS

PublishPending == publish_work # Unscheduled
ReleasePending == release_work # Unscheduled

SampleAfterBouncing ==
    /\ phase \in {"closing", "opening"} /\ PublishPending
         => publish_work <= SampleTime /\ SampleTime <= publish_work + age
    /\ phase = "up" /\ PublishPending => publish_work + age <= SampleTime

EventOfPress ==
    /\ phase = "closing" => events = 0 /\ PublishPending
    /\ phase = "down" =>
         /\ level
         /\ \/ events = 0 /\ PublishPending /\ publish_work + age <= SampleTime
            \/ events = 1 /\ ~PublishPending
    /\ phase = "opening" => events = 1
    /\ phase = "up" => ~level /\ events < EVENT_BOUND

(* The emulated key bounces never, and is released after its sample.       *)
EmulatedKey ==
    IF input = "gpio_emul"
    THEN /\ phase = IF ReleasePending THEN "down" ELSE "up"
         /\ phase = "up" => ~PublishPending
         /\ PublishPending => publish_work + 2 * DEBOUNCE_MS <= release_work
    ELSE ~ReleasePending

SimButtonInv == TypeOK /\ SampleAfterBouncing /\ EventOfPress /\ EmulatedKey

(* Every press publishes one event while the key is down, for a contact    *)
(* that bounces for almost the whole debounce time, and for the shell's    *)
(* emulated press, however often the command is repeated meanwhile.        *)
Once == INSTANCE PressOnce WITH down <- Held
PublishesOncePerPress == Once!Spec
=============================================================================
