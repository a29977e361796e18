------------------------------- MODULE Button ------------------------------
(***************************************************************************)
(* The application's button, app/src/components/button/button.c.  The edge *)
(* interrupt starts a delayed work item at the first edge and ignores      *)
(* further edges for DEBOUNCE_DELAY_MS; the work item samples the level    *)
(* once and publishes if the key is down.  On an emulated GPIO the shell   *)
(* command `mock_button` of button_mock.c takes the place of the key: one  *)
(* work item sets the input and leaves the release to another.             *)
(***************************************************************************)
EXTENDS Contact

CONSTANTS
    DEBOUNCE_DELAY_MS,
    LATE_MS            \* bound on how late the work queue runs a due item

ASSUME ButtonAssumption == DEBOUNCE_DELAY_MS \in Nat \ {0} /\ LATE_MS \in Nat

VARIABLES
    input,         \* what moves sw0: a real key or, on native_sim, button_mock
    since,         \* now - last_press_time, up to DEBOUNCE_DELAY_MS + 1
    delay,         \* ms until send_event_work runs at the latest, or Unscheduled
    press_work,    \* the same for button_press_work
    release_work,  \* the same for button_release_work
    events         \* events published since the key was last pressed

mock_vars == <<input, press_work, release_work>>
vars == <<contact_vars, since, delay, events, mock_vars>>

SAMPLE_MS    == DEBOUNCE_DELAY_MS \div 2
HOLD_MOCK_MS == 100
Unscheduled  == HOLD_MOCK_MS + SAMPLE_MS + LATE_MS + 1
EVENT_BOUND  == 2    \* one more than a press may publish

TypeOK ==
    /\ ContactTypeOK
    /\ input \in {"key", "mock"}
    /\ since \in 0 .. DEBOUNCE_DELAY_MS + 1
    /\ delay \in 0 .. Unscheduled
    /\ press_work \in 0 .. Unscheduled
    /\ release_work \in 0 .. Unscheduled
    /\ events \in 0 .. EVENT_BOUND

(* last_press_time starts as 0, the time of the boot, which is over for    *)
(* more than the debounce time when somebody has typed `mock_button`.      *)
Init ==
    /\ ContactInit
    /\ \/ input = "key" /\ since = 0
       \/ input = "mock" /\ since = DEBOUNCE_DELAY_MS + 1
    /\ delay = Unscheduled
    /\ press_work = Unscheduled
    /\ release_work = Unscheduled
    /\ events = 0

Due(work)  == work <= LATE_MS
Left(work) == IF work = Unscheduled THEN work ELSE work - 1

(* Mutant: every edge postpones the sample.                                *)
AcceptsEveryEdge == TRUE

AcceptsEdge == since > DEBOUNCE_DELAY_MS

(* button_pressed(), in the GPIO interrupt or in the caller of             *)
(* gpio_emul_input_set().                                                  *)
ButtonPressed ==
    IF EdgeToActive /\ AcceptsEdge
    THEN since' = 0 /\ delay' = SAMPLE_MS + LATE_MS
    ELSE UNCHANGED <<since, delay>>

Key ==
    /\ input = "key"
    /\ ContactMoves
    /\ ButtonPressed
    /\ events' = IF Close THEN 0 ELSE events
    /\ UNCHANGED mock_vars

(* cmd_mock_button().                                                      *)
CmdMockButton ==
    /\ input = "mock"
    /\ press_work' = LATE_MS
    /\ UNCHANGED <<contact_vars, since, delay, events, input, release_work>>

(* button_press_work_handler().  While the key is down it makes no edge    *)
(* and only postpones the release.                                         *)
ButtonPressWork ==
    /\ Due(press_work)
    /\ IF phase = "up" THEN Enter("down", TRUE) ELSE UNCHANGED contact_vars
    /\ ButtonPressed
    /\ events' = IF phase = "up" THEN 0 ELSE events
    /\ press_work' = Unscheduled
    /\ release_work' = HOLD_MOCK_MS + LATE_MS
    /\ UNCHANGED input

(* button_release_work_handler().                                          *)
ButtonReleaseWork ==
    /\ Due(release_work)
    /\ Enter("up", FALSE)
    /\ release_work' = Unscheduled
    /\ UNCHANGED <<since, delay, events, input, press_work>>

(* Mutant: the level is not sampled.                                       *)
SamplesDownAlways == TRUE

SamplesDown == level

(* send_event_work_handler().                                              *)
SendEventWork ==
    /\ Due(delay)
    /\ delay' = Unscheduled
    /\ events' = IF SamplesDown /\ events < EVENT_BOUND THEN events + 1 ELSE events
    /\ UNCHANGED <<contact_vars, since, mock_vars>>

Tick ==
    /\ 0 \notin {delay, press_work, release_work}
    /\ ContactAges
    /\ since' = IF since <= DEBOUNCE_DELAY_MS THEN since + 1 ELSE since
    /\ delay' = Left(delay)
    /\ press_work' = Left(press_work)
    /\ release_work' = Left(release_work)
    /\ UNCHANGED <<events, input>>

Next == \/ Key \/ SendEventWork \/ Tick
        \/ CmdMockButton \/ ButtonPressWork \/ ButtonReleaseWork

Spec == Init /\ [][Next]_vars

----------------------------------------------------------------------------
(* The timing that the two delays cope with: bouncing is over when the     *)
(* level is sampled, and a press outlasts what is left of both delays.     *)
SampleTime == SAMPLE_MS + LATE_MS

Debounced ==
    /\ BOUNCE_MS < SAMPLE_MS
    /\ SampleTime < HOLD_MS
    /\ SampleTime < GAP_MS
    /\ DEBOUNCE_DELAY_MS < GAP_MS
    /\ SampleTime < HOLD_MOCK_MS
    /\ DEBOUNCE_DELAY_MS < HOLD_MOCK_MS

Pending        == delay # Unscheduled
ReleasePending == release_work # Unscheduled

(* A pending sample falls due only after the bouncing it was asked for in, *)
(* and before the next one.                                                *)
SampleAfterBouncing ==
    /\ Pending => delay <= SampleTime
    /\ phase \in {"closing", "opening"} /\ Pending => SampleTime <= delay + age
    /\ phase = "up" /\ Pending => delay + age <= SampleTime

(* The first edge of a press is the one that is accepted.                  *)
FirstEdgeCounts ==
    /\ phase = "closing" => since = age
    /\ phase = "up" => since >= age \/ since > DEBOUNCE_DELAY_MS

EventOfPress ==
    /\ phase = "closing" => events = 0 /\ Pending
    /\ phase = "down" =>
         /\ level
         /\ \/ events = 0 /\ Pending /\ delay + age <= SampleTime
            \/ events = 1 /\ ~Pending
    /\ phase = "opening" => events = 1
    /\ phase = "up" => ~level /\ events < EVENT_BOUND

(* The mocked key is released after its sample and only when the next edge *)
(* would be accepted.                                                      *)
MockedKey ==
    IF input = "mock"
    THEN /\ phase = IF ReleasePending THEN "down" ELSE "up"
         /\ phase = "up" => ~Pending /\ since > DEBOUNCE_DELAY_MS
         /\ phase = "down" => \/ since > DEBOUNCE_DELAY_MS
                              \/ HOLD_MOCK_MS + LATE_MS <= since + release_work
         /\ Pending => delay + HOLD_MOCK_MS <= release_work + SAMPLE_MS
    ELSE press_work = Unscheduled /\ ~ReleasePending

ButtonInv == TypeOK /\ SampleAfterBouncing /\ FirstEdgeCounts /\ EventOfPress /\ MockedKey

(* Every press publishes one event while the key is down: bounces of the   *)
(* closing and of the opening contact are neither lost with the press nor  *)
(* counted twice, and mock_button may be typed at any rate.                *)
Once == INSTANCE PressOnce WITH down <- Held
PublishesOncePerPress == Once!Spec
=============================================================================
