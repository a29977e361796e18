-------------------------- MODULE SimButtonProofs --------------------------
(***************************************************************************)
(* The debounce of samples/sim_test_track/src/modules/button/button.c, for *)
(* every bounce, hold and debounce time that satisfies Debounced, with a   *)
(* real key and with the emulated one.                                     *)
(***************************************************************************)
EXTENDS SimButton, TLAPS

LEMMA Times ==
    /\ BOUNCE_MS \in Nat /\ HOLD_MS \in Nat /\ GAP_MS \in Nat
    /\ DEBOUNCE_MS \in Nat \ {0} /\ LATE_MS \in Nat
  BY ContactAssumption, SimButtonAssumption

LEMMA InitSimButton == ASSUME Init PROVE SimButtonInv
<1> USE Times DEF Init, ContactInit, PublishPending, ReleasePending, HOLD_EMULATED_MS, Unscheduled, EVENT_BOUND
<1>0. level \in BOOLEAN /\ phase = "up" /\ age = 0  OBVIOUS
<1>1. ContactTypeOK  BY <1>0 DEF ContactTypeOK, AgeBound
<1>2. TypeOK  BY <1>1 DEF TypeOK
<1>3. SampleAfterBouncing  BY DEF SampleAfterBouncing
<1>4. EventOfPress  BY DEF EventOfPress
<1>5. EmulatedKey  BY DEF EmulatedKey
<1> QED BY <1>2, <1>3, <1>4, <1>5 DEF SimButtonInv

(* One step per action.  Neither work item can be due while the contact    *)
(* bounces, and the emulated key outlasts its sample.                      *)
LEMMA NextSimButton ==
    ASSUME Debounced, SimButtonInv, [Next]_vars
    PROVE  SimButtonInv'
<1> USE Times DEF SimButtonInv, TypeOK, ContactTypeOK, AgeBound, EVENT_BOUND, Debounced,
        SampleAfterBouncing, EventOfPress, EmulatedKey, PublishPending, ReleasePending,
        SampleTime, HOLD_EMULATED_MS, Unscheduled
<1>0. input' = input
  BY DEF Next, Key, CmdButtonEmulate, ReleaseEmulatedButton, PublishEvent, Tick, vars
<1> USE <1>0
<1>1. CASE Key /\ Close
  <2>1. publish_work' = DEBOUNCE_MS + LATE_MS /\ release_work' = release_work /\ input = "key"
    BY <1>1 DEF Key, Close, Enter, EdgeToActive, ButtonPressed, PublishDelay
  <2> QED BY <1>1, <2>1 DEF Key, Close, Enter
<1>2. CASE Key /\ Open
  <2>1. level' \in BOOLEAN /\ ~level'  BY <1>2 DEF Open, Enter
  <2>2. UNCHANGED <<publish_work, release_work, events>> /\ input = "key"
    BY <1>2, <2>1 DEF Key, Open, Close, Enter, EdgeToActive, ButtonPressed
  <2> QED BY <1>2, <2>1, <2>2 DEF Open, Enter
<1>3. CASE Key /\ Bounce
  <2>1. publish_work' \in {DEBOUNCE_MS + LATE_MS, publish_work}
    BY <1>3 DEF Key, EdgeToActive, ButtonPressed, PublishDelay
  <2>2. UNCHANGED <<release_work, events>> /\ input = "key"
    BY <1>3 DEF Key, Bounce, Close
  <2>3. level' \in BOOLEAN  BY <1>3 DEF Bounce
  <2>4. /\ phase' = phase /\ phase \in {"closing", "opening"}
        /\ age' = age /\ age \in 0 .. BOUNCE_MS
    BY <1>3 DEF Bounce
  <2>5. TypeOK'  BY <2>1, <2>2, <2>3, <2>4
  <2>6. SampleAfterBouncing'
    <3>1. CASE publish_work' = DEBOUNCE_MS + LATE_MS  BY <3>1, <2>4
    <3>2. CASE publish_work' = publish_work  BY <3>2, <2>4
    <3> QED BY <3>1, <3>2, <2>1
  <2>7. EventOfPress'
    <3>1. CASE publish_work' = DEBOUNCE_MS + LATE_MS  BY <3>1, <2>2, <2>4
    <3>2. CASE publish_work' = publish_work  BY <3>2, <2>2, <2>4
    <3> QED BY <3>1, <3>2, <2>1
  <2>8. EmulatedKey'  BY <2>2
  <2> QED BY <2>5, <2>6, <2>7, <2>8
<1>4. CASE Key /\ Settle
  <2>1. UNCHANGED <<publish_work, release_work, events>> /\ input = "key"
    BY <1>4 DEF Key, Settle, Close, Enter, EdgeToActive, ButtonPressed
  <2>2. CASE phase = "closing"
    BY <1>4, <2>1, <2>2 DEF Settle, Enter
  <2>3. CASE phase = "opening"
    <3>1. level' \in BOOLEAN /\ ~level'  BY <1>4, <2>3 DEF Settle, Enter
    <3> QED BY <1>4, <2>1, <2>3, <3>1 DEF Settle, Enter
  <2> QED BY <1>4, <2>2, <2>3 DEF Settle
<1>5. CASE CmdButtonEmulate
  <2>1. release_work' = DEBOUNCE_MS * 3 + LATE_MS /\ input = "gpio_emul" /\ level' \in BOOLEAN
    BY <1>5 DEF CmdButtonEmulate, Enter, ReleaseDelay, contact_vars
  <2>2. CASE phase = "up"
    <3>1. /\ publish_work' = DEBOUNCE_MS + LATE_MS
          /\ phase' = "down" /\ level' /\ age' = 0 /\ events' = 0
      BY <1>5, <2>2 DEF CmdButtonEmulate, Enter, EdgeToActive, ButtonPressed, PublishDelay
    <3> QED BY <2>1, <2>2, <3>1
  <2>3. CASE phase = "down"
    <3>1. UNCHANGED <<contact_vars, publish_work, events>>
      BY <1>5, <2>3 DEF CmdButtonEmulate, EdgeToActive, ButtonPressed, contact_vars
    <3> QED BY <2>1, <2>3, <3>1 DEF contact_vars
  <2> QED BY <2>1, <2>2, <2>3
<1>6. CASE ReleaseEmulatedButton
  <2>1. level' \in BOOLEAN /\ ~level'  BY <1>6 DEF ReleaseEmulatedButton, Enter
  <2>2. /\ phase = "down" /\ phase' = "up" /\ age' = 0 /\ ~ReleasePending'
        /\ release_work <= LATE_MS /\ UNCHANGED <<publish_work, events>>
    BY <1>6 DEF ReleaseEmulatedButton, Due, Enter
  <2>3. ~PublishPending /\ events = 1 /\ input = "gpio_emul"  BY <2>2
  <2>4. TypeOK'  BY <2>1, <2>2
  <2>5. SampleAfterBouncing' /\ EmulatedKey'  BY <2>2, <2>3
  <2>6. EventOfPress'  BY <2>1, <2>2, <2>3
  <2> QED BY <2>4, <2>5, <2>6
<1>7. CASE PublishEvent
  BY <1>7 DEF PublishEvent, Due, SamplesDown, contact_vars
<1>8. CASE Tick
  BY <1>8 DEF Tick, ContactAges, Left
<1>9. CASE UNCHANGED vars
  BY <1>9 DEF vars, contact_vars
<1> QED BY <1>1, <1>2, <1>3, <1>4, <1>5, <1>6, <1>7, <1>8, <1>9 DEF Next, Key, ContactMoves

(* SimButtonInv holds at all times: a sample falls due only after the      *)
(* bouncing it was asked for in (button.c:69), and an emulated key is down *)
(* until its press was sampled (button.c:139).                             *)
THEOREM SimButtonInvariant == ASSUME Debounced PROVE Spec => []SimButtonInv
<1>1. Init => SimButtonInv  BY InitSimButton
<1>2. SimButtonInv /\ [Next]_vars => SimButtonInv'  BY NextSimButton
<1> QED BY <1>1, <1>2, PTL DEF Spec

----------------------------------------------------------------------------
LEMMA StepPublishesOnce ==
    ASSUME Debounced, SimButtonInv, [Next]_vars
    PROVE  [Once!Next]_(Once!press_vars)
<1> USE Times DEF SimButtonInv, TypeOK, ContactTypeOK, AgeBound, EVENT_BOUND, Debounced,
        SampleAfterBouncing, EventOfPress, EmulatedKey, PublishPending, ReleasePending,
        SampleTime, HOLD_EMULATED_MS, Unscheduled, Held, Once!Next, Once!press_vars
<1>0. input' = input
  BY DEF Next, Key, CmdButtonEmulate, ReleaseEmulatedButton, PublishEvent, Tick, vars
<1> USE <1>0
<1>1. CASE Key /\ Close
  BY <1>1 DEF Key, Close, Enter, Once!Press
<1>2. CASE Key /\ Open
  BY <1>2 DEF Key, Open, Close, Enter, Once!Release
<1>3. CASE Key /\ Bounce
  BY <1>3 DEF Key, Bounce, Close
<1>4. CASE Key /\ Settle
  BY <1>4 DEF Key, Settle, Close, Enter
<1>5. CASE CmdButtonEmulate
  BY <1>5 DEF CmdButtonEmulate, Enter, contact_vars, Once!Press
<1>6. CASE ReleaseEmulatedButton
  BY <1>6 DEF ReleaseEmulatedButton, Due, Enter, Once!Release
<1>7. CASE PublishEvent
  BY <1>7 DEF PublishEvent, Due, SamplesDown, contact_vars, Once!Event
<1>8. CASE Tick
  BY <1>8 DEF Tick, ContactAges
<1>9. CASE UNCHANGED vars
  BY <1>9 DEF vars, contact_vars
<1> QED BY <1>1, <1>2, <1>3, <1>4, <1>5, <1>6, <1>7, <1>8, <1>9 DEF Next, Key, ContactMoves

(* Every press, of the real key or by the shell command, publishes exactly *)
(* one event while the key is down, for all times that satisfy Debounced.  *)
THEOREM SimButtonPublishesOncePerPress ==
    ASSUME Debounced PROVE Spec => PublishesOncePerPress
<1>1. Init => Once!Init  BY DEF Init, ContactInit, Once!Init, Held
<1>2. SimButtonInv /\ [Next]_vars => [Once!Next]_(Once!press_vars)  BY StepPublishesOnce
<1>3. Spec => []SimButtonInv  BY SimButtonInvariant
<1> QED BY <1>1, <1>2, <1>3, PTL DEF Spec, PublishesOncePerPress, Once!Spec
=============================================================================
