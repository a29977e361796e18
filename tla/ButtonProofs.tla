---------------------------- MODULE ButtonProofs ---------------------------
(***************************************************************************)
(* The debounce of app/src/components/button/button.c, for every bounce,   *)
(* hold and debounce time that satisfies Debounced, with a real key and    *)
(* with the one of button_mock.c.                                          *)
(***************************************************************************)
EXTENDS Button, TLAPS

LEMMA Times ==
    /\ BOUNCE_MS \in Nat /\ HOLD_MS \in Nat /\ GAP_MS \in Nat
    /\ DEBOUNCE_DELAY_MS \in Nat /\ LATE_MS \in Nat
    /\ DEBOUNCE_DELAY_MS \div 2 \in Nat /\ DEBOUNCE_DELAY_MS \div 2 <= DEBOUNCE_DELAY_MS
  BY ContactAssumption, ButtonAssumption

LEMMA InitButton == ASSUME Init PROVE ButtonInv
<1> USE Times DEF Init, ContactInit, Pending, ReleasePending, SAMPLE_MS, HOLD_MOCK_MS,
        Unscheduled, EVENT_BOUND
<1>0. level \in BOOLEAN /\ phase = "up" /\ age = 0  OBVIOUS
<1>1. ContactTypeOK  BY <1>0 DEF ContactTypeOK, AgeBound
<1>2. TypeOK  BY <1>1 DEF TypeOK
<1>3. SampleAfterBouncing  BY DEF SampleAfterBouncing
<1>4. FirstEdgeCounts  BY DEF FirstEdgeCounts
<1>5. EventOfPress  BY DEF EventOfPress
<1>6. MockedKey  BY DEF MockedKey
<1> QED BY <1>2, <1>3, <1>4, <1>5, <1>6 DEF ButtonInv

(* One step per action; the accepted edge of Close is the one that counts, *)
(* the guard of SendEventWork cannot hold while the contact bounces, and   *)
(* the mocked key is released after its sample.                            *)
LEMMA NextButton ==
    ASSUME Debounced, ButtonInv, [Next]_vars
    PROVE  ButtonInv'
<1> USE Times DEF ButtonInv, TypeOK, ContactTypeOK, AgeBound, EVENT_BOUND, Debounced,
        SampleAfterBouncing, FirstEdgeCounts, EventOfPress, MockedKey, Pending,
        ReleasePending, SampleTime, SAMPLE_MS, HOLD_MOCK_MS, Unscheduled
<1>0. input' = input
  BY DEF Next, Key, CmdMockButton, ButtonPressWork, ButtonReleaseWork, SendEventWork,
         Tick, vars, mock_vars
<1> USE <1>0
<1>1. CASE Key /\ Close
  <2>1. since' = 0 /\ delay' = SampleTime /\ input = "key" /\ UNCHANGED mock_vars
    BY <1>1 DEF Key, Close, Enter, EdgeToActive, ButtonPressed, AcceptsEdge
  <2> QED BY <1>1, <2>1 DEF Key, Close, Enter, mock_vars
<1>2. CASE Key /\ Open
  <2>1. level' \in BOOLEAN /\ ~level'  BY <1>2 DEF Open, Enter
  <2>2. UNCHANGED <<since, delay, events, mock_vars>> /\ input = "key"
    BY <1>2, <2>1 DEF Key, Open, Close, Enter, EdgeToActive, ButtonPressed
  <2> QED BY <1>2, <2>1, <2>2 DEF Open, Enter, mock_vars
<1>3. CASE Key /\ Bounce
  <2>1. UNCHANGED <<events, mock_vars>> /\ input = "key" /\ level' \in BOOLEAN
    BY <1>3 DEF Key, Bounce, Close
  <2>2. /\ phase' = phase /\ phase \in {"closing", "opening"}
        /\ age' = age /\ age \in 0 .. BOUNCE_MS
    BY <1>3 DEF Bounce
  <2>3. CASE since' = 0 /\ delay' = SampleTime /\ since > DEBOUNCE_DELAY_MS
    BY <2>1, <2>2, <2>3 DEF mock_vars
  <2>4. CASE UNCHANGED <<since, delay>>
    BY <2>1, <2>2, <2>4 DEF mock_vars
  <2> QED BY <1>3, <2>3, <2>4 DEF Key, ButtonPressed, AcceptsEdge
<1>4. CASE Key /\ Settle
  <2>1. level' \in BOOLEAN  BY <1>4 DEF Settle, Enter
  <2>2. UNCHANGED <<since, delay, events, press_work, release_work>> /\ input = "key"
    BY <1>4, <2>1 DEF Key, Settle, Close, Enter, EdgeToActive, ButtonPressed, mock_vars
  <2>3. CASE phase = "closing"
    <3>1. phase' = "down" /\ level' /\ age' = 0 /\ age \in 0 .. BOUNCE_MS
      BY <1>4, <2>3 DEF Settle, Enter
    <3>2. events = 0 /\ Pending /\ SampleTime <= delay + age /\ since = age  BY <2>3
    <3>3. delay <= SampleTime  BY <2>3
    <3> QED BY <2>1, <2>2, <2>3, <3>1, <3>2, <3>3
  <2>4. CASE phase = "opening"
    <3>1. level' \in BOOLEAN /\ ~level' /\ phase' = "up" /\ age' = 0
      BY <1>4, <2>4 DEF Settle, Enter
    <3> QED BY <2>2, <2>4, <3>1
  <2> QED BY <1>4, <2>3, <2>4 DEF Settle
<1>5. CASE SendEventWork
  BY <1>5 DEF SendEventWork, Due, SamplesDown, contact_vars, mock_vars
<1>6. CASE Tick
  BY <1>6 DEF Tick, ContactAges, Left
<1>7. CASE CmdMockButton
  BY <1>7 DEF CmdMockButton, contact_vars
<1>8. CASE ButtonPressWork
  <2>1. /\ release_work' = HOLD_MOCK_MS + LATE_MS /\ press_work' = Unscheduled
        /\ input = "mock" /\ ReleasePending'
    BY <1>8 DEF ButtonPressWork, Due
  <2>2. CASE phase = "up"
    <3>1. /\ since' = 0 /\ delay' = SampleTime /\ events' = 0
          /\ phase' = "down" /\ level' /\ level' \in BOOLEAN /\ age' = 0
      BY <1>8, <2>1, <2>2 DEF ButtonPressWork, Enter, EdgeToActive, ButtonPressed, AcceptsEdge
    <3> QED BY <2>1, <3>1
  <2>3. CASE phase = "down"
    <3>1. UNCHANGED <<contact_vars, since, delay, events>>
      BY <1>8, <2>3 DEF ButtonPressWork, EdgeToActive, ButtonPressed, contact_vars
    <3> QED BY <2>1, <2>3, <3>1 DEF contact_vars
  <2> QED BY <2>1, <2>2, <2>3
<1>9. CASE ButtonReleaseWork
  <2>1. level' \in BOOLEAN /\ ~level'  BY <1>9 DEF ButtonReleaseWork, Enter
  <2>2. /\ phase' = "up" /\ age' = 0 /\ ~ReleasePending' /\ release_work <= LATE_MS
        /\ UNCHANGED <<since, delay, events, press_work>>
    BY <1>9 DEF ButtonReleaseWork, Due, Enter
  <2>3. input = "mock" /\ phase = "down"  BY <2>2
  <2>4. ~Pending  BY <2>2, <2>3
  <2>5. since > DEBOUNCE_DELAY_MS  BY <2>2, <2>3
  <2>6. events = 1  BY <2>3, <2>4
  <2> QED BY <2>1, <2>2, <2>3, <2>4, <2>5, <2>6
<1>10. CASE UNCHANGED vars
  BY <1>10 DEF vars, contact_vars, mock_vars
<1> QED BY <1>1, <1>2, <1>3, <1>4, <1>5, <1>6, <1>7, <1>8, <1>9, <1>10 DEF Next, Key, ContactMoves

(* ButtonInv holds at all times: a sample never falls due while the        *)
(* contact bounces (button.c:33 and button.c:51-53), and a mocked key is   *)
(* down until its press was sampled (button_mock.c:36).                    *)
THEOREM ButtonInvariant == ASSUME Debounced PROVE Spec => []ButtonInv
<1>1. Init => ButtonInv  BY InitButton
<1>2. ButtonInv /\ [Next]_vars => ButtonInv'  BY NextButton
<1> QED BY <1>1, <1>2, PTL DEF Spec

----------------------------------------------------------------------------
LEMMA StepPublishesOnce ==
    ASSUME Debounced, ButtonInv, [Next]_vars
    PROVE  [Once!Next]_(Once!press_vars)
<1> USE Times DEF ButtonInv, TypeOK, ContactTypeOK, AgeBound, EVENT_BOUND, Debounced,
        SampleAfterBouncing, FirstEdgeCounts, EventOfPress, MockedKey, Pending,
        ReleasePending, SampleTime, SAMPLE_MS, HOLD_MOCK_MS, Unscheduled,
        Held, Once!Next, Once!press_vars
<1>1. CASE Key /\ Close
  BY <1>1 DEF Key, Close, Enter, Once!Press
<1>2. CASE Key /\ Open
  BY <1>2 DEF Key, Open, Close, Enter, Once!Release
<1>3. CASE Key /\ Bounce
  BY <1>3 DEF Key, Bounce, Close
<1>4. CASE Key /\ Settle
  BY <1>4 DEF Key, Settle, Close, Enter
<1>5. CASE SendEventWork
  BY <1>5 DEF SendEventWork, Due, SamplesDown, contact_vars, Once!Event
<1>6. CASE Tick
  BY <1>6 DEF Tick, ContactAges
<1>7. CASE CmdMockButton
  BY <1>7 DEF CmdMockButton, contact_vars
<1>8. CASE ButtonPressWork
  BY <1>8 DEF ButtonPressWork, Due, Enter, contact_vars, Once!Press
<1>9. CASE ButtonReleaseWork
  BY <1>9 DEF ButtonReleaseWork, Due, Enter, Once!Release
<1>10. CASE UNCHANGED vars
  BY <1>10 DEF vars, contact_vars
<1> QED BY <1>1, <1>2, <1>3, <1>4, <1>5, <1>6, <1>7, <1>8, <1>9, <1>10 DEF Next, Key, ContactMoves

(* Every press, of a real key or by mock_button, publishes exactly one     *)
(* event while the key is down, for all times that satisfy Debounced.      *)
THEOREM ButtonPublishesOncePerPress ==
    ASSUME Debounced PROVE Spec => PublishesOncePerPress
<1>1. Init => Once!Init  BY DEF Init, ContactInit, Once!Init, Held
<1>2. ButtonInv /\ [Next]_vars => [Once!Next]_(Once!press_vars)  BY StepPublishesOnce
<1>3. Spec => []ButtonInv  BY ButtonInvariant
<1> QED BY <1>1, <1>2, <1>3, PTL DEF Spec, PublishesOncePerPress, Once!Spec
=============================================================================
