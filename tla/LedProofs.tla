----------------------------- MODULE LedProofs -----------------------------
(* Theorems about module Led, for every set of calling threads and every   *)
(* tick count: type correctness under any interleaving of callers, and,    *)
(* when one call runs at a time, that an active LED has a running timer    *)
(* and that an LED left OFF is dark.                                       *)
EXTENDS Led, TLAPS

LEMMA InsideTypeOK ==
    ASSUME LedTypeOK, Inside
    PROVE  LedTypeOK'
<1> USE TicksAssumption DEF LED, Mode, Field, CallStep, NoCall
<1> SUFFICES ASSUME NEW t \in Thread, CallStepOf(t)
             PROVE  LedTypeOK'
  BY DEF Inside
<1>1. CASE StoreField(t)
  <2>1. PICK f \in call[t].todo :
          /\ mode' = IF f = "mode" THEN [mode EXCEPT ![call[t].led] = call[t].mode] ELSE mode
          /\ tick_count' = IF f = "tick_count"
                           THEN [tick_count EXCEPT ![call[t].led] = 0] ELSE tick_count
          /\ duration_ticks' = IF f = "duration_ticks"
                               THEN [duration_ticks EXCEPT ![call[t].led] = ALARM_DURATION_TICKS]
                               ELSE duration_ticks
          /\ call' = [call EXCEPT
                ![t].todo = call[t].todo \ {f},
                ![t].at = IF call[t].todo # {f} THEN "store"
                          ELSE IF call[t].mode = "OFF" THEN "set_state" ELSE "test_timer"]
    BY <1>1 DEF StoreField, AfterStores
  <2>2. mode' \in [LED -> Mode]
    BY <2>1 DEF LedTypeOK
  <2>3. tick_count' \in [LED -> 0 .. TICK_WORD - 1]
    BY <2>1 DEF LedTypeOK
  <2>4. duration_ticks' \in [LED -> {0, ALARM_DURATION_TICKS}]
    BY <2>1 DEF LedTypeOK
  <2>5. call' \in [Thread -> [at: CallStep, led: LED, mode: Mode, todo: SUBSET Field]]
    <3> DEFINE C == [at: CallStep, led: LED, mode: Mode, todo: SUBSET Field]
               r == [call[t] EXCEPT
                       !.todo = call[t].todo \ {f},
                       !.at = IF call[t].todo # {f} THEN "store"
                              ELSE IF call[t].mode = "OFF" THEN "set_state"
                              ELSE "test_timer"]
    <3>1. call \in [Thread -> C]
      BY DEF LedTypeOK
    <3>2. call[t] \in C
      BY <3>1
    <3>3. r \in C
      <4>1. call[t].todo \ {f} \in SUBSET Field
        BY <3>2
      <4>2. r.at \in CallStep /\ r.led \in LED /\ r.mode \in Mode
        BY <3>2
      <4> QED BY <3>2, <4>1, <4>2
    <3>4. call' = [call EXCEPT ![t] = r]
      BY <2>1, <3>1
    <3> HIDE DEF C, r
    <3>5. call' \in [Thread -> C]
      BY <3>1, <3>3, <3>4
    <3> QED BY <3>5 DEF C
  <2> QED BY <1>1, <2>2, <2>3, <2>4, <2>5 DEF StoreField, LedTypeOK
<1>2. CASE SetState(t)
  BY <1>2 DEF SetState, LedTypeOK
<1>3. CASE SetPin(t)
  BY <1>3 DEF SetPin, LedTypeOK, inst_vars
<1>4. CASE TestTimer(t)
  BY <1>4 DEF TestTimer, TimerChoice, LedTypeOK, inst_vars
<1>5. CASE SwitchTimer(t)
  BY <1>5 DEF SwitchTimer, LedTypeOK, inst_vars
<1> QED BY <1>1, <1>2, <1>3, <1>4, <1>5 DEF CallStepOf

LEMMA CallTypeOK ==
    ASSUME LedTypeOK, NEW t \in Thread, NEW l \in LED, NEW m \in Mode,
           SetLedMode(t, l, m)
    PROVE  LedTypeOK'
  BY DEF LedTypeOK, SetLedMode, Stores, inst_vars, CallStep, Field

LEMMA HandlerTypeOK ==
    ASSUME LedTypeOK, LedTimerHandler
    PROVE  LedTypeOK'
<1> USE TicksAssumption
<1>1. \A l \in LED : NextTick(l) \in 0 .. TICK_WORD - 1
  BY DEF LedTypeOK, NextTick
<1>2. \A l \in LED : NewState(l) \in BOOLEAN
  BY DEF NewState
<1>3. tick_count' \in [LED -> 0 .. TICK_WORD - 1]
  BY <1>1 DEF LedTimerHandler, LedTypeOK
<1>4. mode' \in [LED -> Mode]
  BY DEF LedTimerHandler, LedTypeOK, Mode
<1>5. duration_ticks' \in [LED -> {0, ALARM_DURATION_TICKS}]
  BY DEF LedTimerHandler, LedTypeOK
<1>6. state' \in [LED -> BOOLEAN] /\ pin' \in [LED -> BOOLEAN]
  BY <1>2 DEF LedTimerHandler, LedTypeOK
<1>7. timer' \in BOOLEAN /\ call' = call
  BY DEF LedTimerHandler, TimerAfterTick, LedTypeOK, AnyLedNeedsTimer
<1> QED BY <1>3, <1>4, <1>5, <1>6, <1>7 DEF LedTypeOK

LEMMA InitTypeOK == LedInit => LedTypeOK
<1> SUFFICES ASSUME LedInit PROVE LedTypeOK
  OBVIOUS
<1>1. NoCall \in [at: CallStep, led: LED, mode: Mode, todo: SUBSET Field]
  <2>1. {} \in SUBSET Field
    OBVIOUS
  <2> QED BY <2>1 DEF NoCall, CallStep, LED, Mode
<1>2. call \in [Thread -> [at: CallStep, led: LED, mode: Mode, todo: SUBSET Field]]
  BY <1>1 DEF LedInit
<1>3. tick_count \in [LED -> 0 .. TICK_WORD - 1]
  BY TicksAssumption DEF LedInit
<1> QED BY <1>2, <1>3 DEF LedInit, LedTypeOK, Mode

(* The component keeps its types whoever calls it and whenever.            *)
THEOREM LedTypeCorrect == LedSpec => []LedTypeOK
<1>1. LedTypeOK /\ [Call \/ Inside \/ LedTimerHandler]_led_vars => LedTypeOK'
  <2> SUFFICES ASSUME LedTypeOK, [Call \/ Inside \/ LedTimerHandler]_led_vars
               PROVE  LedTypeOK'
    OBVIOUS
  <2>1. CASE Call
    BY <2>1, CallTypeOK DEF Call
  <2>2. CASE Inside
    BY <2>2, InsideTypeOK
  <2>3. CASE LedTimerHandler
    BY <2>3, HandlerTypeOK
  <2>4. CASE UNCHANGED led_vars
    BY <2>4 DEF led_vars, LedTypeOK
  <2> QED BY <2>1, <2>2, <2>3, <2>4
<1> QED BY <1>1, InitTypeOK, PTL DEF LedSpec

----------------------------------------------------------------------------
(* One call at a time.                                                     *)

LEMMA SerialInit == LedInit => SerialInv
<1> SUFFICES ASSUME LedInit PROVE SerialInv
  OBVIOUS
<1>1. LedTypeOK
  BY InitTypeOK
<1>2. \A t \in Thread : call[t] = NoCall
  BY DEF LedInit
<1>3. OneCall /\ StopIsCurrent /\ OffIsStored
  BY <1>2 DEF OneCall, StopIsCurrent, OffIsStored, InCall, NoCall
<1>4. ActiveLedIsTimed /\ PinFollowsState
  BY DEF LedInit, ActiveLedIsTimed, PinFollowsState, AnyLedNeedsTimer
<1> QED BY <1>1, <1>3, <1>4 DEF SerialInv

(* A new call starts with its stores outstanding and changes no LED.       *)
LEMMA SerialCallStep ==
    ASSUME SerialInv, SerialCall
    PROVE  SerialInv'
<1>1. PICK t \in Thread, l \in LED, m \in Mode : SetLedMode(t, l, m)
  BY DEF SerialCall, Call
<1>2. LedTypeOK'
  BY <1>1, CallTypeOK DEF SerialInv
<1>3. \A u \in Thread : ~InCall(u)
  BY DEF SerialCall
<1>4. UNCHANGED <<mode, state, pin, timer>>
  BY <1>1 DEF SetLedMode, inst_vars
<1>5. CASE mode[l] = m
  <2>1. call' = call
    BY <1>1, <1>5 DEF SetLedMode
  <2> QED BY <1>2, <1>4, <2>1
          DEF SerialInv, OneCall, StopIsCurrent, ActiveLedIsTimed,
              PinFollowsState, OffIsStored, InCall, AnyLedNeedsTimer
<1>6. CASE mode[l] # m
  <2>1. /\ call'[t].at = "store" /\ call'[t].led = l /\ call'[t].mode = m
        /\ "mode" \in call'[t].todo
        /\ \A u \in Thread \ {t} : call'[u] = call[u]
    BY <1>1, <1>6 DEF SetLedMode, Stores, SerialInv, LedTypeOK
  <2>2. OneCall' /\ StopIsCurrent' /\ ActiveLedIsTimed'
    BY <1>3, <2>1 DEF OneCall, StopIsCurrent, ActiveLedIsTimed, InCall
  <2>3. PinFollowsState'
    <3>1. \A k \in LED : pin[k] = state[k] /\ (mode[k] = "OFF" => ~state[k])
      BY <1>3 DEF SerialInv, PinFollowsState, InCall
    <3> QED BY <1>4, <3>1 DEF PinFollowsState
  <2>4. OffIsStored'
    BY <1>3, <1>4, <2>1 DEF SerialInv, OffIsStored, InCall
  <2> QED BY <1>2, <2>2, <2>3, <2>4 DEF SerialInv
<1> QED BY <1>5, <1>6

(* The interrupt turns modes OFF only, and darkens what it turns OFF.      *)
LEMMA SerialHandlerStep ==
    ASSUME SerialInv, LedTimerHandler
    PROVE  SerialInv'
<1>1. LedTypeOK'
  BY HandlerTypeOK DEF SerialInv
<1>2. /\ call' = call
      /\ timer' = IF \E l \in LED : ModeEnds(l) THEN AnyLedNeedsTimer(mode') ELSE timer
      /\ timer
      /\ \A l \in LED : mode'[l] = IF ModeEnds(l) THEN "OFF" ELSE mode[l]
      /\ \A l \in LED : state'[l] = NewState(l)
      /\ \A l \in LED : pin'[l] = IF NewState(l) # state[l] THEN NewState(l) ELSE pin[l]
  BY DEF LedTimerHandler, TimerAfterTick
<1>3. \A l \in LED : NewState(l) \in BOOLEAN /\ (mode'[l] = "OFF" => ~NewState(l))
  BY <1>2 DEF NewState, ModeEnds
<1>4. OneCall'
  BY <1>2 DEF SerialInv, OneCall, InCall
<1>5. StopIsCurrent'
  BY <1>2 DEF SerialInv, StopIsCurrent, AnyLedNeedsTimer
<1>6. ActiveLedIsTimed'
  BY <1>2 DEF ActiveLedIsTimed, AnyLedNeedsTimer
<1>7. OffIsStored'
  <2>1. \A t \in Thread : call[t].led \in LED
    BY DEF SerialInv, LedTypeOK
  <2> QED BY <1>2, <2>1 DEF SerialInv, OffIsStored, InCall
<1>8. PinFollowsState'
  <2> SUFFICES ASSUME NEW l \in LED
               PROVE  \/ pin'[l] = state'[l] /\ (mode'[l] = "OFF" => ~state'[l])
                      \/ \E t \in Thread :
                           /\ call'[t].led = l /\ call'[t].mode = "OFF" /\ mode'[l] = "OFF"
                           /\ \/ call'[t].at \in {"store", "set_state"} /\ pin'[l] = state'[l]
                              \/ call'[t].at = "set_pin" /\ ~state'[l]
    BY DEF PinFollowsState
  <2>0. pin[l] \in BOOLEAN /\ state[l] \in BOOLEAN
    BY DEF SerialInv, LedTypeOK
  <2>1. CASE pin[l] = state[l]
    <3>1. pin'[l] = state'[l]
      BY <1>2, <1>3, <2>0, <2>1
    <3> QED BY <1>2, <1>3, <3>1
  <2>2. CASE pin[l] # state[l]
    <3>1. PICK t \in Thread : /\ call[t].led = l /\ call[t].mode = "OFF" /\ mode[l] = "OFF"
                              /\ call[t].at = "set_pin" /\ ~state[l]
      BY <2>2 DEF SerialInv, PinFollowsState
    <3>2. mode'[l] = "OFF" /\ ~NewState(l)
      BY <1>2, <1>3, <3>1
    <3> QED BY <1>2, <3>1, <3>2
  <2> QED BY <2>1, <2>2
<1> QED BY <1>1, <1>4, <1>5, <1>6, <1>7, <1>8 DEF SerialInv

(* A step of the one call in progress: its stores, its writes to the       *)
(* output, and its decision about the timer.                               *)
LEMMA SerialInsideStep ==
    ASSUME SerialInv, Inside
    PROVE  SerialInv'
<1> SUFFICES ASSUME NEW t \in Thread, CallStepOf(t)
             PROVE  SerialInv'
  BY DEF Inside
<1>1. LedTypeOK'
  BY InsideTypeOK DEF SerialInv
<1>2. InCall(t) /\ \A u \in Thread \ {t} : ~InCall(u)
  BY DEF SerialInv, OneCall, InCall, CallStepOf, StoreField, SetState, SetPin,
         TestTimer, SwitchTimer
<1>3. call[t].led \in LED /\ call[t].todo \in SUBSET Field
  BY DEF SerialInv, LedTypeOK
<1>4. \A u \in Thread \ {t} : call'[u] = call[u]
  BY DEF SerialInv, LedTypeOK, CallStepOf, StoreField, SetState, SetPin,
         TestTimer, SwitchTimer
<1>5. OneCall'
  BY <1>2, <1>4 DEF OneCall, InCall
<1>6. CASE StoreField(t)
  <2> DEFINE c == call[t]
  <2>1. PICK f \in c.todo :
          /\ mode' = IF f = "mode" THEN [mode EXCEPT ![c.led] = c.mode] ELSE mode
          /\ call' = [call EXCEPT
                ![t].todo = c.todo \ {f},
                ![t].at = IF c.todo # {f} THEN "store"
                          ELSE IF c.mode = "OFF" THEN "set_state" ELSE "test_timer"]
    BY <1>6 DEF StoreField, AfterStores
  <2>2. /\ c.at = "store"
        /\ call'[t].led = c.led /\ call'[t].mode = c.mode
        /\ call'[t].todo = c.todo \ {f}
        /\ call'[t].at = IF c.todo # {f} THEN "store"
                         ELSE IF c.mode = "OFF" THEN "set_state" ELSE "test_timer"
    BY <1>6, <2>1 DEF StoreField, SerialInv, LedTypeOK
  <2>3. UNCHANGED <<state, pin, timer>>
    BY <1>6 DEF StoreField
  <2>4. /\ mode'[c.led] = IF f = "mode" THEN c.mode ELSE mode[c.led]
        /\ \A l \in LED \ {c.led} : mode'[l] = mode[l]
    BY <1>3, <2>1 DEF SerialInv, LedTypeOK
  <2>5. StopIsCurrent' /\ ActiveLedIsTimed'
    BY <1>2, <1>4, <2>2 DEF StopIsCurrent, ActiveLedIsTimed, InCall
  <2>6. OffIsStored'
    BY <1>2, <1>4, <2>2, <2>4 DEF SerialInv, OffIsStored, InCall
  <2>7. PinFollowsState'
    <3>1. \A l \in LED : pin[l] = state[l]
      BY <1>2, <2>2 DEF SerialInv, PinFollowsState, InCall
    <3>2. \A l \in LED \ {c.led} : mode[l] = "OFF" => ~state[l]
      BY <1>2 DEF SerialInv, PinFollowsState, InCall
    <3>3. CASE c.mode = "OFF"
      BY <3>1, <3>2, <3>3, <2>2, <2>3, <2>4 DEF PinFollowsState
    <3>4. CASE c.mode # "OFF"
      <4>1. mode[c.led] = "OFF" => ~state[c.led]
        BY <1>2, <1>3, <3>4 DEF SerialInv, PinFollowsState, InCall
      <4> QED BY <3>1, <3>2, <3>4, <4>1, <2>3, <2>4 DEF PinFollowsState
    <3> QED BY <3>3, <3>4
  <2> QED BY <1>1, <1>5, <2>5, <2>6, <2>7 DEF SerialInv
<1>7. CASE SetState(t)
  <2>1. /\ call[t].at = "set_state" /\ call'[t] = [call[t] EXCEPT !.at = "set_pin"]
        /\ state'[call[t].led] = FALSE
        /\ \A l \in LED \ {call[t].led} : state'[l] = state[l]
        /\ UNCHANGED <<mode, pin, timer>>
    BY <1>3, <1>7 DEF SetState, SerialInv, LedTypeOK
  <2>2. /\ call'[t].led = call[t].led /\ call'[t].mode = call[t].mode
        /\ call'[t].todo = call[t].todo /\ call'[t].at = "set_pin"
    BY <2>1 DEF SerialInv, LedTypeOK
  <2>3. call[t].mode = "OFF" /\ mode[call[t].led] = "OFF"
    BY <1>2, <2>1 DEF SerialInv, OffIsStored
  <2>4. StopIsCurrent' /\ ActiveLedIsTimed'
    BY <1>2, <1>4, <2>2 DEF StopIsCurrent, ActiveLedIsTimed, InCall
  <2>5. OffIsStored'
    <3> SUFFICES ASSUME NEW u \in Thread
                 PROVE  /\ call'[u].at \in {"set_state", "set_pin"} => call'[u].mode = "OFF"
                        /\ /\ call'[u].at # "none" /\ call'[u].mode = "OFF"
                           /\ "mode" \notin call'[u].todo
                           => mode'[call'[u].led] = "OFF"
                        /\ call'[u].at = "store" \/ call'[u].todo = {}
      BY DEF OffIsStored, InCall
    <3>1. CASE u = t
      BY <1>2, <2>1, <2>2, <3>1 DEF SerialInv, OffIsStored
    <3>2. CASE u # t
      BY <1>2, <1>4, <2>1, <3>2 DEF SerialInv, OffIsStored, InCall
    <3> QED BY <3>1, <3>2
  <2>6. PinFollowsState'
    <3>1. \A l \in LED \ {call[t].led} : pin[l] = state[l] /\ (mode[l] = "OFF" => ~state[l])
      BY <1>2 DEF SerialInv, PinFollowsState, InCall
    <3> QED BY <2>1, <2>2, <2>3, <3>1 DEF PinFollowsState
  <2> QED BY <1>1, <1>5, <2>4, <2>5, <2>6 DEF SerialInv
<1>8. CASE SetPin(t)
  <2>1. /\ call[t].at = "set_pin" /\ call'[t] = [call[t] EXCEPT !.at = "test_timer"]
        /\ pin'[call[t].led] = FALSE
        /\ \A l \in LED \ {call[t].led} : pin'[l] = pin[l]
        /\ UNCHANGED <<mode, state, timer>>
    BY <1>3, <1>8 DEF SetPin, SerialInv, LedTypeOK, inst_vars
  <2>2. /\ call'[t].led = call[t].led /\ call'[t].mode = call[t].mode
        /\ call'[t].todo = call[t].todo /\ call'[t].at = "test_timer"
    BY <2>1 DEF SerialInv, LedTypeOK
  <2>3. StopIsCurrent' /\ ActiveLedIsTimed'
    BY <1>2, <1>4, <2>2 DEF StopIsCurrent, ActiveLedIsTimed, InCall
  <2>4. OffIsStored'
    <3> SUFFICES ASSUME NEW u \in Thread
                 PROVE  /\ call'[u].at \in {"set_state", "set_pin"} => call'[u].mode = "OFF"
                        /\ /\ call'[u].at # "none" /\ call'[u].mode = "OFF"
                           /\ "mode" \notin call'[u].todo
                           => mode'[call'[u].led] = "OFF"
                        /\ call'[u].at = "store" \/ call'[u].todo = {}
      BY DEF OffIsStored, InCall
    <3>1. CASE u = t
      BY <1>2, <2>1, <2>2, <3>1 DEF SerialInv, OffIsStored
    <3>2. CASE u # t
      BY <1>2, <1>4, <2>1, <3>2 DEF SerialInv, OffIsStored, InCall
    <3> QED BY <3>1, <3>2
  <2>5. PinFollowsState'
    <3>1. \A l \in LED \ {call[t].led} : pin[l] = state[l] /\ (mode[l] = "OFF" => ~state[l])
      BY <1>2 DEF SerialInv, PinFollowsState, InCall
    <3>2. ~state[call[t].led]
      <4>1. call[t].mode = "OFF" /\ mode[call[t].led] = "OFF"
        BY <1>2, <2>1 DEF SerialInv, OffIsStored
      <4> QED BY <1>2, <1>3, <2>1, <4>1 DEF SerialInv, PinFollowsState, InCall
    <3>3. pin'[call[t].led] = state[call[t].led]
      BY <1>3, <2>1, <3>2 DEF SerialInv, LedTypeOK
    <3> QED BY <2>1, <3>1, <3>2, <3>3 DEF PinFollowsState
  <2> QED BY <1>1, <1>5, <2>3, <2>4, <2>5 DEF SerialInv
<1>9. CASE TestTimer(t)
  <2>1. /\ call[t].at = "test_timer"
        /\ call'[t] = [call[t] EXCEPT !.at =
                         IF AnyLedNeedsTimer(mode) THEN "start_timer" ELSE "stop_timer"]
        /\ UNCHANGED <<mode, state, pin, timer>>
    BY <1>9 DEF TestTimer, TimerChoice, SerialInv, LedTypeOK, inst_vars
  <2>2. /\ call'[t].led = call[t].led /\ call'[t].mode = call[t].mode
        /\ call'[t].todo = call[t].todo
        /\ call'[t].at = IF AnyLedNeedsTimer(mode) THEN "start_timer" ELSE "stop_timer"
    BY <2>1 DEF SerialInv, LedTypeOK
  <2>3. StopIsCurrent' /\ ActiveLedIsTimed'
    BY <1>2, <1>4, <2>1, <2>2 DEF StopIsCurrent, ActiveLedIsTimed, InCall, AnyLedNeedsTimer
  <2>4. OffIsStored'
    <3> SUFFICES ASSUME NEW u \in Thread
                 PROVE  /\ call'[u].at \in {"set_state", "set_pin"} => call'[u].mode = "OFF"
                        /\ /\ call'[u].at # "none" /\ call'[u].mode = "OFF"
                           /\ "mode" \notin call'[u].todo
                           => mode'[call'[u].led] = "OFF"
                        /\ call'[u].at = "store" \/ call'[u].todo = {}
      BY DEF OffIsStored, InCall
    <3>1. CASE u = t
      BY <1>2, <2>1, <2>2, <3>1 DEF SerialInv, OffIsStored
    <3>2. CASE u # t
      BY <1>2, <1>4, <2>1, <3>2 DEF SerialInv, OffIsStored, InCall
    <3> QED BY <3>1, <3>2
  <2>5. PinFollowsState'
    <3>1. \A l \in LED : pin[l] = state[l] /\ (mode[l] = "OFF" => ~state[l])
      BY <1>2, <2>1 DEF SerialInv, PinFollowsState, InCall
    <3> QED BY <2>1, <3>1 DEF PinFollowsState
  <2> QED BY <1>1, <1>5, <2>3, <2>4, <2>5 DEF SerialInv
<1>10. CASE SwitchTimer(t)
  <2>1. /\ call[t].at \in {"start_timer", "stop_timer"} /\ call'[t] = NoCall
        /\ timer' = (call[t].at = "start_timer")
        /\ UNCHANGED <<mode, state, pin>>
    BY <1>10 DEF SwitchTimer, SerialInv, LedTypeOK, inst_vars
  <2>2. \A u \in Thread : ~(call'[u].at # "none")
    BY <1>2, <1>4, <2>1 DEF InCall, NoCall
  <2>3. StopIsCurrent' /\ OffIsStored'
    BY <1>4, <2>1, <2>2 DEF StopIsCurrent, OffIsStored, InCall, NoCall, SerialInv
  <2>4. ActiveLedIsTimed'
    BY <2>1 DEF SerialInv, StopIsCurrent, ActiveLedIsTimed, AnyLedNeedsTimer
  <2>5. PinFollowsState'
    <3>1. \A l \in LED : pin[l] = state[l] /\ (mode[l] = "OFF" => ~state[l])
      BY <1>2, <2>1 DEF SerialInv, PinFollowsState, InCall
    <3> QED BY <2>1, <3>1 DEF PinFollowsState
  <2> QED BY <1>1, <1>5, <2>3, <2>4, <2>5 DEF SerialInv
<1> QED BY <1>6, <1>7, <1>8, <1>9, <1>10 DEF CallStepOf

(* The invariant of the component when its calls are serialised.           *)
THEOREM SerialInvariant == SerialLedSpec => []SerialInv
<1>1. SerialInv /\ [SerialLedNext]_led_vars => SerialInv'
  <2> SUFFICES ASSUME SerialInv, [SerialLedNext]_led_vars
               PROVE  SerialInv'
    OBVIOUS
  <2>1. CASE SerialCall
    BY <2>1, SerialCallStep
  <2>2. CASE Inside
    BY <2>2, SerialInsideStep
  <2>3. CASE LedTimerHandler
    BY <2>3, SerialHandlerStep
  <2>4. CASE UNCHANGED led_vars
    BY <2>4 DEF led_vars, SerialInv, LedTypeOK, OneCall, StopIsCurrent,
       ActiveLedIsTimed, PinFollowsState, OffIsStored, InCall, AnyLedNeedsTimer
  <2> QED BY <2>1, <2>2, <2>3, <2>4 DEF SerialLedNext
<1> QED BY <1>1, SerialInit, PTL DEF SerialLedSpec

(* With serialised calls an active LED has its timer, wherever the         *)
(* interrupt strikes.                                                      *)
THEOREM SerialActiveLedIsTimed == SerialLedSpec => []ActiveLedIsTimed
<1>1. SerialInv => ActiveLedIsTimed
  BY DEF SerialInv
<1> QED BY <1>1, SerialInvariant, PTL

(* With serialised calls an LED left OFF is dark.                          *)
THEOREM SerialOffIsDark == SerialLedSpec => []OffIsDark
<1>1. SerialInv => OffIsDark
  <2> SUFFICES ASSUME SerialInv, NEW l \in LED, mode[l] = "OFF",
                      \A t \in Thread : InCall(t) => call[t].led # l
               PROVE  ~pin[l]
    BY DEF OffIsDark
  <2> QED BY DEF SerialInv, PinFollowsState, InCall
<1> QED BY <1>1, SerialInvariant, PTL

----------------------------------------------------------------------------
(* One call at a time, and no tick during a call.                          *)

LEMMA QuietImpliesSerial == QuietLedSpec => SerialLedSpec
  BY PTL DEF QuietLedSpec, SerialLedSpec, QuietLedNext, SerialLedNext

LEMMA QuietInit == LedInit => QuietInv
<1> SUFFICES ASSUME LedInit PROVE QuietInv
  OBVIOUS
<1>1. SerialInv
  BY SerialInit
<1>2. \A t \in Thread : call[t] = NoCall
  BY DEF LedInit
<1>3. TimerHasWork /\ StartIsCurrent /\ StoredSoFar
  BY <1>2 DEF LedInit, TimerHasWork, StartIsCurrent, StoredSoFar, NoCall
<1>4. AlarmHasTime
  BY DEF LedInit, AlarmHasTime
<1> QED BY <1>1, <1>3, <1>4 DEF QuietInv

(* A call starts with all the stores of its mode still to come.            *)
LEMMA QuietCallStep ==
    ASSUME QuietInv, SerialCall
    PROVE  QuietInv'
<1>1. SerialInv'
  BY SerialCallStep DEF QuietInv
<1>2. PICK t \in Thread, l \in LED, m \in Mode : SetLedMode(t, l, m)
  BY DEF SerialCall, Call
<1>3. UNCHANGED <<inst_vars, timer>> /\ \A u \in Thread : ~InCall(u)
  BY <1>2 DEF SetLedMode, SerialCall
<1>4. CASE call' = call
  BY <1>1, <1>3, <1>4 DEF QuietInv, TimerHasWork, StartIsCurrent, StoredSoFar, AlarmHasTime,
     inst_vars, InCall, AnyLedNeedsTimer
<1>5. CASE call' = [call EXCEPT ![t] =
                      [at |-> "store", led |-> l, mode |-> m, todo |-> Stores(m)]]
  <2>1. /\ call'[t].at = "store" /\ call'[t].mode = m
        /\ call'[t].todo = Stores(m)
        /\ \A u \in Thread \ {t} : call'[u] = call[u]
    BY <1>5 DEF QuietInv, SerialInv, LedTypeOK
  <2>2. TimerHasWork' /\ StartIsCurrent'
    BY <1>3, <2>1 DEF TimerHasWork, StartIsCurrent, InCall
  <2>3. StoredSoFar'
    <3>1. "mode" \in Stores(m) /\ "tick_count" \in Stores(m)
          /\ (m = "ALARM" => "duration_ticks" \in Stores(m))
      BY DEF Stores
    <3>2. \A u \in Thread \ {t} : call'[u].at # "store"
      BY <1>3, <2>1 DEF InCall
    <3> QED BY <2>1, <3>1, <3>2 DEF StoredSoFar
  <2>4. AlarmHasTime'
    <3>1. \A k \in LED : mode[k] = "ALARM" =>
            duration_ticks[k] = ALARM_DURATION_TICKS /\ tick_count[k] < ALARM_DURATION_TICKS
      BY <1>3 DEF QuietInv, AlarmHasTime, InCall
    <3> QED BY <1>3, <3>1 DEF AlarmHasTime, inst_vars
  <2> QED BY <1>1, <2>2, <2>3, <2>4 DEF QuietInv
<1> QED BY <1>2, <1>4, <1>5 DEF SetLedMode

(* A tick leaves an alarm time, or ends it on its last tick.               *)
LEMMA AlarmTick ==
    ASSUME QuietInv, Quiet, LedTimerHandler, NEW l \in LED, mode[l] = "ALARM"
    PROVE  /\ duration_ticks[l] = ALARM_DURATION_TICKS
           /\ tick_count[l] < ALARM_DURATION_TICKS
           /\ ModeEnds(l) <=> tick_count[l] + 1 = ALARM_DURATION_TICKS
           /\ ~ModeEnds(l) =>
                /\ tick_count'[l] = tick_count[l] + 1
                /\ duration_ticks'[l] = ALARM_DURATION_TICKS
<1>1. duration_ticks[l] = ALARM_DURATION_TICKS /\ tick_count[l] < ALARM_DURATION_TICKS
  BY DEF QuietInv, AlarmHasTime, Quiet, InCall
<1>2. /\ tick_count[l] \in Nat /\ ALARM_DURATION_TICKS \in Nat /\ TICK_WORD \in Nat
      /\ ALARM_DURATION_TICKS < TICK_WORD
  BY TicksAssumption DEF QuietInv, SerialInv, LedTypeOK
<1>3. NextTick(l) = tick_count[l] + 1
  <2>1. tick_count[l] + 1 < TICK_WORD
    BY <1>1, <1>2
  <2> QED BY <1>2, <2>1 DEF NextTick
<1>4. ModeEnds(l) <=> tick_count[l] + 1 >= ALARM_DURATION_TICKS
  BY <1>1, <1>3 DEF ModeEnds
<1>5. ModeEnds(l) <=> tick_count[l] + 1 = ALARM_DURATION_TICKS
  BY <1>1, <1>2, <1>4
<1>6. ~ModeEnds(l) => /\ tick_count'[l] = NextTick(l)
                      /\ duration_ticks'[l] = duration_ticks[l]
  BY DEF LedTimerHandler
<1> QED BY <1>1, <1>3, <1>5, <1>6

LEMMA QuietHandlerStep ==
    ASSUME QuietInv, Quiet, LedTimerHandler
    PROVE  QuietInv'
<1>1. SerialInv'
  BY SerialHandlerStep DEF QuietInv
<1>2. /\ call' = call /\ timer
      /\ timer' = IF \E l \in LED : ModeEnds(l) THEN AnyLedNeedsTimer(mode') ELSE timer
      /\ \A l \in LED : mode'[l] = IF ModeEnds(l) THEN "OFF" ELSE mode[l]
  BY DEF LedTimerHandler, TimerAfterTick
<1>3. TimerHasWork'
  <2>1. AnyLedNeedsTimer(mode)
    BY <1>2 DEF QuietInv, TimerHasWork, Quiet
  <2>2. CASE \E l \in LED : ModeEnds(l)
    BY <1>2, <2>2 DEF TimerHasWork
  <2>3. CASE ~\E l \in LED : ModeEnds(l)
    <3>1. AnyLedNeedsTimer(mode')
      BY <1>2, <2>1, <2>3 DEF AnyLedNeedsTimer
    <3> QED BY <3>1 DEF TimerHasWork
  <2> QED BY <2>2, <2>3
<1>4. StartIsCurrent' /\ StoredSoFar'
  BY <1>2 DEF Quiet, InCall, StartIsCurrent, StoredSoFar
<1>5. AlarmHasTime'
  <2> SUFFICES ASSUME NEW l \in LED, mode'[l] = "ALARM"
               PROVE  /\ duration_ticks'[l] = ALARM_DURATION_TICKS
                      /\ tick_count'[l] < ALARM_DURATION_TICKS
    BY DEF AlarmHasTime
  <2>1. ~ModeEnds(l) /\ mode[l] = "ALARM"
    BY <1>2
  <2>2. /\ tick_count[l] < ALARM_DURATION_TICKS /\ tick_count[l] + 1 # ALARM_DURATION_TICKS
        /\ tick_count'[l] = tick_count[l] + 1
        /\ duration_ticks'[l] = ALARM_DURATION_TICKS
    BY <2>1, AlarmTick
  <2>3. tick_count[l] \in Nat /\ ALARM_DURATION_TICKS \in Nat
    BY TicksAssumption DEF QuietInv, SerialInv, LedTypeOK
  <2> QED BY <2>2, <2>3
<1> QED BY <1>1, <1>3, <1>4, <1>5 DEF QuietInv

LEMMA QuietInsideStep ==
    ASSUME QuietInv, Inside
    PROVE  QuietInv'
<1>1. SerialInv'
  BY SerialInsideStep DEF QuietInv
<1>2. PICK t \in Thread : CallStepOf(t)
  BY DEF Inside
<1>3. /\ InCall(t) /\ \A u \in Thread \ {t} : ~InCall(u) /\ call'[u] = call[u]
      /\ call[t].led \in LED
  BY <1>2 DEF QuietInv, SerialInv, OneCall, InCall, LedTypeOK, CallStepOf, StoreField,
     SetState, SetPin, TestTimer, SwitchTimer
<1>4. CASE StoreField(t)
  <2> DEFINE c == call[t]
  <2>1. PICK f \in c.todo :
          /\ mode' = IF f = "mode" THEN [mode EXCEPT ![c.led] = c.mode] ELSE mode
          /\ tick_count' = IF f = "tick_count"
                           THEN [tick_count EXCEPT ![c.led] = 0] ELSE tick_count
          /\ duration_ticks' = IF f = "duration_ticks"
                               THEN [duration_ticks EXCEPT ![c.led] = ALARM_DURATION_TICKS]
                               ELSE duration_ticks
          /\ call' = [call EXCEPT
                ![t].todo = c.todo \ {f},
                ![t].at = IF c.todo # {f} THEN "store" ELSE AfterStores(c.mode)]
    BY <1>4 DEF StoreField
  <2>2. /\ c.at = "store"
        /\ call'[t].led = c.led /\ call'[t].mode = c.mode
        /\ call'[t].todo = c.todo \ {f}
        /\ call'[t].at = IF c.todo # {f} THEN "store" ELSE AfterStores(c.mode)
    BY <1>4, <2>1 DEF StoreField, QuietInv, SerialInv, LedTypeOK
  <2>3. \A l \in LED \ {c.led} :
          /\ mode'[l] = mode[l] /\ tick_count'[l] = tick_count[l]
          /\ duration_ticks'[l] = duration_ticks[l]
    BY <1>3, <2>1 DEF QuietInv, SerialInv, LedTypeOK
  <2>4. /\ mode'[c.led] = IF f = "mode" THEN c.mode ELSE mode[c.led]
        /\ tick_count'[c.led] = IF f = "tick_count" THEN 0 ELSE tick_count[c.led]
        /\ duration_ticks'[c.led] = IF f = "duration_ticks" THEN ALARM_DURATION_TICKS
                                    ELSE duration_ticks[c.led]
    BY <1>3, <2>1 DEF QuietInv, SerialInv, LedTypeOK
  <2>5. call'[t].at \in {"store", "set_state", "test_timer"}
    BY <2>2 DEF AfterStores
  <2>6. TimerHasWork' /\ StartIsCurrent'
    BY <1>3, <2>5 DEF TimerHasWork, StartIsCurrent, InCall
  (* What is stored, and with the last store all of it.                    *)
  <2>7. /\ "mode" \notin c.todo \ {f} => mode'[c.led] = c.mode
        /\ c.mode = "ALARM" =>
             /\ "tick_count" \notin c.todo \ {f} => tick_count'[c.led] = 0
             /\ "duration_ticks" \notin c.todo \ {f}
                  => duration_ticks'[c.led] = ALARM_DURATION_TICKS
    <3>1. /\ "mode" \notin c.todo => mode[c.led] = c.mode
          /\ c.mode = "ALARM" =>
               /\ "tick_count" \notin c.todo => tick_count[c.led] = 0
               /\ "duration_ticks" \notin c.todo
                    => duration_ticks[c.led] = ALARM_DURATION_TICKS
      BY <2>2 DEF QuietInv, StoredSoFar
    <3> QED BY <2>4, <3>1
  <2>8. StoredSoFar'
    <3>1. \A u \in Thread \ {t} : call'[u].at # "store"
      BY <1>3 DEF InCall
    <3>2. /\ "mode" \notin call'[t].todo => mode'[call'[t].led] = call'[t].mode
          /\ call'[t].mode = "ALARM" =>
               /\ "tick_count" \notin call'[t].todo => tick_count'[call'[t].led] = 0
               /\ "duration_ticks" \notin call'[t].todo
                    => duration_ticks'[call'[t].led] = ALARM_DURATION_TICKS
      BY <2>2, <2>7
    <3> QED BY <3>1, <3>2 DEF StoredSoFar
  <2>9. AlarmHasTime'
    <3> SUFFICES ASSUME NEW l \in LED, mode'[l] = "ALARM",
                        \A u \in Thread : call'[u].at = "store" => call'[u].led # l
                 PROVE  /\ duration_ticks'[l] = ALARM_DURATION_TICKS
                        /\ tick_count'[l] < ALARM_DURATION_TICKS
      BY DEF AlarmHasTime
    <3>1. CASE l = c.led
      <4>1. c.todo \ {f} = {}
        BY <2>2, <3>1
      <4>2. mode'[l] = c.mode
        BY <2>7, <3>1, <4>1
      <4>3. tick_count'[l] = 0 /\ duration_ticks'[l] = ALARM_DURATION_TICKS
        BY <2>7, <3>1, <4>1, <4>2
      <4> QED BY <4>3, TicksAssumption
    <3>2. CASE l # c.led
      <4>1. \A u \in Thread : call[u].at = "store" => call[u].led # l
        BY <1>3, <3>2 DEF InCall
      <4> QED BY <2>3, <3>2, <4>1 DEF QuietInv, AlarmHasTime
    <3> QED BY <3>1, <3>2
  <2> QED BY <1>1, <2>6, <2>8, <2>9 DEF QuietInv
<1>5. CASE SetState(t) \/ SetPin(t) \/ TestTimer(t) \/ SwitchTimer(t)
  <2>1. /\ UNCHANGED <<mode, tick_count, duration_ticks>>
        /\ call[t].at # "store" /\ call'[t].at # "store"
    BY <1>5 DEF SetState, SetPin, TestTimer, TimerChoice, SwitchTimer, NoCall, inst_vars,
       QuietInv, SerialInv, LedTypeOK
  <2>2. \A u \in Thread : call[u].at # "store" /\ call'[u].at # "store"
    BY <1>3, <2>1 DEF InCall
  <2>3. StoredSoFar' /\ AlarmHasTime'
    BY <2>1, <2>2 DEF StoredSoFar, AlarmHasTime, QuietInv
  <2>4. call'[t].at = "start_timer" => AnyLedNeedsTimer(mode)
    BY <1>5 DEF SetState, SetPin, TestTimer, TimerChoice, SwitchTimer, NoCall,
       QuietInv, SerialInv, LedTypeOK
  <2>5. StartIsCurrent'
    <3>1. \A u \in Thread \ {t} : call'[u].at # "start_timer"
      BY <1>3 DEF InCall
    <3> QED BY <2>1, <2>4, <3>1 DEF StartIsCurrent, AnyLedNeedsTimer
  <2>6. TimerHasWork'
    <3>1. CASE SwitchTimer(t)
      <4>1. timer' => AnyLedNeedsTimer(mode)
        BY <3>1 DEF SwitchTimer, QuietInv, StartIsCurrent
      <4> QED BY <2>1, <4>1 DEF TimerHasWork, AnyLedNeedsTimer
    <3>2. CASE SetState(t) \/ SetPin(t) \/ TestTimer(t)
      <4>1. call'[t].at # "none"
        BY <3>2 DEF SetState, SetPin, TestTimer, TimerChoice, QuietInv, SerialInv, LedTypeOK
      <4> QED BY <4>1 DEF TimerHasWork, InCall
    <3> QED BY <1>5, <3>1, <3>2
  <2> QED BY <1>1, <2>3, <2>5, <2>6 DEF QuietInv
<1> QED BY <1>2, <1>4, <1>5 DEF CallStepOf

LEMMA QuietNext ==
    ASSUME QuietInv, [QuietLedNext]_led_vars
    PROVE  QuietInv'
<1>1. CASE UNCHANGED led_vars
  BY <1>1 DEF led_vars, QuietInv, SerialInv, LedTypeOK, OneCall, StopIsCurrent,
     ActiveLedIsTimed, PinFollowsState, OffIsStored, InCall, AnyLedNeedsTimer, TimerHasWork,
     StartIsCurrent, StoredSoFar, AlarmHasTime
<1> QED BY <1>1, QuietCallStep, QuietInsideStep, QuietHandlerStep DEF QuietLedNext

(* The invariant of the component where no tick interrupts a call.         *)
THEOREM QuietInvariant == QuietLedSpec => []QuietInv
  BY QuietInit, QuietNext, PTL DEF QuietLedSpec

(* Outside a call the timer runs only for an LED that needs it.            *)
THEOREM QuietTimerHasWork == QuietLedSpec => []TimerHasWork
<1>1. QuietInv => TimerHasWork
  BY DEF QuietInv
<1> QED BY <1>1, QuietInvariant, PTL

(* The interrupt ends an alarm only on the last tick of its duration.      *)
THEOREM QuietAlarmRunsItsTime == QuietLedSpec => AlarmRunsItsTime
<1> DEFINE EndsInTime ==
      \A l \in LED : LedTimerHandler /\ mode[l] = "ALARM" /\ mode'[l] = "OFF"
                     => tick_count[l] + 1 = ALARM_DURATION_TICKS
<1>1. ASSUME QuietInv, QuietLedNext, NEW l \in LED,
             LedTimerHandler, mode[l] = "ALARM", mode'[l] = "OFF"
      PROVE  tick_count[l] + 1 = ALARM_DURATION_TICKS
  <2>1. call' = call
    BY <1>1 DEF LedTimerHandler
  <2>2. ~SerialCall
    BY <1>1 DEF SerialCall, Call, SetLedMode, inst_vars
  <2>3. ASSUME Inside PROVE FALSE
    <3>1. PICK t \in Thread : CallStepOf(t)
      BY <2>3 DEF Inside
    <3>2. ~StoreField(t)
      <4> SUFFICES ASSUME StoreField(t) PROVE FALSE
        OBVIOUS
      <4>1. PICK f \in call[t].todo :
              call' = [call EXCEPT
                ![t].todo = call[t].todo \ {f},
                ![t].at = IF call[t].todo # {f} THEN "store" ELSE AfterStores(call[t].mode)]
        BY DEF StoreField
      <4>2. call'[t].todo = call[t].todo \ {f}
        <5>1. call \in [Thread -> [at: CallStep, led: LED, mode: Mode, todo: SUBSET Field]]
          BY <1>1 DEF QuietInv, SerialInv, LedTypeOK
        <5> QED BY <4>1, <5>1
      <4> QED BY <2>1, <4>2
    <3>3. mode' = mode
      BY <3>1, <3>2 DEF CallStepOf, SetState, SetPin, TestTimer, SwitchTimer, inst_vars
    <3> QED BY <1>1, <3>3
  <2>4. Quiet
    BY <1>1, <2>2, <2>3 DEF QuietLedNext
  <2>5. ModeEnds(l)
    BY <1>1 DEF LedTimerHandler
  <2> QED BY <1>1, <2>4, <2>5, AlarmTick
<1>2. QuietInv /\ [QuietLedNext]_led_vars => [EndsInTime]_led_vars
  BY <1>1
<1> HIDE DEF EndsInTime
<1>3. QuietLedSpec => [][EndsInTime]_led_vars
  BY <1>2, QuietInvariant, PTL DEF QuietLedSpec
<1> QED BY <1>3 DEF EndsInTime, AlarmRunsItsTime
=============================================================================
