-------------------------------- MODULE Led --------------------------------
(***************************************************************************)
(* The LED component of the application, app/src/components/led/led.c:     *)
(* two LED instances, the 10 ms timer they share, set_led_mode() as it     *)
(* runs in a thread and led_timer_handler() as it runs in the system timer *)
(* interrupt.                                                              *)
(*                                                                         *)
(* set_led_mode() takes no lock.  It is split into the accesses another    *)
(* context can come between; the interrupt handler, which no thread        *)
(* preempts, is one action.  The plain stores to a led_instance_t          *)
(* (l.149-154) are neither volatile nor atomic, so a build may emit them   *)
(* in any order up to the next call the compiler cannot see through.       *)
(***************************************************************************)
EXTENDS Naturals

CONSTANTS
    Thread,                 \* threads that call set_led_mode()
    POWER_ON_TICKS, POWER_OFF_TICKS,
    PULSE_ON_TICKS,
    ALARM_ON_TICKS, ALARM_OFF_TICKS, ALARM_DURATION_TICKS,
    TICK_WORD               \* values of a uint32_t tick counter: 2^32

ASSUME TicksAssumption ==
    /\ {POWER_ON_TICKS, POWER_OFF_TICKS, PULSE_ON_TICKS, ALARM_ON_TICKS,
        ALARM_OFF_TICKS, ALARM_DURATION_TICKS} \subseteq Nat \ {0}
    /\ TICK_WORD \in Nat
    /\ PULSE_ON_TICKS < TICK_WORD
    /\ ALARM_DURATION_TICKS < TICK_WORD

VARIABLES
    mode,            \* leds[l].mode
    tick_count,      \* leds[l].tick_count
    duration_ticks,  \* leds[l].duration_ticks
    state,           \* leds[l].state
    pin,             \* level of the GPIO behind leds[l].spec
    timer,           \* led_timer is running
    call             \* call[t]: thread t's activation of set_led_mode()

inst_vars == <<mode, tick_count, duration_ticks, state>>
led_vars  == <<mode, tick_count, duration_ticks, state, pin, timer, call>>

LED   == {0, 1}
Mode  == {"OFF", "POWER_SIGNAL", "SENSOR_PULSE", "ALARM"}
Field == {"mode", "tick_count", "duration_ticks"}

(* What a thread does next inside set_led_mode(): "none" is outside it.    *)
CallStep == {"none", "store", "set_state", "set_pin", "test_timer",
             "start_timer", "stop_timer"}
NoCall   == [at |-> "none", led |-> 0, mode |-> "OFF", todo |-> {}]

LedTypeOK ==
    /\ mode \in [LED -> Mode]
    /\ tick_count \in [LED -> 0 .. TICK_WORD - 1]
    /\ duration_ticks \in [LED -> {0, ALARM_DURATION_TICKS}]
    /\ state \in [LED -> BOOLEAN]
    /\ pin \in [LED -> BOOLEAN]
    /\ timer \in BOOLEAN
    /\ call \in [Thread -> [at: CallStep, led: LED, mode: Mode,
                            todo: SUBSET Field]]

InCall(t) == call[t].at # "none"

(* leds[] as led_init() leaves it.                                         *)
LedInit ==
    /\ mode = [l \in LED |-> "OFF"]
    /\ tick_count = [l \in LED |-> 0]
    /\ duration_ticks = [l \in LED |-> 0]
    /\ state = [l \in LED |-> FALSE]
    /\ pin = [l \in LED |-> FALSE]
    /\ timer = FALSE
    /\ call = [t \in Thread |-> NoCall]

AnyLedNeedsTimer(m) == \E l \in LED : m[l] # "OFF"

----------------------------------------------------------------------------
(* set_led_mode(), one action per access to shared state.                  *)

(* Mutant: an alarm is started without its duration.                       *)
StoresNoDuration(m) == {"mode", "tick_count"}

(* The fields a call for mode m stores.                                    *)
Stores(m) ==
    {"mode", "tick_count"} \cup (IF m = "ALARM" THEN {"duration_ticks"} ELSE {})

(* The call and the comparison with the current mode: equal modes return.  *)
SetLedMode(t, l, m) ==
    /\ ~InCall(t)
    /\ call' = IF mode[l] = m THEN call
               ELSE [call EXCEPT ![t] =
                       [at |-> "store", led |-> l, mode |-> m, todo |-> Stores(m)]]
    /\ UNCHANGED <<inst_vars, pin, timer>>

(* Mutant: LED_MODE_OFF, too, leaves the output to the timer.              *)
AfterStoresNoOutput(m) == "test_timer"

(* LED_MODE_OFF applies the output at once, the others leave it to the     *)
(* timer.                                                                  *)
AfterStores(m) == IF m = "OFF" THEN "set_state" ELSE "test_timer"

(* One of the stores to the instance.                                      *)
StoreField(t) ==
    LET c == call[t] IN
    /\ c.at = "store"
    /\ \E f \in c.todo :
         /\ mode' = IF f = "mode" THEN [mode EXCEPT ![c.led] = c.mode] ELSE mode
         /\ tick_count' = IF f = "tick_count"
                          THEN [tick_count EXCEPT ![c.led] = 0] ELSE tick_count
         /\ duration_ticks' = IF f = "duration_ticks"
                              THEN [duration_ticks EXCEPT ![c.led] = ALARM_DURATION_TICKS]
                              ELSE duration_ticks
         /\ call' = [call EXCEPT
                ![t].todo = c.todo \ {f},
                ![t].at = IF c.todo # {f} THEN "store" ELSE AfterStores(c.mode)]
    /\ UNCHANGED <<state, pin, timer>>

(* set_led_state(led, false): the cached state, then the pin.              *)
SetState(t) ==
    /\ call[t].at = "set_state"
    /\ state' = [state EXCEPT ![call[t].led] = FALSE]
    /\ call' = [call EXCEPT ![t].at = "set_pin"]
    /\ UNCHANGED <<mode, tick_count, duration_ticks, pin, timer>>

SetPin(t) ==
    /\ call[t].at = "set_pin"
    /\ pin' = [pin EXCEPT ![call[t].led] = FALSE]
    /\ call' = [call EXCEPT ![t].at = "test_timer"]
    /\ UNCHANGED <<inst_vars, timer>>

(* Mutant: the timer is chosen by the mode of this LED alone.              *)
TimerChoiceOwnMode(t) == IF call[t].mode # "OFF" THEN "start_timer" ELSE "stop_timer"

TimerChoice(t) == IF AnyLedNeedsTimer(mode) THEN "start_timer" ELSE "stop_timer"

(* update_timer_state(): the test, and then the call it chose.             *)
TestTimer(t) ==
    /\ call[t].at = "test_timer"
    /\ call' = [call EXCEPT ![t].at = TimerChoice(t)]
    /\ UNCHANGED <<inst_vars, pin, timer>>

(* k_timer_start() on a timer that runs begins its 10 ms anew, which only  *)
(* delays the next tick: how long a tick takes is not modelled.            *)
SwitchTimer(t) ==
    /\ call[t].at \in {"start_timer", "stop_timer"}
    /\ timer' = (call[t].at = "start_timer")
    /\ call' = [call EXCEPT ![t] = NoCall]
    /\ UNCHANGED <<inst_vars, pin>>

CallStepOf(t) == StoreField(t) \/ SetState(t) \/ SetPin(t) \/ TestTimer(t) \/ SwitchTimer(t)

----------------------------------------------------------------------------
(* led_timer_handler(), in the timer interrupt.                            *)

NextTick(l) == (tick_count[l] + 1) % TICK_WORD

(* Mutant: a pulse that is reset instead of ended.                         *)
ModeEndsNoPulse(l) == mode[l] = "ALARM" /\ NextTick(l) >= duration_ticks[l]

(* update_led() ends the two timed modes by itself.                        *)
ModeEnds(l) ==
    \/ mode[l] = "SENSOR_PULSE" /\ tick_count[l] >= PULSE_ON_TICKS
    \/ mode[l] = "ALARM" /\ NextTick(l) >= duration_ticks[l]

NewState(l) ==
    \/ /\ mode[l] = "POWER_SIGNAL"
       /\ tick_count[l] % (POWER_ON_TICKS + POWER_OFF_TICKS) < POWER_ON_TICKS
    \/ mode[l] = "SENSOR_PULSE" /\ ~ModeEnds(l)
    \/ /\ mode[l] = "ALARM" /\ ~ModeEnds(l)
       /\ tick_count[l] % (ALARM_ON_TICKS + ALARM_OFF_TICKS) < ALARM_ON_TICKS

(* Mutants: the end of a mode stops the timer outright, or never.          *)
TimerAfterTickStop  == IF \E l \in LED : ModeEnds(l) THEN FALSE ELSE timer
TimerAfterTickLeave == timer

(* An LED whose mode ends calls update_timer_state(); the last such call   *)
(* decides, and it sees every mode that has ended.                         *)
TimerAfterTick ==
    IF \E l \in LED : ModeEnds(l) THEN AnyLedNeedsTimer(mode') ELSE timer

(* Both LEDs in turn.                                                      *)
LedTimerHandler ==
    /\ timer
    /\ mode' = [l \in LED |-> IF ModeEnds(l) THEN "OFF" ELSE mode[l]]
    /\ tick_count' = [l \in LED |-> IF ModeEnds(l) THEN 0
                                    ELSE IF mode[l] = "OFF" THEN tick_count[l]
                                    ELSE NextTick(l)]
    /\ duration_ticks' = [l \in LED |-> IF mode[l] = "ALARM" /\ ModeEnds(l) THEN 0
                                        ELSE duration_ticks[l]]
    /\ state' = [l \in LED |-> NewState(l)]
    /\ pin' = [l \in LED |-> IF NewState(l) # state[l] THEN NewState(l) ELSE pin[l]]
    /\ timer' = TimerAfterTick
    /\ UNCHANGED call

----------------------------------------------------------------------------
(* The component in an environment whose threads call it at any time, and  *)
(* in one that lets a single call run at a time, as the callbacks of one   *)
(* zbus channel do.                                                        *)

Inside == \E t \in Thread : CallStepOf(t)

Call == \E t \in Thread, l \in LED, m \in Mode : SetLedMode(t, l, m)

SerialCall == (\A t \in Thread : ~InCall(t)) /\ Call

LedSpec == LedInit /\ [][Call \/ Inside \/ LedTimerHandler]_led_vars

SerialLedNext == SerialCall \/ Inside \/ LedTimerHandler

SerialLedSpec == LedInit /\ [][SerialLedNext]_led_vars

(* In addition the interrupt waits for the end of a call, as simulated     *)
(* time does.                                                              *)
Quiet == \A t \in Thread : ~InCall(t)

QuietLedNext == SerialCall \/ Inside \/ (Quiet /\ LedTimerHandler)

QuietLedSpec == LedInit /\ [][QuietLedNext]_led_vars

----------------------------------------------------------------------------
(* Properties.                                                             *)

(* No LED waits for a tick that never comes: outside set_led_mode(), a     *)
(* mode other than OFF has the timer running (update_timer_state, and the  *)
(* early return that makes a repeated request leave a stopped timer so).   *)
ActiveLedIsTimed ==
    (\A t \in Thread : ~InCall(t)) /\ AnyLedNeedsTimer(mode) => timer

(* The converse: outside set_led_mode(), a running timer has work to do.   *)
TimerHasWork ==
    (\A t \in Thread : ~InCall(t)) /\ timer => AnyLedNeedsTimer(mode)

(* An LED nobody is switching and whose mode is OFF is dark: neither a     *)
(* stale tick nor a late gpio_pin_set_dt() relights it.                    *)
OffIsDark ==
    \A l \in LED :
        /\ mode[l] = "OFF"
        /\ \A t \in Thread : InCall(t) => call[t].led # l
        => ~pin[l]

(* The timer interrupt ends an alarm only on its last tick.                *)
AlarmRunsItsTime ==
    [][\A l \in LED :
         LedTimerHandler /\ mode[l] = "ALARM" /\ mode'[l] = "OFF"
         => tick_count[l] + 1 = ALARM_DURATION_TICKS]_led_vars

----------------------------------------------------------------------------
(* The inductive invariant of SerialLedSpec.                               *)

OneCall == \A t, u \in Thread : InCall(t) /\ InCall(u) => t = u

(* A call about to stop the timer has seen that no LED needs it; only      *)
(* another call could have changed that.                                   *)
StopIsCurrent ==
    \A t \in Thread : call[t].at = "stop_timer" => ~AnyLedNeedsTimer(mode)

(* The state and the pin of an LED part only between set_led_state()'s two *)
(* writes, and OFF is lit only until the call that chose it gets there.    *)
PinFollowsState ==
    \A l \in LED :
        \/ pin[l] = state[l] /\ (mode[l] = "OFF" => ~state[l])
        \/ \E t \in Thread :
             /\ call[t].led = l /\ call[t].mode = "OFF" /\ mode[l] = "OFF"
             /\ \/ call[t].at \in {"store", "set_state"} /\ pin[l] = state[l]
                \/ call[t].at = "set_pin" /\ ~state[l]

(* A call for OFF past its store of the mode has left the mode OFF.        *)
OffIsStored ==
    \A t \in Thread :
        /\ call[t].at \in {"set_state", "set_pin"} => call[t].mode = "OFF"
        /\ InCall(t) /\ call[t].mode = "OFF" /\ "mode" \notin call[t].todo
             => mode[call[t].led] = "OFF"
        /\ call[t].at = "store" \/ call[t].todo = {}

SerialInv ==
    /\ LedTypeOK
    /\ OneCall
    /\ StopIsCurrent
    /\ ActiveLedIsTimed
    /\ PinFollowsState
    /\ OffIsStored

----------------------------------------------------------------------------
(* What QuietLedSpec adds to it: no tick comes between the test of the     *)
(* modes and the timer, nor between the stores to an instance.             *)

StartIsCurrent ==
    \A t \in Thread : call[t].at = "start_timer" => AnyLedNeedsTimer(mode)

(* The fields that a call has stored have the values of its mode.          *)
StoredSoFar ==
    \A t \in Thread : call[t].at = "store" =>
        LET c == call[t] IN
        /\ "mode" \notin c.todo => mode[c.led] = c.mode
        /\ c.mode = "ALARM" =>
             /\ "tick_count" \notin c.todo => tick_count[c.led] = 0
             /\ "duration_ticks" \notin c.todo
                  => duration_ticks[c.led] = ALARM_DURATION_TICKS

(* An alarm that nobody is storing has time left, of its full duration.    *)
AlarmHasTime ==
    \A l \in LED :
        mode[l] = "ALARM" /\ (\A t \in Thread : call[t].at = "store" => call[t].led # l)
        => /\ duration_ticks[l] = ALARM_DURATION_TICKS
           /\ tick_count[l] < ALARM_DURATION_TICKS

QuietInv == SerialInv /\ TimerHasWork /\ StartIsCurrent /\ StoredSoFar /\ AlarmHasTime
=============================================================================
