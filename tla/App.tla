-------------------------------- MODULE App --------------------------------
(***************************************************************************)
(* The application: button and temp_alert publish on event_ch, sys_ctrl    *)
(* turns a button event into a state change on sys_ctl_ch, and the LED     *)
(* component (module Led) listens to both.                                 *)
(*                                                                         *)
(* All observers are zbus listeners, so they run in the publishing thread  *)
(* while it holds the channel's lock: a button press is one chain of calls *)
(* in the system work queue or in the shell, with sys_ctl_ch's lock taken  *)
(* inside event_ch's.  Only the shell's "led set" calls set_led_mode()     *)
(* outside both locks.                                                     *)
(***************************************************************************)
EXTENDS Led

CONSTANTS
    WORK_EVENTS,      \* events the work items of the built components publish
    SLEEP_EVENTS,     \* those of them that are published in SLEEP too
    SHELL_LEDS,       \* LEDs that "led set" is used on
    PREEMPTIVE,       \* TRUE on hardware.  On native_sim time, and with it
                      \* every interrupt, waits until no thread can run
    OTHER_CTL_USER    \* some other thread (a test) may hold sys_ctl_ch

Event    == {"BUTTON_PRESSED", "SENSOR_READING", "TEMP_ALERT"}
SysState == {"SLEEP", "ACTIVE"}
Nobody   == "none"
Outsider == "other"

ASSUME AppAssumption ==
    /\ Thread = {"sysworkq", "shell"}
    /\ WORK_EVENTS \subseteq Event
    /\ SLEEP_EVENTS \subseteq WORK_EVENTS
    /\ SHELL_LEDS \subseteq LED
    /\ PREEMPTIVE \in BOOLEAN
    /\ OTHER_CTL_USER \in BOOLEAN

VARIABLES
    sys_state,    \* sys_ctrl.c: sys_state
    event_ch,     \* last message on event_ch
    event_lock,   \* thread holding event_ch
    sys_ctl_ch,   \* last message on sys_ctl_ch
    ctl_lock,     \* thread holding sys_ctl_ch
    pc,           \* pc[t]: where thread t is in its chain of calls
    msg           \* msg[t]: message thread t is publishing

app_vars == <<sys_state, event_ch, event_lock, sys_ctl_ch, ctl_lock, pc, msg>>
vars == <<led_vars, app_vars>>

Pc == {"idle", "take", "led_event", "sys_ctrl",
       "take_ctl", "led_sys_ctl", "give_ctl", "give"}

TypeOK ==
    /\ LedTypeOK
    /\ sys_state \in SysState
    /\ event_ch \in Event
    /\ event_lock \in Thread \cup {Nobody}
    /\ sys_ctl_ch \in SysState
    /\ ctl_lock \in Thread \cup {Nobody, Outsider}
    /\ pc \in [Thread -> Pc]
    /\ msg \in [Thread -> Event \cup SysState]

Init ==
    /\ LedInit
    /\ sys_state = "SLEEP"
    /\ event_ch = "BUTTON_PRESSED"
    /\ event_lock = Nobody
    /\ sys_ctl_ch = "SLEEP"
    /\ ctl_lock = Nobody
    /\ pc = [t \in Thread |-> "idle"]
    /\ msg = [t \in Thread |-> "BUTTON_PRESSED"]

----------------------------------------------------------------------------
(* Scheduling.  The work queue is a cooperative thread of priority -1, the *)
(* shell a preemptible one of priority 14.                                 *)

Idle(t) == pc[t] = "idle" /\ ~InCall(t)

(* Mutant: event_ch is entered without its lock.                           *)
EventFreeAlways == TRUE

EventFree == event_lock = Nobody

(* temp_alert publishes with K_NO_WAIT, the others wait up to a second.    *)
Waiting(t) ==
    \/ pc[t] = "take" /\ ~EventFree /\ msg[t] # "TEMP_ALERT"
    \/ pc[t] = "take_ctl" /\ ctl_lock # Nobody

(* Mutant: the shell preempts the work queue.                              *)
MayRunShellFirst(t) == t = "sysworkq" => Idle("shell") \/ Waiting("shell")

MayRun(t) == t = "shell" => Idle("sysworkq") \/ Waiting("sysworkq")

InterruptMayRun == PREEMPTIVE \/ \A t \in Thread : Idle(t) \/ Waiting(t)

Goto(t, label) == pc' = [pc EXCEPT ![t] = label]

----------------------------------------------------------------------------
(* Sources of events.                                                      *)

Publish(t, e) ==
    /\ Idle(t)
    /\ Goto(t, "take")
    /\ msg' = [msg EXCEPT ![t] = e]
    /\ UNCHANGED <<led_vars, sys_state, event_ch, event_lock, sys_ctl_ch, ctl_lock>>

(* A work item made pending by an interrupt: send_event_work_handler() with *)
(* the button found pressed, or alert_work_handler().                      *)
WorkItem(e) ==
    /\ InterruptMayRun
    /\ e \in IF sys_state = "SLEEP" THEN SLEEP_EVENTS ELSE WORK_EVENTS
    /\ Publish("sysworkq", e)

(* "button press" and "sys_ctrl button" in the shell.                      *)
CmdButton == MayRun("shell") /\ Publish("shell", "BUTTON_PRESSED")

(* "led set" in the shell: a bare call of set_led_mode().                  *)
CmdLedSet(l, m) ==
    /\ MayRun("shell")
    /\ l \in SHELL_LEDS
    /\ pc["shell"] = "idle"
    /\ SetLedMode("shell", l, m)
    /\ UNCHANGED app_vars

----------------------------------------------------------------------------
(* zbus_chan_pub(&event_ch, ...) and the listeners it runs.                *)

TakeEvent(t) ==
    /\ pc[t] = "take" /\ EventFree
    /\ event_lock' = t
    /\ event_ch' = msg[t]
    /\ Goto(t, "led_event")
    /\ UNCHANGED <<led_vars, sys_state, sys_ctl_ch, ctl_lock, msg>>

(* The publication fails (-EBUSY, -EAGAIN); the publisher only logs it.    *)
EventPubFails(t) ==
    /\ pc[t] = "take" /\ ~EventFree
    /\ msg[t] = "TEMP_ALERT" \/ InterruptMayRun
    /\ Goto(t, "idle")
    /\ UNCHANGED <<led_vars, sys_state, event_ch, event_lock, sys_ctl_ch, ctl_lock, msg>>

LedEventCb(t) ==
    /\ pc[t] = "led_event"
    /\ Goto(t, "sys_ctrl")
    /\ \/ event_ch = "SENSOR_READING" /\ SetLedMode(t, 1, "SENSOR_PULSE")
       \/ event_ch = "TEMP_ALERT" /\ SetLedMode(t, 1, "ALARM")
       \/ event_ch = "BUTTON_PRESSED" /\ UNCHANGED led_vars
    /\ UNCHANGED <<sys_state, event_ch, event_lock, sys_ctl_ch, ctl_lock, msg>>

Other(s) == IF s = "SLEEP" THEN "ACTIVE" ELSE "SLEEP"

(* Mutants: sys_ctrl announces the state it leaves, or the opposite of the *)
(* one it announced last.                                                  *)
AnnouncedOld    == sys_state
AnnouncedToggle == Other(sys_ctl_ch)

(* What sys_ctrl_handle_button_press() hands to sys_ctrl_led_msg().        *)
Announced == Other(sys_state)

(* sys_ctrl toggles first and publishes the new state afterwards.          *)
SysCtrlButtonMsgCb(t) ==
    /\ pc[t] = "sys_ctrl" /\ ~InCall(t)
    /\ \/ /\ event_ch # "BUTTON_PRESSED"
          /\ Goto(t, "give")
          /\ UNCHANGED <<sys_state, msg>>
       \/ /\ event_ch = "BUTTON_PRESSED"
          /\ sys_state' = Other(sys_state)
          /\ msg' = [msg EXCEPT ![t] = Announced]
          /\ Goto(t, "take_ctl")
    /\ UNCHANGED <<led_vars, event_ch, event_lock, sys_ctl_ch, ctl_lock>>

(* Mutant: the channel is not given back.                                  *)
GiveEventForgotten(t) ==
    /\ pc[t] = "give"
    /\ Goto(t, "idle")
    /\ UNCHANGED <<led_vars, sys_state, event_ch, event_lock, sys_ctl_ch, ctl_lock, msg>>

GiveEvent(t) ==
    /\ pc[t] = "give"
    /\ event_lock' = Nobody
    /\ Goto(t, "idle")
    /\ UNCHANGED <<led_vars, sys_state, event_ch, sys_ctl_ch, ctl_lock, msg>>

----------------------------------------------------------------------------
(* zbus_chan_pub(&sys_ctl_ch, ...), nested in sys_ctrl's listener.         *)

TakeCtl(t) ==
    /\ pc[t] = "take_ctl" /\ ctl_lock = Nobody
    /\ ctl_lock' = t
    /\ sys_ctl_ch' = msg[t]
    /\ Goto(t, "led_sys_ctl")
    /\ UNCHANGED <<led_vars, sys_state, event_ch, event_lock, msg>>

(* A second without the lock: logged, and sys_state stays toggled.         *)
CtlPubFails(t) ==
    /\ pc[t] = "take_ctl" /\ ctl_lock # Nobody
    /\ InterruptMayRun
    /\ Goto(t, "give")
    /\ UNCHANGED <<led_vars, sys_state, event_ch, event_lock, sys_ctl_ch, ctl_lock, msg>>

(* Mutant: every message on sys_ctl_ch starts the signal.                  *)
LedModeForAny(s) == "POWER_SIGNAL"

LedModeFor(s) == IF s = "SLEEP" THEN "OFF" ELSE "POWER_SIGNAL"

LedSysCtlCb(t) ==
    /\ pc[t] = "led_sys_ctl"
    /\ SetLedMode(t, 0, LedModeFor(sys_ctl_ch))
    /\ Goto(t, "give_ctl")
    /\ UNCHANGED <<sys_state, event_ch, event_lock, sys_ctl_ch, ctl_lock, msg>>

GiveCtl(t) ==
    /\ pc[t] = "give_ctl" /\ ~InCall(t)
    /\ ctl_lock' = Nobody
    /\ Goto(t, "give")
    /\ UNCHANGED <<led_vars, sys_state, event_ch, event_lock, sys_ctl_ch, msg>>

(* A thread outside the model runs after some interrupt has woken it.      *)
OtherTakesCtl ==
    /\ OTHER_CTL_USER /\ InterruptMayRun /\ ctl_lock = Nobody
    /\ ctl_lock' = Outsider
    /\ UNCHANGED <<led_vars, sys_state, event_ch, event_lock, sys_ctl_ch, pc, msg>>

OtherGivesCtl ==
    /\ InterruptMayRun /\ ctl_lock = Outsider
    /\ ctl_lock' = Nobody
    /\ UNCHANGED <<led_vars, sys_state, event_ch, event_lock, sys_ctl_ch, pc, msg>>

----------------------------------------------------------------------------
SetLedModeStep(t) == CallStepOf(t) /\ UNCHANGED app_vars

ThreadStep(t) ==
    /\ MayRun(t)
    /\ \/ TakeEvent(t) \/ EventPubFails(t) \/ LedEventCb(t)
       \/ SysCtrlButtonMsgCb(t) \/ GiveEvent(t)
       \/ TakeCtl(t) \/ CtlPubFails(t) \/ LedSysCtlCb(t) \/ GiveCtl(t)
       \/ SetLedModeStep(t)

TimerInterrupt == InterruptMayRun /\ LedTimerHandler /\ UNCHANGED app_vars

Next ==
    \/ \E e \in Event : WorkItem(e)
    \/ CmdButton
    \/ \E l \in LED, m \in Mode : CmdLedSet(l, m)
    \/ \E t \in Thread : ThreadStep(t)
    \/ TimerInterrupt
    \/ OtherTakesCtl
    \/ OtherGivesCtl

Spec == Init /\ [][Next]_vars

(* The kernel runs a ready thread and serves a due timer.  Strong fairness *)
(* for the shell: the work items leave it time now and again.              *)
Fairness ==
    /\ WF_vars(TimerInterrupt)
    /\ WF_vars(ThreadStep("sysworkq"))
    /\ SF_vars(ThreadStep("shell"))

FairSpec == Spec /\ Fairness

----------------------------------------------------------------------------
(* Properties.                                                             *)

SignalOf(s) == IF s = "SLEEP" THEN "OFF" ELSE "POWER_SIGNAL"

(* While nobody publishes an event, sys_ctrl, the channel and LED0 agree   *)
(* on the state of the system, whoever pressed the button and however the  *)
(* presses of the work queue and of the shell overlapped.                  *)
Agreement ==
    event_lock = Nobody =>
        sys_state = sys_ctl_ch /\ mode[0] = SignalOf(sys_ctl_ch)

(* Whenever sys_ctrl's publication completes, the channel and LED0 show    *)
(* the current state: a publication that failed is made good by the next,  *)
(* because the message carries the state and not the toggle.               *)
PublishedStateIsCurrent ==
    [][(ctl_lock \in Thread) /\ ctl_lock' = Nobody =>
         sys_state = sys_ctl_ch /\ mode[0] = SignalOf(sys_ctl_ch)]_vars

(* sys_ctrl never has to wait for sys_ctl_ch: event_ch's lock already      *)
(* keeps every other publisher away.                                       *)
NestedPubNeverWaits == \A t \in Thread : pc[t] = "take_ctl" => ctl_lock = Nobody

(* app/README.rst: in ACTIVE the LED blinks.  With every thread idle, LED0 *)
(* has its signal mode and a timer to drive it.                            *)
ActiveBlinks ==
    (\A t \in Thread : Idle(t)) /\ sys_state = "ACTIVE" =>
        mode[0] = "POWER_SIGNAL" /\ timer

(* A publisher that took event_ch gives it back.                           *)
EventChannelIsReleased == event_lock # Nobody ~> event_lock = Nobody

(* An LED left in ACTIVE is lit and dark over and over.                    *)
ActiveKeepsBlinking ==
    <>[](sys_state = "ACTIVE") => []<>pin[0] /\ []<>~pin[0]

(* A pulse and an alarm end by themselves.                                 *)
TimedModesEnd ==
    \A m \in {"SENSOR_PULSE", "ALARM"} : mode[1] = m ~> mode[1] # m

(* The application implements the toggle its user sees.                    *)
Toggle == INSTANCE SysToggle WITH sys <- sys_state, signal <- mode[0] # "OFF"
ImplementsToggle == Toggle!Spec

(* The safety part of it, which has a proof.                               *)
ImplementsToggleSafety == Toggle!Safety

----------------------------------------------------------------------------
(* What holds of the channels on every platform: a thread has the locks    *)
(* its place in the chain of calls needs, and a message of its channel.    *)

HoldsEvent == {"led_event", "sys_ctrl", "take_ctl", "led_sys_ctl", "give_ctl", "give"}
HoldsCtl   == {"led_sys_ctl", "give_ctl"}

LockInv ==
    /\ \A t \in Thread : pc[t] \in HoldsEvent <=> event_lock = t
    /\ \A t \in Thread : pc[t] \in HoldsCtl <=> ctl_lock = t
    /\ ctl_lock = Outsider => OTHER_CTL_USER

MsgInv ==
    \A t \in Thread :
        /\ pc[t] = "take" => msg[t] \in Event
        /\ pc[t] = "take_ctl" => msg[t] \in SysState

ChannelInv == TypeOK /\ LockInv /\ MsgInv

----------------------------------------------------------------------------
(* The inductive invariant, for an application whose "led set" leaves LED0 *)
(* alone and in which nobody else uses sys_ctl_ch.                         *)

(* Only the nested publication switches LED0, and to the channel's state.  *)
CallInv ==
    \A t \in Thread :
        /\ call[t].at = "store" \/ call[t].todo = {}
        /\ InCall(t) => \/ call[t].led = 1 /\ pc[t] \in {"idle", "sys_ctrl"}
                        \/ /\ call[t].led = 0 /\ pc[t] = "give_ctl"
                           /\ call[t].mode = SignalOf(sys_ctl_ch)

Settled == sys_state = sys_ctl_ch /\ mode[0] = SignalOf(sys_ctl_ch)

(* How far sys_state, the channel and LED0 have got with a toggle.         *)
StageInv ==
    /\ mode[0] \in {"OFF", "POWER_SIGNAL"}
    /\ (\A t \in Thread : pc[t] \notin HoldsCtl \cup {"take_ctl"}) => Settled
    /\ \A t \in Thread :
         /\ pc[t] = "take" => msg[t] \in Event
         /\ pc[t] = "take_ctl" =>
              /\ msg[t] = sys_state /\ sys_state # sys_ctl_ch
              /\ mode[0] = SignalOf(sys_ctl_ch)
         /\ pc[t] = "led_sys_ctl" =>
              sys_state = sys_ctl_ch /\ mode[0] # SignalOf(sys_ctl_ch)
         /\ pc[t] = "give_ctl" =>
              /\ sys_state = sys_ctl_ch
              /\ (mode[0] = SignalOf(sys_ctl_ch))
                   <=> ~(InCall(t) /\ "mode" \in call[t].todo)

(* Without "led set", set_led_mode() runs only under event_ch's lock.      *)
NoBareCall == \A t \in Thread : InCall(t) => pc[t] # "idle"

AppInv == TypeOK /\ LockInv /\ CallInv /\ StageInv

----------------------------------------------------------------------------
(* The inductive invariant on native_sim, whatever the shell commands are  *)
(* used for and whoever else holds sys_ctl_ch.                             *)

Busy(t) == ~Idle(t) /\ ~Waiting(t)

(* A busy thread goes on until it waits or is done.                        *)
OneBusy == \A t, u \in Thread : Busy(t) /\ Busy(u) => t = u

(* A thread's own progress.  While the state is on its way to LED0 nothing *)
(* else runs that could change it: "led set" comes before or after.        *)
NativeThread(t) ==
    /\ call[t].at = "store" \/ call[t].todo = {}
    /\ InCall(t) => pc[t] \in {"idle", "sys_ctrl", "give_ctl"}
    /\ pc[t] = "take" => msg[t] \in Event
    /\ pc[t] = "take_ctl" => msg[t] = sys_state
    /\ pc[t] \in HoldsCtl => sys_state = sys_ctl_ch
    /\ pc[t] = "give_ctl" =>
         /\ InCall(t) => call[t].led = 0 /\ call[t].mode = SignalOf(sys_ctl_ch)
         /\ mode[0] = SignalOf(sys_ctl_ch) \/ (InCall(t) /\ "mode" \in call[t].todo)

NativeInv == TypeOK /\ LockInv /\ OneBusy /\ \A t \in Thread : NativeThread(t)
=============================================================================
