----------------------------- MODULE AppProofs -----------------------------
(* Theorems about module App, for every set of published events, every     *)
(* tick count and both platforms.                                          *)
EXTENDS App, LedProofs

(* The channels, whatever else the threads do.                             *)

LEMMA ChannelInit == Init => ChannelInv
<1> SUFFICES ASSUME Init PROVE ChannelInv
  OBVIOUS
<1>1. TypeOK
  BY InitTypeOK DEF Init, TypeOK, SysState, Event, Pc
<1>2. LockInv /\ MsgInv
  BY AppAssumption DEF Init, LockInv, MsgInv, HoldsEvent, HoldsCtl, Nobody, Outsider
<1> QED BY <1>1, <1>2 DEF ChannelInv

(* How a step moves a thread, its locks and its message.                   *)
LEMMA ChannelStep ==
    ASSUME ChannelInv, LedTypeOK', NEW t \in Thread,
           \/ UNCHANGED app_vars
           \/ (\E e \in Event : Publish(t, e)) \/ TakeEvent(t) \/ EventPubFails(t)
           \/ /\ pc[t] = "led_event" /\ Goto(t, "sys_ctrl")
              /\ UNCHANGED <<sys_state, event_ch, event_lock, sys_ctl_ch, ctl_lock, msg>>
           \/ SysCtrlButtonMsgCb(t) \/ GiveEvent(t) \/ TakeCtl(t) \/ CtlPubFails(t)
           \/ /\ pc[t] = "led_sys_ctl" /\ Goto(t, "give_ctl")
              /\ UNCHANGED <<sys_state, event_ch, event_lock, sys_ctl_ch, ctl_lock, msg>>
           \/ GiveCtl(t) \/ OtherTakesCtl \/ OtherGivesCtl
    PROVE  ChannelInv'
<1> USE AppAssumption DEF ChannelInv, Goto
<1>1. CASE UNCHANGED app_vars
  BY <1>1 DEF app_vars, TypeOK, LockInv, MsgInv
<1>2. CASE \E e \in Event : Publish(t, e)
  <2>1. TypeOK' /\ MsgInv'
    BY <1>2 DEF Publish, Idle, TypeOK, MsgInv, Pc
  <2>2. LockInv'
    BY <1>2 DEF Publish, Idle, TypeOK, LockInv, HoldsEvent, HoldsCtl
  <2> QED BY <2>1, <2>2
<1>3. CASE TakeEvent(t)
  <2>1. TypeOK' /\ MsgInv'
    BY <1>3 DEF TakeEvent, TypeOK, MsgInv, Pc
  <2>2. LockInv'
    BY <1>3 DEF TakeEvent, EventFree, TypeOK, LockInv, HoldsEvent, HoldsCtl, Nobody, Outsider
  <2> QED BY <2>1, <2>2
<1>4. CASE EventPubFails(t)
  <2>1. TypeOK' /\ MsgInv'
    BY <1>4 DEF EventPubFails, TypeOK, MsgInv, Pc
  <2>2. LockInv'
    BY <1>4 DEF EventPubFails, TypeOK, LockInv, HoldsEvent, HoldsCtl
  <2> QED BY <2>1, <2>2
<1>5. CASE /\ \/ pc[t] = "led_event" /\ pc' = [pc EXCEPT ![t] = "sys_ctrl"]
              \/ pc[t] = "led_sys_ctl" /\ pc' = [pc EXCEPT ![t] = "give_ctl"]
           /\ UNCHANGED <<sys_state, event_ch, event_lock, sys_ctl_ch, ctl_lock, msg>>
  <2>1. TypeOK' /\ MsgInv'
    BY <1>5 DEF TypeOK, MsgInv, Pc
  <2>2. LockInv'
    BY <1>5 DEF TypeOK, LockInv, HoldsEvent, HoldsCtl
  <2> QED BY <2>1, <2>2
<1>6. CASE SysCtrlButtonMsgCb(t)
  <2>1. TypeOK' /\ MsgInv'
    BY <1>6 DEF SysCtrlButtonMsgCb, Announced, Other, TypeOK, MsgInv, Pc, SysState
  <2>2. LockInv'
    BY <1>6 DEF SysCtrlButtonMsgCb, TypeOK, LockInv, HoldsEvent, HoldsCtl
  <2> QED BY <2>1, <2>2
<1>7. CASE GiveEvent(t)
  <2>1. TypeOK' /\ MsgInv'
    BY <1>7 DEF GiveEvent, TypeOK, MsgInv, Pc
  <2>2. LockInv'
    BY <1>7 DEF GiveEvent, TypeOK, LockInv, HoldsEvent, HoldsCtl, Nobody, Outsider
  <2> QED BY <2>1, <2>2
<1>8. CASE TakeCtl(t)
  <2>1. TypeOK' /\ MsgInv'
    BY <1>8 DEF TakeCtl, TypeOK, MsgInv, Pc
  <2>2. LockInv'
    BY <1>8 DEF TakeCtl, TypeOK, LockInv, HoldsEvent, HoldsCtl, Nobody, Outsider
  <2> QED BY <2>1, <2>2
<1>9. CASE CtlPubFails(t)
  <2>1. TypeOK' /\ MsgInv'
    BY <1>9 DEF CtlPubFails, TypeOK, MsgInv, Pc
  <2>2. LockInv'
    BY <1>9 DEF CtlPubFails, TypeOK, LockInv, HoldsEvent, HoldsCtl
  <2> QED BY <2>1, <2>2
<1>10. CASE GiveCtl(t)
  <2>1. TypeOK' /\ MsgInv'
    BY <1>10 DEF GiveCtl, TypeOK, MsgInv, Pc
  <2>2. LockInv'
    BY <1>10 DEF GiveCtl, TypeOK, LockInv, HoldsEvent, HoldsCtl, Nobody, Outsider
  <2> QED BY <2>1, <2>2
<1>11. CASE OtherTakesCtl \/ OtherGivesCtl
  BY <1>11 DEF OtherTakesCtl, OtherGivesCtl, TypeOK, LockInv, MsgInv, Nobody, Outsider
<1> QED BY <1>1, <1>2, <1>3, <1>4, <1>5, <1>6, <1>7, <1>8, <1>9, <1>10, <1>11

LEMMA LedKeepsTypes ==
    ASSUME ChannelInv, [Next]_vars
    PROVE  LedTypeOK'
<1>1. LedTypeOK
  BY DEF ChannelInv, TypeOK
<1>2. CASE UNCHANGED led_vars
  BY <1>1, <1>2 DEF led_vars, LedTypeOK
<1>3. CASE \E t \in Thread, l \in LED, m \in Mode : SetLedMode(t, l, m)
  BY <1>1, <1>3, CallTypeOK
<1>4. CASE Inside
  BY <1>1, <1>4, InsideTypeOK
<1>5. CASE LedTimerHandler
  BY <1>1, <1>5, HandlerTypeOK
<1>6. \/ UNCHANGED led_vars \/ Inside \/ LedTimerHandler
      \/ \E t \in Thread, l \in LED, m \in Mode : SetLedMode(t, l, m)
  <2>1. CASE \E t \in Thread : ThreadStep(t)
    <3>1. PICK t \in Thread : ThreadStep(t)
      BY <2>1
    <3>2. CASE LedEventCb(t) \/ LedSysCtlCb(t)
      <4>1. UNCHANGED led_vars \/ \E l \in LED, m \in Mode : SetLedMode(t, l, m)
        BY <3>2 DEF LedEventCb, LedSysCtlCb, LedModeFor, LED, Mode
      <4> QED BY <4>1
    <3>3. CASE SetLedModeStep(t)
      BY <3>3 DEF SetLedModeStep, Inside
    <3> QED BY <3>1, <3>2, <3>3 DEF ThreadStep, TakeEvent, EventPubFails,
            SysCtrlButtonMsgCb, GiveEvent, TakeCtl, CtlPubFails, GiveCtl
  <2>2. CASE \E l \in LED, m \in Mode : CmdLedSet(l, m)
    BY <2>2, AppAssumption DEF CmdLedSet
  <2> QED BY <2>1, <2>2 DEF Next, WorkItem, CmdButton, Publish, TimerInterrupt,
          OtherTakesCtl, OtherGivesCtl, vars
<1> QED BY <1>2, <1>3, <1>4, <1>5, <1>6

LEMMA ChannelNext ==
    ASSUME ChannelInv, [Next]_vars
    PROVE  ChannelInv'
<1> USE AppAssumption, LedKeepsTypes
<1>1. CASE \E e \in Event : WorkItem(e)
  BY <1>1, ChannelStep DEF WorkItem
<1>2. CASE CmdButton
  BY <1>2, ChannelStep DEF CmdButton, Event
<1>3. CASE \E t \in Thread : ThreadStep(t)
  <2>1. PICK t \in Thread : ThreadStep(t)
    BY <1>3
  <2>2. CASE LedEventCb(t)
    BY <2>2, ChannelStep DEF LedEventCb
  <2>3. CASE LedSysCtlCb(t)
    BY <2>3, ChannelStep DEF LedSysCtlCb
  <2> QED BY <2>1, <2>2, <2>3, ChannelStep DEF ThreadStep, SetLedModeStep
<1>4. CASE UNCHANGED app_vars
  BY <1>4, ChannelStep
<1>5. CASE OtherTakesCtl \/ OtherGivesCtl
  BY <1>5, ChannelStep
<1> QED BY <1>1, <1>2, <1>3, <1>4, <1>5 DEF Next, CmdLedSet, TimerInterrupt, vars

(* Each lock is held by the thread whose place in the chain of calls says  *)
(* so, for every use of "led set" and whoever else takes sys_ctl_ch.       *)
THEOREM AppChannels == Spec => []ChannelInv
  BY ChannelInit, ChannelNext, PTL DEF Spec

(* The nested publication on sys_ctl_ch never waits for its lock, unless   *)
(* another thread uses that channel.                                       *)
THEOREM AppNestedPubNeverWaits ==
    ASSUME OTHER_CTL_USER = FALSE
    PROVE  Spec => []NestedPubNeverWaits
<1>1. ChannelInv => NestedPubNeverWaits
  <2> SUFFICES ASSUME ChannelInv, NEW t \in Thread, pc[t] = "take_ctl"
               PROVE  ctl_lock = Nobody
    BY DEF NestedPubNeverWaits
  <2>1. event_lock = t /\ ctl_lock # t
    BY DEF ChannelInv, LockInv, HoldsEvent, HoldsCtl
  <2>2. \A u \in Thread : pc[u] \in HoldsCtl => event_lock = u
    BY DEF ChannelInv, LockInv, HoldsEvent, HoldsCtl
  <2>3. ctl_lock \notin Thread
    BY <2>1, <2>2 DEF ChannelInv, LockInv
  <2> QED BY <2>3 DEF ChannelInv, LockInv, TypeOK
<1> QED BY <1>1, AppChannels, PTL

----------------------------------------------------------------------------
LEMMA AppInit == Init => AppInv
<1> SUFFICES ASSUME Init PROVE AppInv
  OBVIOUS
<1>1. LedTypeOK
  BY InitTypeOK DEF Init
<1>2. \A t \in Thread : ~InCall(t)
  BY DEF Init, LedInit, InCall, NoCall
<1>3. TypeOK
  BY <1>1 DEF Init, TypeOK, SysState, Event, Pc
<1>4. LockInv
  BY AppAssumption DEF Init, LockInv, HoldsEvent, HoldsCtl, Nobody, Outsider
<1>5. CallInv
  BY <1>2 DEF CallInv, Init, LedInit, NoCall
<1>6. StageInv
  BY DEF Init, LedInit, StageInv, Settled, SignalOf, LED
<1> QED BY <1>3, <1>4, <1>5, <1>6 DEF AppInv

(* Steps of the channels and of sys_ctrl leave the LEDs alone.             *)

LEMMA PublishStep ==
    ASSUME AppInv, NEW t \in Thread, NEW e \in Event, Publish(t, e)
    PROVE  AppInv'
<1> USE AppAssumption DEF AppInv, Publish, Goto, Idle, led_vars
<1>1. TypeOK'
  BY DEF TypeOK, LedTypeOK, Pc
<1>2. LockInv'
  BY DEF TypeOK, LockInv, HoldsEvent, HoldsCtl, Nobody, Outsider
<1>3. CallInv'
  BY DEF TypeOK, CallInv, InCall
<1>4. StageInv'
  BY DEF TypeOK, StageInv, LockInv, Settled, InCall, HoldsEvent, HoldsCtl, SignalOf, SysState, Event, Nobody
<1> QED BY <1>1, <1>2, <1>3, <1>4

LEMMA TakeEventStep ==
    ASSUME AppInv, NEW t \in Thread, TakeEvent(t)
    PROVE  AppInv'
<1> USE AppAssumption DEF AppInv, TakeEvent, EventFree, Goto, led_vars
<1>0. msg[t] \in Event
  BY DEF StageInv
<1>1. TypeOK'
  BY <1>0 DEF TypeOK, LedTypeOK, Pc
<1>2. LockInv'
  BY DEF TypeOK, LockInv, HoldsEvent, HoldsCtl, Nobody, Outsider
<1>3. CallInv'
  BY DEF TypeOK, CallInv, InCall
<1>4. StageInv'
  BY DEF TypeOK, StageInv, LockInv, Settled, InCall, HoldsEvent, HoldsCtl, SignalOf, SysState, Event, Nobody
<1> QED BY <1>1, <1>2, <1>3, <1>4

LEMMA EventPubFailsStep ==
    ASSUME AppInv, NEW t \in Thread, EventPubFails(t)
    PROVE  AppInv'
<1> USE AppAssumption DEF AppInv, EventPubFails, EventFree, Goto, led_vars
<1>1. TypeOK'
  BY DEF TypeOK, LedTypeOK, Pc
<1>2. LockInv'
  BY DEF TypeOK, LockInv, HoldsEvent, HoldsCtl, Nobody, Outsider
<1>3. CallInv'
  BY DEF TypeOK, CallInv, InCall
<1>4. StageInv'
  BY DEF TypeOK, StageInv, LockInv, Settled, InCall, HoldsEvent, HoldsCtl, SignalOf, SysState, Event, Nobody
<1> QED BY <1>1, <1>2, <1>3, <1>4

LEMMA SysCtrlStep ==
    ASSUME AppInv, NEW t \in Thread, SysCtrlButtonMsgCb(t)
    PROVE  AppInv'
<1> USE AppAssumption DEF AppInv, SysCtrlButtonMsgCb, Announced, Other, Goto, led_vars, SysState
<1>1. TypeOK'
  BY DEF TypeOK, LedTypeOK, Pc
<1>2. LockInv'
  BY DEF TypeOK, LockInv, HoldsEvent, HoldsCtl, Nobody, Outsider
<1>3. CallInv'
  BY DEF TypeOK, CallInv, InCall
<1>4. StageInv'
  BY DEF TypeOK, StageInv, LockInv, Settled, InCall, HoldsEvent, HoldsCtl, SignalOf, SysState, Event, Nobody
<1> QED BY <1>1, <1>2, <1>3, <1>4

LEMMA GiveEventStep ==
    ASSUME AppInv, NEW t \in Thread, GiveEvent(t)
    PROVE  AppInv'
<1> USE AppAssumption DEF AppInv, GiveEvent, Goto, led_vars
<1>1. TypeOK'
  BY DEF TypeOK, LedTypeOK, Pc
<1>2. LockInv'
  BY DEF TypeOK, LockInv, HoldsEvent, HoldsCtl, Nobody, Outsider
<1>3. CallInv'
  BY DEF TypeOK, CallInv, InCall
<1>4. StageInv'
  BY DEF TypeOK, StageInv, LockInv, Settled, InCall, HoldsEvent, HoldsCtl, SignalOf, SysState, Event, Nobody
<1> QED BY <1>1, <1>2, <1>3, <1>4

LEMMA TakeCtlStep ==
    ASSUME AppInv, NEW t \in Thread, TakeCtl(t)
    PROVE  AppInv'
<1> USE AppAssumption DEF AppInv, TakeCtl, Goto, led_vars
<1>0. msg[t] \in SysState
  BY DEF StageInv, TypeOK
<1>1. TypeOK'
  BY <1>0 DEF TypeOK, LedTypeOK, Pc
<1>2. LockInv'
  BY DEF TypeOK, LockInv, HoldsEvent, HoldsCtl, Nobody, Outsider
<1>3. CallInv'
  BY DEF TypeOK, CallInv, InCall, LockInv, HoldsCtl, Nobody
<1>4. StageInv'
  BY DEF TypeOK, StageInv, LockInv, Settled, InCall, HoldsEvent, HoldsCtl, SignalOf, SysState, Event, Nobody
<1> QED BY <1>1, <1>2, <1>3, <1>4

LEMMA CtlPubFailsStep ==
    ASSUME OTHER_CTL_USER = FALSE, AppInv, NEW t \in Thread, CtlPubFails(t)
    PROVE  AppInv'
<1> USE AppAssumption DEF AppInv, CtlPubFails, Goto, led_vars
<1>1. TypeOK'
  BY DEF TypeOK, LedTypeOK, Pc
<1>2. LockInv'
  BY DEF TypeOK, LockInv, HoldsEvent, HoldsCtl, Nobody, Outsider
<1>3. CallInv'
  BY DEF TypeOK, CallInv, InCall
<1>4. StageInv'
  BY DEF TypeOK, StageInv, LockInv, Settled, InCall, HoldsEvent, HoldsCtl, SignalOf, SysState, Event, Nobody
<1> QED BY <1>1, <1>2, <1>3, <1>4

LEMMA GiveCtlStep ==
    ASSUME AppInv, NEW t \in Thread, GiveCtl(t)
    PROVE  AppInv'
<1> USE AppAssumption DEF AppInv, GiveCtl, Goto, led_vars
<1>1. TypeOK'
  BY DEF TypeOK, LedTypeOK, Pc
<1>2. LockInv'
  BY DEF TypeOK, LockInv, HoldsEvent, HoldsCtl, Nobody, Outsider
<1>3. CallInv'
  BY DEF TypeOK, CallInv, InCall
<1>4. StageInv'
  BY DEF TypeOK, StageInv, LockInv, Settled, InCall, HoldsEvent, HoldsCtl, SignalOf, SysState, Event, Nobody
<1> QED BY <1>1, <1>2, <1>3, <1>4

----------------------------------------------------------------------------
(* Steps that enter set_led_mode().                                        *)

(* What a call of set_led_mode() changes: nothing, or the caller's record. *)
LEMMA CallEffect ==
    ASSUME LedTypeOK, NEW t \in Thread, NEW l \in LED, NEW m \in Mode,
           SetLedMode(t, l, m)
    PROVE  /\ UNCHANGED <<mode, timer>> /\ ~InCall(t)
           /\ \A u \in Thread \ {t} : call'[u] = call[u]
           /\ mode[l] = m => call' = call
           /\ mode[l] # m =>
                /\ call'[t].at = "store" /\ call'[t].led = l /\ call'[t].mode = m
                /\ "mode" \in call'[t].todo
  BY DEF SetLedMode, Stores, LedTypeOK, inst_vars

LEMMA LedEventCbStep ==
    ASSUME AppInv, NEW t \in Thread, LedEventCb(t)
    PROVE  AppInv'
<1> USE AppAssumption DEF AppInv
<1>1. CASE UNCHANGED led_vars
  <2> USE <1>1 DEF LedEventCb, Goto, led_vars
  <2>1. TypeOK'
    BY DEF TypeOK, LedTypeOK, Pc
  <2>2. LockInv'
    BY DEF TypeOK, LockInv, HoldsEvent, HoldsCtl
  <2>3. CallInv'
    BY DEF TypeOK, CallInv, InCall
  <2>4. StageInv'
    BY DEF TypeOK, StageInv, LockInv, Settled, InCall, HoldsEvent, HoldsCtl, SignalOf
  <2> QED BY <2>1, <2>2, <2>3, <2>4
<1>2. ASSUME NEW m \in Mode, SetLedMode(t, 1, m)
      PROVE  AppInv'
  <2>0. 1 \in LED
    BY DEF LED
  <2>1. LedTypeOK /\ LedTypeOK'
    BY <1>2, <2>0, CallTypeOK DEF TypeOK
  <2>2. /\ UNCHANGED <<mode, timer>> /\ ~InCall(t)
        /\ \A u \in Thread \ {t} : call'[u] = call[u]
        /\ call' = call \/ (call'[t].led = 1 /\ call'[t].at = "store")
    BY <1>2, <2>0, <2>1, CallEffect
  <2>3. /\ pc[t] = "led_event" /\ pc' = [pc EXCEPT ![t] = "sys_ctrl"]
        /\ UNCHANGED <<sys_state, event_ch, event_lock, sys_ctl_ch, ctl_lock, msg>>
    BY DEF LedEventCb, Goto
  <2>4. TypeOK'
    BY <2>1, <2>3 DEF TypeOK, Pc
  <2>5. LockInv'
    BY <2>3 DEF TypeOK, LockInv, HoldsEvent, HoldsCtl
  <2>6. CallInv'
    BY <2>2, <2>3 DEF TypeOK, CallInv, InCall
  <2>7. StageInv'
    BY <2>2, <2>3 DEF TypeOK, StageInv, LockInv, Settled, InCall, HoldsEvent, HoldsCtl, SignalOf
  <2> QED BY <2>4, <2>5, <2>6, <2>7
<1>3. UNCHANGED led_vars \/ \E m \in Mode : SetLedMode(t, 1, m)
  BY DEF LedEventCb, Mode
<1> QED BY <1>1, <1>2, <1>3

LEMMA LedSysCtlCbStep ==
    ASSUME AppInv, NEW t \in Thread, LedSysCtlCb(t)
    PROVE  AppInv'
<1> USE AppAssumption DEF AppInv
<1> DEFINE m == SignalOf(sys_ctl_ch)
<1>0. 0 \in LED /\ m \in Mode
  BY DEF LED, Mode, SignalOf
<1>1. SetLedMode(t, 0, m)
  BY DEF LedSysCtlCb, LedModeFor, SignalOf
<1>2. LedTypeOK /\ LedTypeOK'
  BY <1>0, <1>1, CallTypeOK DEF TypeOK
<1>3. /\ pc[t] = "led_sys_ctl" /\ pc' = [pc EXCEPT ![t] = "give_ctl"]
      /\ UNCHANGED <<sys_state, event_ch, event_lock, sys_ctl_ch, ctl_lock, msg>>
  BY DEF LedSysCtlCb, Goto
<1>4. mode[0] # m /\ sys_state = sys_ctl_ch
  BY <1>3 DEF StageInv
<1> HIDE DEF m
<1>5. /\ UNCHANGED <<mode, timer>> /\ ~InCall(t)
      /\ \A u \in Thread \ {t} : call'[u] = call[u]
      /\ call'[t].at = "store" /\ call'[t].led = 0 /\ call'[t].mode = m
      /\ "mode" \in call'[t].todo
  BY <1>0, <1>1, <1>2, <1>4, CallEffect
<1> USE DEF m
<1>6. TypeOK'
  BY <1>2, <1>3 DEF TypeOK, Pc
<1>7. LockInv'
  BY <1>3 DEF TypeOK, LockInv, HoldsEvent, HoldsCtl
<1>8. CallInv'
  BY <1>3, <1>5 DEF TypeOK, CallInv, InCall, SignalOf
<1>9. StageInv'
  BY <1>3, <1>4, <1>5 DEF TypeOK, StageInv, LockInv, Settled, InCall, HoldsEvent, HoldsCtl, SignalOf
<1> QED BY <1>6, <1>7, <1>8, <1>9

(* "led set" on LED1 starts a call that will not touch LED0.               *)
LEMMA CmdLedSetStep ==
    ASSUME AppInv, 0 \notin SHELL_LEDS,
           NEW l \in LED, NEW m \in Mode, CmdLedSet(l, m)
    PROVE  AppInv'
<1> USE AppAssumption DEF AppInv
<1>1. l = 1 /\ "shell" \in Thread /\ UNCHANGED app_vars /\ SetLedMode("shell", l, m)
  BY DEF CmdLedSet, LED
<1>2. LedTypeOK /\ LedTypeOK'
  BY <1>1, CallTypeOK DEF TypeOK
<1>3. /\ UNCHANGED <<mode, timer>> /\ ~InCall("shell")
      /\ \A u \in Thread \ {"shell"} : call'[u] = call[u]
      /\ call' = call \/ (call'["shell"].led = 1 /\ call'["shell"].at = "store")
  BY <1>1, <1>2, CallEffect
<1>4. pc["shell"] = "idle"
  BY DEF CmdLedSet
<1> USE <1>1 DEF app_vars
<1>5. TypeOK' /\ LockInv'
  BY <1>2 DEF TypeOK, LockInv
<1>6. CallInv'
  BY <1>3, <1>4 DEF CallInv, InCall
<1>7. StageInv'
  BY <1>3, <1>4 DEF StageInv, Settled, InCall
<1> QED BY <1>5, <1>6, <1>7

----------------------------------------------------------------------------
(* Steps inside set_led_mode(), and the timer interrupt.                   *)

(* What a step of a call does: it stores the mode, or it leaves the modes  *)
(* alone and the call goes on, or it ends the call.                        *)
LEMMA InsideEffect ==
    ASSUME LedTypeOK, NEW t \in Thread, CallStepOf(t)
    PROVE  /\ InCall(t)
           /\ \A u \in Thread \ {t} : call'[u] = call[u]
           /\ \/ /\ "mode" \in call[t].todo /\ "mode" \notin call'[t].todo
                 /\ mode' = [mode EXCEPT ![call[t].led] = call[t].mode]
                 /\ call'[t].at # "none"
                 /\ call'[t].led = call[t].led /\ call'[t].mode = call[t].mode
                 /\ call'[t].at = "store" \/ (call[t].todo = {"mode"} /\ call'[t].todo = {})
              \/ /\ mode' = mode /\ call'[t].at # "none"
                 /\ "mode" \in call'[t].todo <=> "mode" \in call[t].todo
                 /\ call'[t].led = call[t].led /\ call'[t].mode = call[t].mode
                 /\ \/ call'[t].at = "store"
                    \/ call'[t].todo = {}
                    \/ call[t].at # "store" /\ call'[t].todo = call[t].todo
              \/ /\ mode' = mode /\ call'[t] = NoCall
                 /\ call[t].at # "store"
<1>1. CASE StoreField(t)
  <2>1. call[t].at = "store"
    BY <1>1 DEF StoreField
  <2>2. PICK f \in call[t].todo :
          /\ mode' = IF f = "mode" THEN [mode EXCEPT ![call[t].led] = call[t].mode] ELSE mode
          /\ call' = [call EXCEPT
                ![t].todo = call[t].todo \ {f},
                ![t].at = IF call[t].todo # {f} THEN "store"
                          ELSE IF call[t].mode = "OFF" THEN "set_state" ELSE "test_timer"]
    BY <1>1 DEF StoreField, AfterStores
  <2>3. /\ call'[t].led = call[t].led /\ call'[t].mode = call[t].mode
        /\ call'[t].todo = call[t].todo \ {f}
        /\ call'[t].at = IF call[t].todo # {f} THEN "store"
                         ELSE IF call[t].mode = "OFF" THEN "set_state" ELSE "test_timer"
        /\ \A u \in Thread \ {t} : call'[u] = call[u]
    BY <2>2 DEF LedTypeOK
  <2>4. /\ call[t].todo = {f} => call'[t].todo = {}
        /\ call'[t].at # "none" /\ InCall(t)
        /\ call'[t].at = "store" \/ call[t].todo = {f}
    BY <2>1, <2>3 DEF InCall
  <2>5. CASE f = "mode"
    <3>1. "mode" \in call[t].todo /\ "mode" \notin call'[t].todo
      BY <2>3, <2>5
    <3>2. mode' = [mode EXCEPT ![call[t].led] = call[t].mode]
      BY <2>2, <2>5
    <3>3. call'[t].at = "store" \/ (call[t].todo = {"mode"} /\ call'[t].todo = {})
      BY <2>4, <2>5
    <3> QED BY <2>3, <2>4, <3>1, <3>2, <3>3
  <2>6. CASE f # "mode"
    <3>1. mode' = mode /\ ("mode" \in call'[t].todo <=> "mode" \in call[t].todo)
      BY <2>2, <2>3, <2>6
    <3> QED BY <2>3, <2>4, <3>1
  <2> QED BY <2>5, <2>6
<1>2. CASE SetState(t) \/ SetPin(t) \/ TestTimer(t)
  <2>1. /\ mode' = mode /\ call[t].at \in {"set_state", "set_pin", "test_timer"}
        /\ \E a \in {"set_pin", "test_timer", "start_timer", "stop_timer"} :
             call' = [call EXCEPT ![t].at = a]
    BY <1>2 DEF SetState, SetPin, TestTimer, TimerChoice, inst_vars
  <2> QED BY <2>1 DEF InCall, LedTypeOK
<1>3. CASE SwitchTimer(t)
  BY <1>3 DEF SwitchTimer, InCall, LedTypeOK, inst_vars
<1> QED BY <1>1, <1>2, <1>3 DEF CallStepOf

LEMMA SetLedModeStepStep ==
    ASSUME AppInv, NEW t \in Thread, SetLedModeStep(t)
    PROVE  AppInv'
<1> USE AppAssumption DEF AppInv
<1>1. CallStepOf(t) /\ UNCHANGED app_vars
  BY DEF SetLedModeStep
<1>2. LedTypeOK /\ LedTypeOK'
  BY <1>1, InsideTypeOK DEF Inside, TypeOK
<1>3. TypeOK' /\ LockInv'
  BY <1>1, <1>2 DEF app_vars, TypeOK, LockInv
<1>4. /\ InCall(t) /\ call[t].led \in LED
      /\ \/ call[t].led = 1 /\ pc[t] # "give_ctl"
         \/ call[t].led = 0 /\ pc[t] = "give_ctl" /\ call[t].mode = SignalOf(sys_ctl_ch)
      /\ call[t].at = "store" \/ call[t].todo = {}
      /\ \A u \in Thread \ {t} : call'[u] = call[u]
  BY <1>1, <1>2, InsideEffect DEF CallInv, LedTypeOK
<1>5. CASE /\ "mode" \in call[t].todo /\ "mode" \notin call'[t].todo
           /\ mode' = [mode EXCEPT ![call[t].led] = call[t].mode]
           /\ call'[t].at # "none"
           /\ call'[t].led = call[t].led /\ call'[t].mode = call[t].mode
           /\ call'[t].at = "store" \/ (call[t].todo = {"mode"} /\ call'[t].todo = {})
  <2>1. CallInv'
    BY <1>1, <1>4, <1>5 DEF CallInv, InCall, app_vars
  <2>2. CASE call[t].led = 0
    <3>1. pc[t] = "give_ctl" /\ mode'[0] = SignalOf(sys_ctl_ch)
      BY <1>2, <1>4, <1>5, <2>2 DEF LedTypeOK
    <3>2. \A u \in Thread \ {t} : pc[u] \notin HoldsCtl \cup {"take_ctl"}
      BY <3>1 DEF LockInv, HoldsCtl, HoldsEvent
    <3> QED BY <1>1, <1>3, <1>4, <1>5, <2>1, <3>1, <3>2
            DEF StageInv, Settled, InCall, app_vars, HoldsCtl, SignalOf
  <2>3. CASE call[t].led = 1
    <3>1. mode'[0] = mode[0]
      BY <1>2, <1>5, <2>3 DEF LedTypeOK, LED
    <3>2. pc[t] # "give_ctl"
      BY <1>4, <2>3
    <3> QED BY <1>1, <1>3, <1>4, <1>5, <2>1, <3>1, <3>2
            DEF StageInv, Settled, InCall, app_vars, HoldsCtl, SignalOf
  <2> QED BY <1>4, <2>2, <2>3 DEF LED
<1>6. CASE /\ mode' = mode /\ call'[t].at # "none"
           /\ "mode" \in call'[t].todo <=> "mode" \in call[t].todo
           /\ call'[t].led = call[t].led /\ call'[t].mode = call[t].mode
           /\ \/ call'[t].at = "store"
              \/ call'[t].todo = {}
              \/ call[t].at # "store" /\ call'[t].todo = call[t].todo
  <2>1. CallInv'
    BY <1>1, <1>4, <1>6 DEF CallInv, InCall, app_vars
  <2>2. StageInv'
    BY <1>1, <1>4, <1>6 DEF StageInv, Settled, InCall, app_vars
  <2> QED BY <1>3, <2>1, <2>2
<1>7. CASE /\ mode' = mode /\ call'[t] = NoCall
           /\ call[t].at # "store"
  <2>1. call[t].todo = {} /\ call'[t].at = "none" /\ call'[t].todo = {}
    BY <1>4, <1>7 DEF NoCall
  <2>2. CallInv'
    BY <1>1, <1>4, <2>1 DEF CallInv, InCall, app_vars
  <2>3. StageInv'
    BY <1>1, <1>4, <1>7, <2>1 DEF StageInv, Settled, InCall, app_vars
  <2> QED BY <1>3, <2>2, <2>3
<1> QED BY <1>1, <1>2, <1>5, <1>6, <1>7, InsideEffect

(* The interrupt never ends the modes sys_ctrl gives LED0.                 *)
LEMMA TimerInterruptStep ==
    ASSUME AppInv, TimerInterrupt
    PROVE  AppInv'
<1> USE DEF AppInv
<1>1. LedTimerHandler /\ UNCHANGED app_vars
  BY DEF TimerInterrupt
<1>2. LedTypeOK'
  BY <1>1, HandlerTypeOK DEF TypeOK
<1>3. call' = call /\ mode'[0] = mode[0]
  BY <1>1 DEF LedTimerHandler, ModeEnds, StageInv, LED
<1>4. TypeOK' /\ LockInv' /\ CallInv'
  BY <1>1, <1>2, <1>3 DEF app_vars, TypeOK, LockInv, CallInv, InCall
<1>5. StageInv'
  BY <1>1, <1>3 DEF app_vars, StageInv, Settled, InCall
<1> QED BY <1>4, <1>5

----------------------------------------------------------------------------

LEMMA AppNext ==
    ASSUME 0 \notin SHELL_LEDS, OTHER_CTL_USER = FALSE, AppInv, [Next]_vars
    PROVE  AppInv'
<1>1. CASE \E e \in Event : WorkItem(e)
  BY <1>1, AppAssumption, PublishStep DEF WorkItem
<1>2. CASE CmdButton
  BY <1>2, AppAssumption, PublishStep DEF CmdButton, Event
<1>3. CASE \E l \in LED, m \in Mode : CmdLedSet(l, m)
  BY <1>3, CmdLedSetStep
<1>4. CASE \E t \in Thread : ThreadStep(t)
  BY <1>4, TakeEventStep, EventPubFailsStep, LedEventCbStep, SysCtrlStep, GiveEventStep,
     TakeCtlStep, CtlPubFailsStep, LedSysCtlCbStep, GiveCtlStep, SetLedModeStepStep
     DEF ThreadStep
<1>5. CASE TimerInterrupt
  BY <1>5, TimerInterruptStep
<1>6. CASE OtherTakesCtl \/ OtherGivesCtl
  BY <1>6 DEF AppInv, LockInv, OtherTakesCtl, OtherGivesCtl
<1>7. CASE UNCHANGED vars
  BY <1>7 DEF vars, app_vars, led_vars, AppInv, TypeOK, LedTypeOK, LockInv, CallInv,
     StageInv, Settled, InCall
<1> QED BY <1>1, <1>2, <1>3, <1>4, <1>5, <1>6, <1>7 DEF Next

(* The invariant of the application.                                       *)
THEOREM AppInvariant ==
    ASSUME 0 \notin SHELL_LEDS, OTHER_CTL_USER = FALSE
    PROVE  Spec => []AppInv
  BY AppInit, AppNext, PTL DEF Spec

(* sys_ctrl, sys_ctl_ch and LED0 agree whenever event_ch is free.          *)
THEOREM AppAgreement ==
    ASSUME 0 \notin SHELL_LEDS, OTHER_CTL_USER = FALSE
    PROVE  Spec => []Agreement
<1>1. AppInv => Agreement
  <2> SUFFICES ASSUME AppInv, event_lock = Nobody
               PROVE  Settled
    BY DEF Agreement, Settled
  <2>1. \A t \in Thread : pc[t] \notin HoldsEvent
    BY AppAssumption DEF AppInv, LockInv, Nobody
  <2> QED BY <2>1 DEF AppInv, StageInv, HoldsEvent, HoldsCtl
<1> QED BY <1>1, AppInvariant, PTL

----------------------------------------------------------------------------
(* The application implements the toggle its user sees.                    *)

LEMMA ToggleInit == Init => Toggle!Init
  BY DEF Init, LedInit, Toggle!Init, LED

LEMMA HolderIsAlone ==
    ASSUME AppInv, NEW t \in Thread, pc[t] \in HoldsEvent,
           NEW u \in Thread, u # t
    PROVE  pc[u] \notin HoldsEvent
  BY DEF AppInv, LockInv

(* sys_ctrl's toggle is the abstract press.                                *)
LEMMA PressStep ==
    ASSUME AppInv, NEW t \in Thread, SysCtrlButtonMsgCb(t)
    PROVE  Toggle!Press \/ UNCHANGED <<sys_state, mode>>
<1>1. CASE event_ch # "BUTTON_PRESSED"
  BY <1>1 DEF SysCtrlButtonMsgCb, led_vars
<1>2. CASE event_ch = "BUTTON_PRESSED"
  <2>1. /\ pc[t] = "sys_ctrl" /\ mode' = mode
        /\ sys_state' = IF sys_state = "SLEEP" THEN "ACTIVE" ELSE "SLEEP"
    BY <1>2 DEF SysCtrlButtonMsgCb, Other, led_vars
  <2>2. Settled
    BY <2>1, HolderIsAlone DEF AppInv, StageInv, HoldsEvent, HoldsCtl
  <2>3. (mode[0] # "OFF") <=> (sys_state = "ACTIVE")
    BY <2>2 DEF Settled, SignalOf, AppInv, TypeOK, SysState
  <2> QED BY <2>1, <2>3 DEF Toggle!Press, Toggle!Current
<1> QED BY <1>1, <1>2

(* The store of LED0's mode is the abstract step that follows the press.   *)
LEMMA FollowStep ==
    ASSUME AppInv, NEW t \in Thread, SetLedModeStep(t)
    PROVE  Toggle!Follow \/ UNCHANGED <<sys_state, mode[0]>>
<1>1. CallStepOf(t) /\ UNCHANGED app_vars /\ LedTypeOK
  BY DEF SetLedModeStep, AppInv, TypeOK
<1>2. CASE mode' = mode
  BY <1>1, <1>2 DEF app_vars
<1>3. CASE /\ "mode" \in call[t].todo /\ InCall(t)
           /\ mode' = [mode EXCEPT ![call[t].led] = call[t].mode]
  <2>1. CASE call[t].led = 1
    BY <1>1, <1>3, <2>1 DEF app_vars, LedTypeOK, LED
  <2>2. CASE call[t].led # 1
    <3>1. /\ call[t].led = 0 /\ pc[t] = "give_ctl"
          /\ call[t].mode = SignalOf(sys_ctl_ch)
      BY <1>3, <2>2 DEF AppInv, CallInv
    <3>2. /\ sys_state = sys_ctl_ch /\ mode[0] # SignalOf(sys_ctl_ch)
          /\ mode[0] \in {"OFF", "POWER_SIGNAL"}
      BY <1>3, <3>1 DEF AppInv, StageInv
    <3>3. mode'[0] = SignalOf(sys_state) /\ UNCHANGED sys_state
      BY <1>1, <1>3, <3>1, <3>2 DEF app_vars, LedTypeOK, LED
    <3>4. (mode[0] # "OFF") # (sys_state = "ACTIVE")
      BY <3>2 DEF SignalOf, AppInv, TypeOK, SysState
    <3>5. (mode'[0] # "OFF") = (sys_state = "ACTIVE")
      BY <3>3 DEF SignalOf, AppInv, TypeOK, SysState
    <3> QED BY <3>3, <3>4, <3>5 DEF Toggle!Follow, Toggle!Current
  <2> QED BY <2>1, <2>2
<1> QED BY <1>1, <1>2, <1>3, InsideEffect

LEMMA ToggleStep ==
    ASSUME AppInv, [Next]_vars
    PROVE  Toggle!Press \/ Toggle!Follow \/ UNCHANGED <<sys_state, mode[0]>>
<1>1. CASE \E e \in Event : WorkItem(e)
  BY <1>1 DEF WorkItem, Publish, led_vars
<1>2. CASE CmdButton
  BY <1>2 DEF CmdButton, Publish, led_vars
<1>3. CASE \E l \in LED, m \in Mode : CmdLedSet(l, m)
  BY <1>3 DEF CmdLedSet, SetLedMode, app_vars, inst_vars
<1>4. ASSUME NEW t \in Thread, ThreadStep(t)
      PROVE  Toggle!Press \/ Toggle!Follow \/ UNCHANGED <<sys_state, mode[0]>>
  <2>1. CASE SysCtrlButtonMsgCb(t)
    BY <2>1, PressStep
  <2>2. CASE SetLedModeStep(t)
    BY <2>2, FollowStep
  <2>3. CASE \/ TakeEvent(t) \/ EventPubFails(t) \/ GiveEvent(t)
             \/ TakeCtl(t) \/ CtlPubFails(t) \/ GiveCtl(t)
    BY <2>3 DEF TakeEvent, EventPubFails, GiveEvent, TakeCtl, CtlPubFails, GiveCtl, led_vars
  <2>4. CASE LedEventCb(t) \/ LedSysCtlCb(t)
    BY <2>4 DEF LedEventCb, LedSysCtlCb, SetLedMode, led_vars, inst_vars
  <2> QED BY <1>4, <2>1, <2>2, <2>3, <2>4 DEF ThreadStep
<1>5. CASE TimerInterrupt
  BY <1>5 DEF TimerInterrupt, LedTimerHandler, ModeEnds, AppInv, StageInv, LED, app_vars
<1>6. CASE OtherTakesCtl \/ OtherGivesCtl
  BY <1>6 DEF OtherTakesCtl, OtherGivesCtl, led_vars
<1>7. CASE UNCHANGED vars
  BY <1>7 DEF vars, app_vars, led_vars
<1> QED BY <1>1, <1>2, <1>3, <1>4, <1>5, <1>6, <1>7 DEF Next

(* Every behaviour of the application is one of SysToggle: a press is      *)
(* accepted only when LED0 shows the state the previous one chose.         *)
THEOREM AppImplementsToggle ==
    ASSUME 0 \notin SHELL_LEDS, OTHER_CTL_USER = FALSE
    PROVE  Spec => ImplementsToggleSafety
<1>1. AppInv /\ [Next]_vars => [Toggle!Next]_(Toggle!toggle_vars)
  BY ToggleStep DEF Toggle!Next, Toggle!toggle_vars
<1> QED BY <1>1, ToggleInit, AppInvariant, PTL
        DEF Spec, ImplementsToggleSafety, Toggle!Safety

----------------------------------------------------------------------------
(* Without "led set", event_ch's lock serialises the calls of              *)
(* set_led_mode(), and the LED component's guarantees carry over.          *)

LEMMA NoBareCallNext ==
    ASSUME SHELL_LEDS = {}, AppInv, NoBareCall, [Next]_vars
    PROVE  NoBareCall'
<1> USE DEF NoBareCall
<1>1. CASE (\E e \in Event : WorkItem(e)) \/ CmdButton
  BY <1>1, AppAssumption DEF WorkItem, CmdButton, Publish, Goto, Idle, InCall, led_vars,
     AppInv, TypeOK
<1>2. CASE \E l \in LED, m \in Mode : CmdLedSet(l, m)
  BY <1>2 DEF CmdLedSet
<1>3. ASSUME NEW t \in Thread, ThreadStep(t)
      PROVE  NoBareCall'
  <2>1. CASE \/ TakeEvent(t) \/ EventPubFails(t) \/ SysCtrlButtonMsgCb(t)
             \/ TakeCtl(t) \/ CtlPubFails(t) \/ GiveCtl(t) \/ GiveEvent(t)
    <3>1. call' = call
      BY <2>1 DEF TakeEvent, EventPubFails, SysCtrlButtonMsgCb, TakeCtl, CtlPubFails,
         GiveCtl, GiveEvent, led_vars
    <3>2. \/ \E p \in Pc \ {"idle"} : pc' = [pc EXCEPT ![t] = p]
          \/ pc[t] \in {"take", "give"} /\ pc' = [pc EXCEPT ![t] = "idle"]
      BY <2>1 DEF TakeEvent, EventPubFails, SysCtrlButtonMsgCb, TakeCtl, CtlPubFails,
         GiveCtl, GiveEvent, Goto, Pc
    <3>3. pc[t] \in {"take", "give"} => ~InCall(t)
      BY DEF AppInv, CallInv
    <3> QED BY <3>1, <3>2, <3>3 DEF InCall, AppInv, TypeOK
  <2>2. CASE LedEventCb(t) \/ LedSysCtlCb(t)
    <3>1. \A u \in Thread \ {t} : call'[u] = call[u] /\ pc'[u] = pc[u]
      BY <2>2 DEF LedEventCb, LedSysCtlCb, SetLedMode, Goto, led_vars, AppInv, TypeOK, LedTypeOK
    <3>2. pc'[t] # "idle"
      BY <2>2 DEF LedEventCb, LedSysCtlCb, Goto, AppInv, TypeOK
    <3> QED BY <3>1, <3>2 DEF InCall
  <2>3. CASE SetLedModeStep(t)
    <3>1. LedTypeOK /\ CallStepOf(t) /\ pc' = pc
      BY <2>3 DEF SetLedModeStep, app_vars, AppInv, TypeOK
    <3>2. InCall(t) /\ \A u \in Thread \ {t} : call'[u] = call[u]
      BY <3>1, InsideEffect
    <3> QED BY <3>1, <3>2 DEF InCall
  <2> QED BY <1>3, <2>1, <2>2, <2>3 DEF ThreadStep
<1>4. CASE TimerInterrupt \/ OtherTakesCtl \/ OtherGivesCtl \/ UNCHANGED vars
  BY <1>4 DEF TimerInterrupt, LedTimerHandler, OtherTakesCtl, OtherGivesCtl, vars,
     app_vars, led_vars, InCall
<1> QED BY <1>1, <1>2, <1>3, <1>4 DEF Next

(* Every step of the application is a serialised step of the component.    *)
LEMMA SerialStep ==
    ASSUME SHELL_LEDS = {}, AppInv, NoBareCall, [Next]_vars
    PROVE  [SerialLedNext]_led_vars
<1>1. CASE (\E e \in Event : WorkItem(e)) \/ CmdButton
  BY <1>1 DEF WorkItem, CmdButton, Publish
<1>2. CASE \E l \in LED, m \in Mode : CmdLedSet(l, m)
  BY <1>2 DEF CmdLedSet
<1>3. ASSUME NEW t \in Thread, ThreadStep(t)
      PROVE  [SerialLedNext]_led_vars
  <2>1. CASE \/ TakeEvent(t) \/ EventPubFails(t) \/ SysCtrlButtonMsgCb(t)
             \/ TakeCtl(t) \/ CtlPubFails(t) \/ GiveCtl(t) \/ GiveEvent(t)
    BY <2>1 DEF TakeEvent, EventPubFails, SysCtrlButtonMsgCb, TakeCtl, CtlPubFails,
       GiveCtl, GiveEvent
  <2>2. CASE LedEventCb(t) \/ LedSysCtlCb(t)
    <3>1. pc[t] \in HoldsEvent
      BY <2>2 DEF LedEventCb, LedSysCtlCb, HoldsEvent
    <3>2. \A u \in Thread \ {t} : ~InCall(u)
      BY <3>1, HolderIsAlone DEF AppInv, CallInv, NoBareCall, HoldsEvent
    <3>3. UNCHANGED led_vars \/ \E l \in LED, m \in Mode : SetLedMode(t, l, m)
      BY <2>2 DEF LedEventCb, LedSysCtlCb, LedModeFor, LED, Mode
    <3>4. CASE \E l \in LED, m \in Mode : SetLedMode(t, l, m)
      <4>1. ~InCall(t)
        BY <3>4 DEF SetLedMode
      <4> QED BY <3>2, <3>4, <4>1 DEF SerialLedNext, SerialCall, Call
    <3> QED BY <3>3, <3>4
  <2>3. CASE SetLedModeStep(t)
    BY <2>3 DEF SetLedModeStep, SerialLedNext, Inside
  <2> QED BY <1>3, <2>1, <2>2, <2>3 DEF ThreadStep
<1>4. CASE TimerInterrupt
  BY <1>4 DEF TimerInterrupt, SerialLedNext
<1>5. CASE OtherTakesCtl \/ OtherGivesCtl \/ UNCHANGED vars
  BY <1>5 DEF OtherTakesCtl, OtherGivesCtl, vars
<1> QED BY <1>1, <1>2, <1>3, <1>4, <1>5 DEF Next

(* event_ch's lock serialises the calls of set_led_mode().                 *)
THEOREM AppSerialisesLed ==
    ASSUME SHELL_LEDS = {}, OTHER_CTL_USER = FALSE
    PROVE  Spec => SerialLedSpec
<1>1. 0 \notin SHELL_LEDS
  OBVIOUS
<1>2. Init => NoBareCall /\ LedInit
  BY DEF Init, LedInit, NoBareCall, InCall, NoCall
<1>3. AppInv /\ NoBareCall /\ [Next]_vars => NoBareCall'
  BY NoBareCallNext
<1>4. AppInv /\ NoBareCall /\ [Next]_vars => [SerialLedNext]_led_vars
  BY SerialStep
<1>5. Spec => []AppInv
  BY <1>1, AppInvariant
<1> QED BY <1>2, <1>3, <1>4, <1>5, PTL DEF Spec, SerialLedSpec

(* With every thread idle in ACTIVE, LED0 has its mode and its timer.      *)
THEOREM AppActiveBlinks ==
    ASSUME SHELL_LEDS = {}, OTHER_CTL_USER = FALSE
    PROVE  Spec => []ActiveBlinks
<1>1. 0 \notin SHELL_LEDS
  OBVIOUS
<1>2. AppInv /\ ActiveLedIsTimed => ActiveBlinks
  <2> SUFFICES ASSUME AppInv, ActiveLedIsTimed, \A t \in Thread : Idle(t),
                      sys_state = "ACTIVE"
               PROVE  mode[0] = "POWER_SIGNAL" /\ timer
    BY DEF ActiveBlinks
  <2>1. Settled
    BY DEF AppInv, StageInv, Idle, HoldsCtl
  <2>2. mode[0] = "POWER_SIGNAL"
    BY <2>1 DEF Settled, SignalOf
  <2> QED BY <2>2 DEF ActiveLedIsTimed, AnyLedNeedsTimer, LED, Idle
<1>3. Spec => []AppInv
  BY <1>1, AppInvariant
<1>4. Spec => []ActiveLedIsTimed
  BY AppSerialisesLed, SerialActiveLedIsTimed
<1> QED BY <1>2, <1>3, <1>4, PTL

----------------------------------------------------------------------------
(* native_sim, whatever "led set" is used on and whoever holds sys_ctl_ch. *)

LEMMA NativeInit == Init => NativeInv
<1> SUFFICES ASSUME Init PROVE NativeInv
  OBVIOUS
<1>1. LedTypeOK
  BY InitTypeOK DEF Init
<1>2. \A t \in Thread : ~InCall(t) /\ call[t].todo = {}
  BY DEF Init, LedInit, InCall, NoCall
<1>3. TypeOK
  BY <1>1 DEF Init, TypeOK, SysState, Event, Pc
<1>4. LockInv
  BY AppAssumption DEF Init, LockInv, HoldsEvent, HoldsCtl, Nobody, Outsider
<1>5. OneBusy /\ \A t \in Thread : NativeThread(t)
  BY <1>2 DEF Init, OneBusy, Busy, Idle, NativeThread, HoldsCtl
<1> QED BY <1>3, <1>4, <1>5 DEF NativeInv

(* A thread that rests is outside its listeners and set_led_mode().        *)
LEMMA Resting ==
    ASSUME NativeInv, NEW u \in Thread, ~Busy(u)
    PROVE  ~InCall(u) /\ pc[u] \in {"idle", "take", "take_ctl"}
  BY DEF NativeInv, NativeThread, Busy, Idle, Waiting

(* On native_sim a thread takes a step only while the others rest.         *)
LEMMA OthersRest ==
    ASSUME PREEMPTIVE = FALSE, NativeInv, NEW t \in Thread, ThreadStep(t)
    PROVE  \A u \in Thread \ {t} : ~Busy(u)
<1>1. CASE Busy(t)
  BY <1>1 DEF NativeInv, OneBusy
<1>2. CASE ~Busy(t)
  <2>1. ~InCall(t) /\ pc[t] \in {"idle", "take", "take_ctl"}
    BY <1>2, Resting
  <2>2. EventPubFails(t) \/ CtlPubFails(t) \/ TakeEvent(t) \/ TakeCtl(t)
    <3>1. ~SetLedModeStep(t)
      BY <2>1, InsideEffect DEF SetLedModeStep, NativeInv, TypeOK
    <3> QED BY <2>1, <3>1 DEF ThreadStep, LedEventCb, SysCtrlButtonMsgCb, GiveEvent,
            LedSysCtlCb, GiveCtl
  <2>3. ~TakeEvent(t) /\ ~TakeCtl(t)
    BY <1>2 DEF TakeEvent, TakeCtl, Busy, Idle, Waiting
  <2>4. InterruptMayRun
    <3>1. pc[t] = "take" => msg[t] # "TEMP_ALERT"
      BY <1>2 DEF Busy, Idle, Waiting
    <3> QED BY <2>2, <2>3, <3>1 DEF EventPubFails, CtlPubFails
  <2> QED BY <2>4 DEF InterruptMayRun, Busy
<1> QED BY <1>1, <1>2

(* A step of one thread, while the others rest: they go on resting unless  *)
(* it releases what one of them waits for and rests itself.                *)
LEMMA NativeStep ==
    ASSUME NativeInv, TypeOK', LockInv', NEW t \in Thread, NativeThread(t)',
           \A u \in Thread \ {t} : /\ ~Busy(u)
                                  /\ pc'[u] = pc[u] /\ call'[u] = call[u] /\ msg'[u] = msg[u],
           \/ event_lock # Nobody => event_lock' # Nobody
           \/ pc'[t] = "idle" /\ ~InCall(t)',
           ctl_lock # Nobody => ctl_lock' # Nobody \/ event_lock = t,
           sys_state' = sys_state \/ event_lock = t
    PROVE  NativeInv'
<1>0. \A u \in Thread \ {t} : ~InCall(u) /\ pc[u] \in {"idle", "take", "take_ctl"}
  BY Resting
<1>1. \A u \in Thread \ {t} : NativeThread(u)'
  <2> SUFFICES ASSUME NEW u \in Thread \ {t} PROVE NativeThread(u)'
    OBVIOUS
  <2>1. pc[u] = "take_ctl" => sys_state' = sys_state
    BY DEF NativeInv, LockInv, HoldsEvent
  <2>2. NativeThread(u)
    BY DEF NativeInv
  <2> QED BY <1>0, <2>1, <2>2 DEF NativeThread, InCall, HoldsCtl
<1>2. OneBusy'
  <2>1. CASE pc'[t] = "idle" /\ ~InCall(t)'
    <3>1. ~Busy(t)'
      BY <2>1 DEF Busy, Idle
    <3>2. \A u, v \in Thread \ {t} : u = v
      BY AppAssumption
    <3> QED BY <3>1, <3>2 DEF OneBusy
  <2>2. CASE event_lock # Nobody => event_lock' # Nobody
    <3>1. ASSUME NEW u \in Thread \ {t} PROVE ~Busy(u)'
      <4>1. Idle(u) \/ Waiting(u)
        BY DEF Busy
      <4>2. CASE Idle(u)
        BY <4>2 DEF Busy, Idle, InCall
      <4>3. CASE pc[u] = "take" /\ event_lock # Nobody /\ msg[u] # "TEMP_ALERT"
        BY <2>2, <4>3 DEF Busy, Waiting, EventFree
      <4>4. CASE pc[u] = "take_ctl" /\ ctl_lock # Nobody
        <5>1. event_lock # t
          BY <4>4 DEF NativeInv, LockInv, HoldsEvent
        <5> QED BY <4>4, <5>1 DEF Busy, Waiting
      <4> QED BY <4>1, <4>2, <4>3, <4>4 DEF Waiting, EventFree
    <3> QED BY <3>1 DEF OneBusy
  <2> QED BY <2>1, <2>2
<1> QED BY <1>1, <1>2 DEF NativeInv

LEMMA NativePublish ==
    ASSUME PREEMPTIVE = FALSE, NativeInv,
           (\E e \in Event : WorkItem(e)) \/ CmdButton
    PROVE  NativeInv'
<1> USE AppAssumption
<1>1. PICK t \in Thread, e \in Event :
        Publish(t, e) /\ \A u \in Thread \ {t} : ~Busy(u)
  BY DEF WorkItem, CmdButton, InterruptMayRun, MayRun, Busy, Event
<1> USE <1>1 DEF Publish, Goto, Idle, led_vars
<1>2. TypeOK'
  BY DEF NativeInv, TypeOK, LedTypeOK, Pc
<1>3. LockInv'
  BY DEF NativeInv, TypeOK, LockInv, HoldsEvent, HoldsCtl, Nobody, Outsider
<1>4. NativeThread(t)'
  BY DEF NativeInv, TypeOK, NativeThread, InCall, HoldsCtl
<1>5. \A u \in Thread \ {t} : pc'[u] = pc[u] /\ call'[u] = call[u] /\ msg'[u] = msg[u]
  BY DEF NativeInv, TypeOK
<1>6. UNCHANGED <<event_lock, ctl_lock, sys_state>>
  OBVIOUS
<1> QED BY <1>1, <1>2, <1>3, <1>4, <1>5, <1>6, NativeStep

(* Steps of the channels and of sys_ctrl.                                  *)
LEMMA NativeChannelStep ==
    ASSUME PREEMPTIVE = FALSE, NativeInv, NEW t \in Thread, ThreadStep(t),
           \/ TakeEvent(t) \/ EventPubFails(t) \/ SysCtrlButtonMsgCb(t) \/ GiveEvent(t)
           \/ TakeCtl(t) \/ CtlPubFails(t) \/ GiveCtl(t)
    PROVE  NativeInv'
<1> USE AppAssumption
<1>1. \A u \in Thread \ {t} : ~Busy(u)
  BY OthersRest
<1>2. TypeOK /\ LockInv /\ NativeThread(t)
  BY DEF NativeInv
<1>3. UNCHANGED led_vars
  BY DEF TakeEvent, EventPubFails, SysCtrlButtonMsgCb, GiveEvent, TakeCtl, CtlPubFails, GiveCtl
<1>4. \A u \in Thread \ {t} : pc'[u] = pc[u] /\ call'[u] = call[u] /\ msg'[u] = msg[u]
  BY <1>2, <1>3 DEF TakeEvent, EventPubFails, SysCtrlButtonMsgCb, GiveEvent, TakeCtl,
     CtlPubFails, GiveCtl, Goto, TypeOK, led_vars
<1>5. CASE TakeEvent(t)
  <2> USE <1>2, <1>3, <1>5 DEF TakeEvent, EventFree, Goto, led_vars
  <2>1. TypeOK'
    BY DEF TypeOK, LedTypeOK, Pc, NativeThread
  <2>2. LockInv'
    BY DEF TypeOK, LockInv, HoldsEvent, HoldsCtl, Nobody, Outsider
  <2>3. NativeThread(t)'
    BY DEF TypeOK, NativeThread, InCall, HoldsCtl
  <2>4. event_lock' # Nobody /\ UNCHANGED <<ctl_lock, sys_state>>
    BY DEF Nobody
  <2> QED BY <1>1, <1>4, <2>1, <2>2, <2>3, <2>4, NativeStep
<1>6. CASE EventPubFails(t)
  <2> USE <1>2, <1>3, <1>6 DEF EventPubFails, Goto, led_vars
  <2>1. TypeOK'
    BY DEF TypeOK, LedTypeOK, Pc
  <2>2. LockInv'
    BY DEF TypeOK, LockInv, HoldsEvent, HoldsCtl, Nobody, Outsider
  <2>3. NativeThread(t)'
    BY DEF TypeOK, NativeThread, InCall, HoldsCtl
  <2>4. UNCHANGED <<event_lock, ctl_lock, sys_state>>
    OBVIOUS
  <2> QED BY <1>1, <1>4, <2>1, <2>2, <2>3, <2>4, NativeStep
<1>7. CASE SysCtrlButtonMsgCb(t)
  <2> USE <1>2, <1>3, <1>7 DEF SysCtrlButtonMsgCb, Announced, Other, Goto, led_vars
  <2>1. TypeOK'
    BY DEF TypeOK, LedTypeOK, Pc, SysState
  <2>2. LockInv'
    BY DEF TypeOK, LockInv, HoldsEvent, HoldsCtl, Nobody, Outsider
  <2>3. NativeThread(t)'
    BY DEF TypeOK, NativeThread, InCall, HoldsCtl
  <2>4. event_lock = t /\ UNCHANGED <<event_lock, ctl_lock>>
    BY DEF LockInv, HoldsEvent
  <2> QED BY <1>1, <1>4, <2>1, <2>2, <2>3, <2>4, NativeStep
<1>8. CASE GiveEvent(t)
  <2> USE <1>2, <1>3, <1>8 DEF GiveEvent, Goto, led_vars
  <2>1. TypeOK'
    BY DEF TypeOK, LedTypeOK, Pc
  <2>2. LockInv'
    BY DEF TypeOK, LockInv, HoldsEvent, HoldsCtl, Nobody, Outsider
  <2>3. NativeThread(t)'
    BY DEF TypeOK, NativeThread, InCall, HoldsCtl
  <2>4. pc'[t] = "idle" /\ ~InCall(t)' /\ UNCHANGED <<ctl_lock, sys_state>>
    BY DEF TypeOK, NativeThread, InCall
  <2> QED BY <1>1, <1>4, <2>1, <2>2, <2>3, <2>4, NativeStep
<1>9. CASE TakeCtl(t)
  <2> USE <1>2, <1>3, <1>9 DEF TakeCtl, Goto, led_vars
  <2>1. TypeOK'
    BY DEF TypeOK, LedTypeOK, Pc, NativeThread
  <2>2. LockInv'
    BY DEF TypeOK, LockInv, HoldsEvent, HoldsCtl, Nobody, Outsider
  <2>3. NativeThread(t)'
    BY DEF TypeOK, NativeThread, InCall, HoldsCtl
  <2>4. ctl_lock' # Nobody /\ UNCHANGED <<event_lock, sys_state>>
    BY DEF Nobody
  <2> QED BY <1>1, <1>4, <2>1, <2>2, <2>3, <2>4, NativeStep
<1>10. CASE CtlPubFails(t)
  <2> USE <1>2, <1>3, <1>10 DEF CtlPubFails, Goto, led_vars
  <2>1. TypeOK'
    BY DEF TypeOK, LedTypeOK, Pc
  <2>2. LockInv'
    BY DEF TypeOK, LockInv, HoldsEvent, HoldsCtl, Nobody, Outsider
  <2>3. NativeThread(t)'
    BY DEF TypeOK, NativeThread, InCall, HoldsCtl
  <2>4. UNCHANGED <<event_lock, ctl_lock, sys_state>>
    OBVIOUS
  <2> QED BY <1>1, <1>4, <2>1, <2>2, <2>3, <2>4, NativeStep
<1>11. CASE GiveCtl(t)
  <2> USE <1>2, <1>3, <1>11 DEF GiveCtl, Goto, led_vars
  <2>1. TypeOK'
    BY DEF TypeOK, LedTypeOK, Pc
  <2>2. LockInv'
    BY DEF TypeOK, LockInv, HoldsEvent, HoldsCtl, Nobody, Outsider
  <2>3. NativeThread(t)'
    BY DEF TypeOK, NativeThread, InCall, HoldsCtl
  <2>4. event_lock = t /\ UNCHANGED <<event_lock, sys_state>>
    BY DEF LockInv, HoldsEvent
  <2> QED BY <1>1, <1>4, <2>1, <2>2, <2>3, <2>4, NativeStep
<1> QED BY <1>5, <1>6, <1>7, <1>8, <1>9, <1>10, <1>11

(* Steps into set_led_mode().                                              *)
LEMMA NativeCallbackStep ==
    ASSUME PREEMPTIVE = FALSE, NativeInv, NEW t \in Thread, ThreadStep(t),
           LedEventCb(t) \/ LedSysCtlCb(t)
    PROVE  NativeInv'
<1> USE AppAssumption
<1>1. \A u \in Thread \ {t} : ~Busy(u)
  BY OthersRest
<1>2. TypeOK /\ LockInv /\ NativeThread(t) /\ LedTypeOK
  BY DEF NativeInv, TypeOK
<1>3. /\ pc[t] \in {"led_event", "led_sys_ctl"}
      /\ pc' = [pc EXCEPT ![t] = IF pc[t] = "led_event" THEN "sys_ctrl" ELSE "give_ctl"]
      /\ UNCHANGED <<sys_state, event_ch, event_lock, sys_ctl_ch, ctl_lock, msg>>
  BY DEF LedEventCb, LedSysCtlCb, Goto
<1>4. \/ UNCHANGED led_vars /\ pc[t] = "led_event"
      \/ \E l \in LED, m \in Mode :
           /\ SetLedMode(t, l, m)
           /\ pc[t] = "led_sys_ctl" => l = 0 /\ m = SignalOf(sys_ctl_ch)
  BY DEF LedEventCb, LedSysCtlCb, LedModeFor, SignalOf, LED, Mode
<1>5. /\ LedTypeOK' /\ mode' = mode /\ ~InCall(t)
      /\ \A u \in Thread \ {t} : call'[u] = call[u]
      /\ call'[t].at = "store" \/ call'[t].todo = {}
      /\ pc[t] = "led_sys_ctl" =>
           \/ mode[0] = SignalOf(sys_ctl_ch) /\ call'[t] = call[t]
           \/ /\ call'[t].at = "store" /\ "mode" \in call'[t].todo
              /\ call'[t].led = 0 /\ call'[t].mode = SignalOf(sys_ctl_ch)
  <2>1. CASE UNCHANGED led_vars /\ pc[t] = "led_event"
    BY <1>2, <2>1 DEF led_vars, LedTypeOK, NativeThread
  <2>2. ASSUME NEW l \in LED, NEW m \in Mode, SetLedMode(t, l, m),
               pc[t] = "led_sys_ctl" => l = 0 /\ m = SignalOf(sys_ctl_ch)
        PROVE  /\ LedTypeOK' /\ mode' = mode /\ ~InCall(t)
               /\ \A u \in Thread \ {t} : call'[u] = call[u]
               /\ call'[t].at = "store" \/ call'[t].todo = {}
               /\ pc[t] = "led_sys_ctl" =>
                    \/ mode[0] = SignalOf(sys_ctl_ch) /\ call'[t] = call[t]
                    \/ /\ call'[t].at = "store" /\ "mode" \in call'[t].todo
                       /\ call'[t].led = 0 /\ call'[t].mode = SignalOf(sys_ctl_ch)
    BY <1>2, <2>2, CallTypeOK, CallEffect DEF NativeThread
  <2> QED BY <1>4, <2>1, <2>2
<1>6. TypeOK'
  BY <1>2, <1>3, <1>5 DEF TypeOK, Pc
<1>7. LockInv'
  BY <1>2, <1>3 DEF TypeOK, LockInv, HoldsEvent, HoldsCtl
<1>8. NativeThread(t)'
  BY <1>2, <1>3, <1>5 DEF TypeOK, NativeThread, InCall, HoldsCtl
<1>9. \A u \in Thread \ {t} : pc'[u] = pc[u] /\ call'[u] = call[u] /\ msg'[u] = msg[u]
  BY <1>2, <1>3, <1>5 DEF TypeOK
<1> QED BY <1>1, <1>3, <1>6, <1>7, <1>8, <1>9, NativeStep

LEMMA NativeCmdLedSet ==
    ASSUME NativeInv, NEW l \in LED, NEW m \in Mode, CmdLedSet(l, m)
    PROVE  NativeInv'
<1> DEFINE t == "shell"
<1>1. /\ t \in Thread /\ pc[t] = "idle" /\ UNCHANGED app_vars /\ SetLedMode(t, l, m)
      /\ \A u \in Thread \ {t} : ~Busy(u)
  BY AppAssumption DEF CmdLedSet, MayRun, Busy
<1> HIDE DEF t
<1>2. TypeOK /\ LockInv /\ NativeThread(t) /\ LedTypeOK
  BY <1>1 DEF NativeInv, TypeOK
<1>3. /\ LedTypeOK' /\ \A u \in Thread \ {t} : call'[u] = call[u]
      /\ call'[t].at = "store" \/ call'[t].todo = {}
  BY <1>1, <1>2, CallTypeOK, CallEffect DEF NativeThread
<1>4. TypeOK' /\ LockInv'
  BY <1>1, <1>2, <1>3 DEF TypeOK, LockInv, app_vars
<1>5. NativeThread(t)'
  BY <1>1, <1>2, <1>3 DEF NativeThread, InCall, HoldsCtl, app_vars
<1> QED BY <1>1, <1>3, <1>4, <1>5, NativeStep DEF app_vars

LEMMA NativeInsideStep ==
    ASSUME PREEMPTIVE = FALSE, NativeInv, NEW t \in Thread, ThreadStep(t), SetLedModeStep(t)
    PROVE  NativeInv'
<1>1. \A u \in Thread \ {t} : ~Busy(u)
  BY OthersRest
<1>2. TypeOK /\ LockInv /\ NativeThread(t) /\ LedTypeOK
  BY DEF NativeInv, TypeOK
<1>3. CallStepOf(t) /\ UNCHANGED app_vars
  BY DEF SetLedModeStep
<1>4. LedTypeOK'
  BY <1>2, <1>3, InsideTypeOK DEF Inside
<1>5. InCall(t) /\ \A u \in Thread \ {t} : call'[u] = call[u]
  BY <1>2, <1>3, InsideEffect
<1>6. TypeOK' /\ LockInv'
  BY <1>2, <1>3, <1>4 DEF TypeOK, LockInv, app_vars
<1>7. NativeThread(t)'
  <2>1. /\ call'[t].at = "store" \/ call'[t].todo = {}
        /\ pc[t] = "give_ctl" =>
             /\ call'[t].at # "none" =>
                  call'[t].led = 0 /\ call'[t].mode = SignalOf(sys_ctl_ch)
             /\ \/ mode'[0] = SignalOf(sys_ctl_ch)
                \/ call'[t].at # "none" /\ "mode" \in call'[t].todo
    <3>1. CASE /\ "mode" \in call[t].todo /\ "mode" \notin call'[t].todo
               /\ mode' = [mode EXCEPT ![call[t].led] = call[t].mode]
               /\ call'[t].at # "none"
               /\ call'[t].led = call[t].led /\ call'[t].mode = call[t].mode
               /\ call'[t].at = "store" \/ (call[t].todo = {"mode"} /\ call'[t].todo = {})
      <4>1. pc[t] = "give_ctl" => call[t].led = 0 /\ call[t].mode = SignalOf(sys_ctl_ch)
        BY <1>2, <1>5 DEF NativeThread
      <4>2. call[t].led = 0 => mode'[0] = call[t].mode
        BY <1>2, <3>1 DEF LedTypeOK, LED
      <4> QED BY <3>1, <4>1, <4>2
    <3>2. CASE /\ mode' = mode /\ call'[t].at # "none"
               /\ "mode" \in call'[t].todo <=> "mode" \in call[t].todo
               /\ call'[t].led = call[t].led /\ call'[t].mode = call[t].mode
               /\ \/ call'[t].at = "store"
                  \/ call'[t].todo = {}
                  \/ call[t].at # "store" /\ call'[t].todo = call[t].todo
      BY <1>2, <1>5, <3>2 DEF NativeThread
    <3>3. CASE /\ mode' = mode /\ call'[t] = NoCall
               /\ call[t].at # "store"
      <4>1. call[t].todo = {} /\ call'[t].todo = {} /\ call'[t].at = "none"
        BY <1>2, <3>3 DEF NativeThread, NoCall
      <4> QED BY <1>2, <3>3, <4>1 DEF NativeThread
    <3> QED BY <1>2, <1>3, <3>1, <3>2, <3>3, InsideEffect
  <2> QED BY <1>2, <1>3, <1>5, <2>1 DEF NativeThread, InCall, app_vars
<1> QED BY <1>1, <1>3, <1>5, <1>6, <1>7, NativeStep DEF app_vars

(* The interrupt and the thread outside the model come while all rest, or  *)
(* make a thread wait.                                                     *)
LEMMA NativeTimerStep ==
    ASSUME PREEMPTIVE = FALSE, NativeInv, TimerInterrupt
    PROVE  NativeInv'
<1>1. TypeOK /\ LockInv /\ LedTypeOK /\ \A t \in Thread : NativeThread(t)
  BY DEF NativeInv, TypeOK
<1>2. LedTimerHandler /\ UNCHANGED app_vars /\ call' = call
  BY DEF TimerInterrupt, LedTimerHandler
<1>3. \A t \in Thread : ~Busy(t) /\ pc[t] # "give_ctl"
  BY Resting DEF TimerInterrupt, InterruptMayRun, Busy
<1>4. TypeOK' /\ LockInv'
  BY <1>1, <1>2, HandlerTypeOK DEF TypeOK, LockInv, app_vars
<1>5. OneBusy'
  BY <1>2, <1>3 DEF OneBusy, Busy, Idle, Waiting, EventFree, InCall, app_vars
<1>6. \A t \in Thread : NativeThread(t)'
  BY <1>1, <1>2, <1>3 DEF NativeThread, InCall, app_vars
<1> QED BY <1>4, <1>5, <1>6 DEF NativeInv

LEMMA NativeOtherStep ==
    ASSUME PREEMPTIVE = FALSE, NativeInv, OtherTakesCtl \/ OtherGivesCtl
    PROVE  NativeInv'
<1> USE AppAssumption
<1>1. TypeOK /\ LockInv /\ OneBusy /\ \A t \in Thread : NativeThread(t)
  BY DEF NativeInv
<1>2. /\ UNCHANGED <<led_vars, sys_state, event_ch, event_lock, sys_ctl_ch, pc, msg>>
      /\ ctl_lock' \in {Outsider, Nobody} /\ ctl_lock \notin Thread
      /\ ctl_lock' = Outsider => OTHER_CTL_USER
  BY DEF OtherTakesCtl, OtherGivesCtl, Nobody, Outsider
<1>3. \A t \in Thread : ~Busy(t)
  BY DEF OtherTakesCtl, OtherGivesCtl, InterruptMayRun, Busy
<1>4. TypeOK'
  BY <1>1, <1>2 DEF TypeOK, LedTypeOK, led_vars
<1>5. LockInv'
  BY <1>1, <1>2 DEF LockInv, Nobody, Outsider
<1>6. \A t \in Thread : NativeThread(t)'
  BY <1>1, <1>2 DEF NativeThread, InCall, led_vars
<1>7. \A t \in Thread : Busy(t)' => event_lock = t
  <2> SUFFICES ASSUME NEW t \in Thread, Busy(t)' PROVE event_lock = t
    OBVIOUS
  <2>1. ~Idle(t) /\ Waiting(t)
    BY <1>2, <1>3 DEF Busy, Idle, InCall, led_vars
  <2>2. pc[t] = "take_ctl"
    BY <1>2, <2>1 DEF Busy, Waiting, EventFree
  <2> QED BY <1>1, <2>2 DEF LockInv, HoldsEvent
<1>8. OneBusy'
  BY <1>7 DEF OneBusy
<1> QED BY <1>4, <1>5, <1>6, <1>8 DEF NativeInv

LEMMA NativeNext ==
    ASSUME PREEMPTIVE = FALSE, NativeInv, [Next]_vars
    PROVE  NativeInv'
<1>1. CASE (\E e \in Event : WorkItem(e)) \/ CmdButton
  BY <1>1, NativePublish
<1>2. CASE \E l \in LED, m \in Mode : CmdLedSet(l, m)
  BY <1>2, NativeCmdLedSet
<1>3. CASE \E t \in Thread : ThreadStep(t)
  BY <1>3, NativeChannelStep, NativeCallbackStep, NativeInsideStep DEF ThreadStep
<1>4. CASE TimerInterrupt
  BY <1>4, NativeTimerStep
<1>5. CASE OtherTakesCtl \/ OtherGivesCtl
  BY <1>5, NativeOtherStep
<1>6. CASE UNCHANGED vars
  BY <1>6 DEF vars, app_vars, led_vars, NativeInv, TypeOK, LedTypeOK, LockInv, OneBusy,
     Busy, Idle, Waiting, EventFree, NativeThread, InCall
<1> QED BY <1>1, <1>2, <1>3, <1>4, <1>5, <1>6 DEF Next

(* On native_sim one thread at a time is in the middle of its chain of     *)
(* calls, and what it has stored is what it is about to act on.            *)
THEOREM AppNativeInvariant ==
    ASSUME PREEMPTIVE = FALSE
    PROVE  Spec => []NativeInv
  BY NativeInit, NativeNext, PTL DEF Spec

LEMMA QuietStep ==
    ASSUME PREEMPTIVE = FALSE, NativeInv, [Next]_vars
    PROVE  [QuietLedNext]_led_vars
<1>1. CASE (\E e \in Event : WorkItem(e)) \/ CmdButton
  BY <1>1 DEF WorkItem, CmdButton, Publish
<1>2. ASSUME NEW l \in LED, NEW m \in Mode, CmdLedSet(l, m)
      PROVE  SerialCall
  <2>1. "shell" \in Thread /\ SetLedMode("shell", l, m) /\ ~InCall("shell")
    BY <1>2, AppAssumption DEF CmdLedSet, SetLedMode
  <2>2. \A u \in Thread \ {"shell"} : ~InCall(u)
    BY <1>2, AppAssumption, Resting DEF CmdLedSet, MayRun, Busy
  <2> QED BY <2>1, <2>2 DEF SerialCall, Call
<1>3. ASSUME NEW t \in Thread, ThreadStep(t)
      PROVE  [QuietLedNext]_led_vars
  <2>1. CASE \/ TakeEvent(t) \/ EventPubFails(t) \/ SysCtrlButtonMsgCb(t)
             \/ TakeCtl(t) \/ CtlPubFails(t) \/ GiveCtl(t) \/ GiveEvent(t)
    BY <2>1 DEF TakeEvent, EventPubFails, SysCtrlButtonMsgCb, TakeCtl, CtlPubFails,
       GiveCtl, GiveEvent
  <2>2. CASE LedEventCb(t) \/ LedSysCtlCb(t)
    <3>1. \A u \in Thread \ {t} : ~InCall(u)
      BY <1>3, OthersRest, Resting
    <3>2. UNCHANGED led_vars \/ \E l \in LED, m \in Mode : SetLedMode(t, l, m)
      BY <2>2 DEF LedEventCb, LedSysCtlCb, LedModeFor, LED, Mode
    <3>3. CASE \E l \in LED, m \in Mode : SetLedMode(t, l, m)
      <4>1. ~InCall(t)
        BY <3>3 DEF SetLedMode
      <4> QED BY <3>1, <3>3, <4>1 DEF QuietLedNext, SerialCall, Call
    <3> QED BY <3>2, <3>3
  <2>3. CASE SetLedModeStep(t)
    BY <2>3 DEF SetLedModeStep, QuietLedNext, Inside
  <2> QED BY <1>3, <2>1, <2>2, <2>3 DEF ThreadStep
<1>4. CASE TimerInterrupt
  <2>1. Quiet
    BY <1>4, Resting DEF Quiet, TimerInterrupt, InterruptMayRun, Busy
  <2> QED BY <1>4, <2>1 DEF TimerInterrupt, QuietLedNext
<1>5. CASE OtherTakesCtl \/ OtherGivesCtl \/ UNCHANGED vars
  BY <1>5 DEF OtherTakesCtl, OtherGivesCtl, vars
<1> QED BY <1>1, <1>2, <1>3, <1>4, <1>5 DEF Next, QuietLedNext

(* There the application drives the LED component one call at a time, with *)
(* the timer interrupt between calls, "led set" included.                  *)
THEOREM AppNativeQuietLed ==
    ASSUME PREEMPTIVE = FALSE
    PROVE  Spec => QuietLedSpec
<1>1. Init => LedInit
  BY DEF Init
<1>2. NativeInv /\ [Next]_vars => [QuietLedNext]_led_vars
  BY QuietStep
<1>3. Spec => []NativeInv
  BY AppNativeInvariant
<1> QED BY <1>1, <1>2, <1>3, PTL DEF Spec, QuietLedSpec

(* So the component's guarantees hold on native_sim for every use of "led  *)
(* set": an LED in a mode has its timer, ...                               *)
THEOREM AppNativeActiveLedIsTimed ==
    ASSUME PREEMPTIVE = FALSE
    PROVE  Spec => []ActiveLedIsTimed
  BY AppNativeQuietLed, QuietImpliesSerial, SerialActiveLedIsTimed

(* ... the timer has an LED that needs it, ...                             *)
THEOREM AppNativeTimerHasWork ==
    ASSUME PREEMPTIVE = FALSE
    PROVE  Spec => []TimerHasWork
  BY AppNativeQuietLed, QuietTimerHasWork

(* ... an LED that is OFF is dark, ...                                     *)
THEOREM AppNativeOffIsDark ==
    ASSUME PREEMPTIVE = FALSE
    PROVE  Spec => []OffIsDark
  BY AppNativeQuietLed, QuietImpliesSerial, SerialOffIsDark

(* ... and an alarm runs its time.                                         *)
THEOREM AppNativeAlarmRunsItsTime ==
    ASSUME PREEMPTIVE = FALSE
    PROVE  Spec => AlarmRunsItsTime
  BY AppNativeQuietLed, QuietAlarmRunsItsTime

----------------------------------------------------------------------------
(* The end of a publication on sys_ctl_ch.                                 *)

LEMMA PublicationEnds ==
    ASSUME [Next]_vars, ctl_lock \in Thread, ctl_lock' = Nobody
    PROVE  \E t \in Thread : GiveCtl(t)
<1>1. Nobody \notin Thread /\ Outsider \notin Thread
  BY AppAssumption DEF Nobody, Outsider
<1>2. ctl_lock' # ctl_lock
  BY <1>1
<1>3. ~(\E e \in Event : WorkItem(e)) /\ ~CmdButton
  BY <1>2 DEF WorkItem, CmdButton, Publish
<1>4. ~(\E l \in LED, m \in Mode : CmdLedSet(l, m)) /\ ~TimerInterrupt /\ ~UNCHANGED vars
  BY <1>2 DEF CmdLedSet, TimerInterrupt, vars, app_vars
<1>5. ~OtherTakesCtl /\ ~OtherGivesCtl
  BY <1>1 DEF OtherTakesCtl, OtherGivesCtl
<1>6. PICK t \in Thread : ThreadStep(t)
  BY <1>3, <1>4, <1>5 DEF Next
<1>7. ~TakeCtl(t)
  BY <1>1 DEF TakeCtl
<1> QED BY <1>2, <1>6, <1>7 DEF ThreadStep, TakeEvent, EventPubFails, LedEventCb,
     SysCtrlButtonMsgCb, GiveEvent, CtlPubFails, LedSysCtlCb, SetLedModeStep, app_vars

(* On hardware sys_ctl_ch and LED0 show the current state when sys_ctrl's  *)
(* publication completes, as long as "led set" leaves LED0 alone.          *)
THEOREM AppPublishedStateIsCurrent ==
    ASSUME 0 \notin SHELL_LEDS, OTHER_CTL_USER = FALSE
    PROVE  Spec => PublishedStateIsCurrent
<1> DEFINE Shown == (ctl_lock \in Thread) /\ ctl_lock' = Nobody =>
                      sys_state = sys_ctl_ch /\ mode[0] = SignalOf(sys_ctl_ch)
<1>1. AppInv /\ [Next]_vars => [Shown]_vars
  BY PublicationEnds DEF AppInv, StageInv, GiveCtl
<1> HIDE DEF Shown
<1>2. Spec => [][Shown]_vars
  BY <1>1, AppInvariant, PTL DEF Spec
<1> QED BY <1>2 DEF Shown, PublishedStateIsCurrent

(* On native_sim they do whatever "led set" is used on, and although some  *)
(* publications fail while another thread holds sys_ctl_ch.                *)
THEOREM AppNativePublishedStateIsCurrent ==
    ASSUME PREEMPTIVE = FALSE
    PROVE  Spec => PublishedStateIsCurrent
<1> DEFINE Shown == (ctl_lock \in Thread) /\ ctl_lock' = Nobody =>
                      sys_state = sys_ctl_ch /\ mode[0] = SignalOf(sys_ctl_ch)
<1>1. NativeInv /\ [Next]_vars => [Shown]_vars
  BY PublicationEnds DEF NativeInv, NativeThread, GiveCtl, HoldsCtl
<1> HIDE DEF Shown
<1>2. Spec => [][Shown]_vars
  BY <1>1, AppNativeInvariant, PTL DEF Spec
<1> QED BY <1>2 DEF Shown, PublishedStateIsCurrent
=============================================================================
