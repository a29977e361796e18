----------------------------- MODULE HtsProofs -----------------------------
(***************************************************************************)
(* The indications of samples/06_ble, for any readings of the device.      *)
(***************************************************************************)
EXTENDS Hts, TLAPS

LEMMA InitHts == ASSUME Init PROVE HtsInv
<1>1. temperature \in SIMULATED /\ battery_level \in 1 .. 100  BY DEF Init, SIMULATED
<1>2. TypeOK  BY <1>1 DEF Init, TypeOK
<1> QED BY <1>1, <1>2 DEF Init, HtsInv, HeldIsFlagged, ParamsAreFree, SimulatedInRange

(* One step per action: only BtGattIndicate hands ind_params to the stack, *)
(* and SetIndicating follows before the main thread looks again.           *)
LEMMA NextHts == ASSUME HtsInv, [Next]_vars PROVE HtsInv'
<1> USE HtsAssumption DEF HtsInv, TypeOK, HeldIsFlagged, ParamsAreFree,
        SimulatedInRange, SIMULATED, bt_vars
<1>1. CASE Wake  BY <1>1 DEF Wake
<1>2. CASE HtsIndicate
  <2>1. CASE MayIndicate
    <3>1. ~held /\ ~indicating  BY <1>2, <2>1 DEF HtsIndicate, MayIndicate
    <3>2. NextSimulated \in SIMULATED \/ temp_dev  BY DEF NextSimulated
    <3>3. /\ temperature' \in READINGS \cup SIMULATED
          /\ ~temp_dev => temperature' \in SIMULATED
      BY <1>2, <2>1, <3>2 DEF HtsIndicate
    <3> QED BY <1>2, <2>1, <3>1, <3>3 DEF HtsIndicate
  <2>2. CASE ~MayIndicate  BY <1>2, <2>2 DEF HtsIndicate
  <2> QED BY <2>1, <2>2
<1>3. CASE BtGattIndicate
  <2>1. CASE main' = "sent" /\ held' = TRUE  BY <1>3, <2>1 DEF BtGattIndicate
  <2>2. CASE main' = "bas" /\ held' = held  BY <1>3, <2>2 DEF BtGattIndicate
  <2> QED BY <1>3, <2>1, <2>2 DEF BtGattIndicate
<1>4. CASE SetIndicating  BY <1>4 DEF SetIndicating
<1>5. CASE BasNotify  BY <1>5 DEF BasNotify
<1>6. CASE HtmcCccCfgChanged  BY <1>6 DEF HtmcCccCfgChanged
<1>7. CASE IndicateDestroy  BY <1>7 DEF IndicateDestroy, Cleared
<1>8. CASE UNCHANGED vars  BY <1>8 DEF vars
<1> QED BY <1>1, <1>2, <1>3, <1>4, <1>5, <1>6, <1>7, <1>8 DEF Next, Main

(* HtsInv holds at all times: hts_indicate() never writes or submits       *)
(* ind_params while the stack still holds them, although the flag that     *)
(* guards them is set late (hts.c:89 and hts.c:131-132).                   *)
THEOREM HtsInvariant == Spec => []HtsInv
<1>1. Init => HtsInv  BY InitHts
<1>2. HtsInv /\ [Next]_vars => HtsInv'  BY NextHts
<1> QED BY <1>1, <1>2, PTL DEF Spec

(* The service falls silent only by the race between the stack and the     *)
(* flag, and then for good (hts.c:53 and hts.c:132).                       *)
THEOREM HtsSilentForGood == Spec => SilentForGood
<1> DEFINE Step == (Silent' => Silent \/ Outrun) /\ (Silent => Silent')
<1>1. ASSUME HtsInv, [Next]_vars PROVE [Step]_vars
  <2> USE <1>1 DEF HtsInv, TypeOK, HeldIsFlagged, ParamsAreFree, Silent, Outrun, bt_vars
  <2>1. CASE Wake  BY <2>1 DEF Wake
  <2>2. CASE HtsIndicate  BY <2>2 DEF HtsIndicate, MayIndicate
  <2>3. CASE BtGattIndicate  BY <2>3 DEF BtGattIndicate
  <2>4. CASE SetIndicating  BY <2>4 DEF SetIndicating
  <2>5. CASE BasNotify  BY <2>5 DEF BasNotify
  <2>6. CASE HtmcCccCfgChanged  BY <2>6 DEF HtmcCccCfgChanged
  <2>7. CASE IndicateDestroy  BY <2>7 DEF IndicateDestroy, Cleared
  <2> QED BY <1>1, <2>1, <2>2, <2>3, <2>4, <2>5, <2>6, <2>7 DEF Next, Main
<1>2. Spec => []HtsInv  BY HtsInvariant
<1> QED BY <1>1, <1>2, PTL DEF Spec, SilentForGood
=============================================================================
