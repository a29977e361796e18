-------------------------------- MODULE Hts --------------------------------
(***************************************************************************)
(* The health thermometer of samples/06_ble.  Every second the main thread *)
(* indicates a temperature and lowers the battery level; the Bluetooth     *)
(* stack's thread calls back when a peer changes its subscription and when *)
(* an indication is over.  The flag `indicating` keeps the main thread     *)
(* from submitting the one ind_params again, and is set only after         *)
(* bt_gatt_indicate() has returned.                                        *)
(***************************************************************************)
EXTENDS Integers

CONSTANT READINGS   \* what the sensor, or a temp_value left unset, may hold

ASSUME HtsAssumption == READINGS \subseteq Int /\ READINGS # {}

VARIABLES
    temp_dev,       \* hts_init() found a temperature device
    simulate_htm,   \* a peer has subscribed to indications
    indicating,
    temperature,
    battery_level,
    main,           \* where the main thread is in a round of its loop
    held            \* the stack holds ind_params, until it has destroyed it

bt_vars == <<simulate_htm, held>>
vars == <<temp_dev, indicating, temperature, battery_level, main, bt_vars>>

SIMULATED == 20 .. 29

TypeOK ==
    /\ temp_dev \in BOOLEAN
    /\ simulate_htm \in BOOLEAN
    /\ indicating \in BOOLEAN
    /\ held \in BOOLEAN
    /\ temperature \in READINGS \cup SIMULATED
    /\ battery_level \in 1 .. 100
    /\ main \in {"sleep", "hts", "sending", "sent", "bas"}

Init ==
    /\ temp_dev \in BOOLEAN
    /\ simulate_htm = FALSE
    /\ indicating = FALSE
    /\ temperature = 20
    /\ battery_level = 100
    /\ main = "sleep"
    /\ held = FALSE

(* htmc_ccc_cfg_changed(): any of indicate, notify or nothing.             *)
HtmcCccCfgChanged ==
    /\ simulate_htm' \in BOOLEAN
    /\ UNCHANGED <<temp_dev, indicating, temperature, battery_level, main, held>>

(* Mutant: the flag is only cleared by the next subscription.              *)
ClearedNever == indicating

Cleared == FALSE

(* indicate_cb(), which prints, and indicate_destroy(): the peer has       *)
(* confirmed, has not answered in time, or is gone.                        *)
IndicateDestroy ==
    /\ held
    /\ held' = FALSE
    /\ indicating' = Cleared
    /\ UNCHANGED <<temp_dev, simulate_htm, temperature, battery_level, main>>

Wake ==
    /\ main = "sleep"
    /\ main' = "hts"
    /\ UNCHANGED <<temp_dev, indicating, temperature, battery_level, bt_vars>>

(* Mutant: a round does not look whether the last indication is over.      *)
MayIndicateAlways == simulate_htm

MayIndicate == simulate_htm /\ ~indicating

NextSimulated == IF temperature + 1 = 30 THEN 20 ELSE temperature + 1

(* hts_indicate() up to the submission: it measures and fills ind_params.  *)
HtsIndicate ==
    /\ main = "hts"
    /\ IF MayIndicate
       THEN /\ main' = "sending"
            /\ IF temp_dev THEN temperature' \in READINGS ELSE temperature' = NextSimulated
       ELSE main' = "bas" /\ UNCHANGED temperature
    /\ UNCHANGED <<temp_dev, indicating, battery_level, bt_vars>>

(* bt_gatt_indicate() queues the indication, or returns an error.          *)
BtGattIndicate ==
    /\ main = "sending"
    /\ \/ main' = "sent" /\ held' = TRUE
       \/ main' = "bas" /\ UNCHANGED held
    /\ UNCHANGED <<temp_dev, simulate_htm, indicating, temperature, battery_level>>

SetIndicating ==
    /\ main = "sent"
    /\ main' = "bas"
    /\ indicating' = TRUE
    /\ UNCHANGED <<temp_dev, temperature, battery_level, bt_vars>>

BasNotify ==
    /\ main = "bas"
    /\ main' = "sleep"
    /\ battery_level' = IF battery_level = 1 THEN 100 ELSE battery_level - 1
    /\ UNCHANGED <<temp_dev, indicating, temperature, bt_vars>>

Main == Wake \/ HtsIndicate \/ BtGattIndicate \/ SetIndicating \/ BasNotify

Next == Main \/ HtmcCccCfgChanged \/ IndicateDestroy

(* The main thread runs, and the stack ends every indication (it gives up  *)
(* on a peer that does not confirm).  No peer has to subscribe.            *)
Spec == Init /\ [][Next]_vars
FairSpec == Spec /\ WF_vars(Main) /\ WF_vars(IndicateDestroy)

----------------------------------------------------------------------------
(* While the stack holds ind_params, the flag is set or about to be.       *)
HeldIsFlagged == held => indicating \/ main = "sent"

(* ind_params and its data are written and submitted only when the stack   *)
(* does not hold them (hts.c:89-91 and hts.c:118-131).                     *)
ParamsAreFree == main = "sending" => ~held /\ ~indicating

SimulatedInRange == ~temp_dev => temperature \in SIMULATED

HtsInv == TypeOK /\ HeldIsFlagged /\ ParamsAreFree /\ SimulatedInRange

(* The stack has destroyed the indication before the main thread has set   *)
(* the flag for it.                                                        *)
Outrun == main = "sent" /\ ~held

(* Who stays subscribed is indicated to again and again (hts.c:53 clears   *)
(* the flag), unless an indication is ever over before hts.c:132.          *)
SubscriberIsServed == <>[]simulate_htm /\ []~Outrun => []<>(main = "sending")

(* Only that race leaves the flag set when nothing is in flight, and then  *)
(* the service stays silent for good: no path clears the flag.             *)
Silent == indicating /\ ~held /\ main # "sent"
SilentForGood == [][/\ Silent' => Silent \/ Outrun
                    /\ Silent => Silent']_vars
=============================================================================
