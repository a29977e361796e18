------------------------------ MODULE HdcEmul ------------------------------
(***************************************************************************)
(* The emulated TI HDC sensor, emulators/sensor/ti_hdc_emul: its I2C side, *)
(* driven by Zephyr's driver in two threads at once, and its backend, on   *)
(* which the shell sets temperature and humidity.                          *)
(*                                                                         *)
(* sample_lock guards the data registers, so what a caller does under it   *)
(* is one step; the register pointer cur_reg is read and written without   *)
(* it.  Register contents are the raw values of the source; temperatures   *)
(* and humidities that are set are whole degrees and percents.             *)
(***************************************************************************)
EXTENDS Integers, FiniteSets

CONSTANTS
    RAW,           \* raw values that sys_rand32_get() is taken to yield
    SET_TEMP,      \* arguments of `sensor_emul set temp`
    SET_HUMIDITY,  \* arguments of `sensor_emul set humidity`
    MAX_SAMPLES    \* bound: samples that are generated

RawMax == 65535
Scale  == 65536  \* raw values per span of the sensor

ASSUME HdcEmulAssumption ==
    /\ RAW \subseteq 0 .. RawMax
    /\ SET_TEMP \cup SET_HUMIDITY \subseteq Int
    /\ MAX_SAMPLES \in Nat \ {0}

Thread == {"sensor", "shell"}

TEMP     == 0
HUMIDITY == 1
MANUFID  == 254
DEVICEID == 255
Reg      == {TEMP, HUMIDITY, MANUFID, DEVICEID}

reg_manufid  == 21577
reg_deviceid == 4096

VARIABLES
    cur_reg,       \* register address written last
    reg,           \* contents of the registers
    sample_count,  \* samples generated
    fixed,         \* registers that were set on the backend
    pc,            \* pc[t]: how far t is in sensor_sample_fetch()
    from,          \* from[t]: t's copy of cur_reg
    device,        \* the driver's init: "reset", "manuf", "ready" or "failed"
    t_sample, rh_sample,  \* what the last read transfer returned
    set            \* history: degrees and percents that were set last, by register

emul_vars == <<cur_reg, reg, sample_count, fixed>>
vars == <<emul_vars, pc, from, device, t_sample, rh_sample, set>>

TypeOK ==
    /\ cur_reg \in Reg
    /\ reg \in [Reg -> 0 .. RawMax]
    /\ sample_count \in Nat
    /\ fixed \subseteq {TEMP, HUMIDITY}
    /\ pc \in [Thread -> {"idle", "generate", "convert", "read"}]
    /\ from \in [Thread -> Reg]
    /\ device \in {"reset", "manuf", "ready", "failed"}
    /\ {t_sample, rh_sample} \subseteq 0 .. RawMax
    /\ set \in [fixed -> Int]

----------------------------------------------------------------------------
(* The backend's ranges of raw values, and the conversions.                *)

Between(min, max) == { r \in RAW : min <= r /\ r <= max }

TEMP_RAW_3C == 17079
TEMP_RAW_4C == 17476
TEMP_RAW_5C == 17873
TEMP_RAW_7C == 18668
HUM_RAW_MIN == 26214
HUM_RAW_MAX == 39321

RandTemp(n) == IF n < 10 THEN Between(TEMP_RAW_3C, TEMP_RAW_5C)
               ELSE Between(TEMP_RAW_4C, TEMP_RAW_7C)
RandHumidity == Between(HUM_RAW_MIN, HUM_RAW_MAX)

(* DIV_ROUND_CLOSEST of a dividend that is not negative.                   *)
RoundClosest(n, d) == (n + d \div 2) \div d

(* Mutant: what exceeds a register is cut to 16 bits.                      *)
SaturatedWraps(raw) == raw % Scale

(* MIN(raw, UINT16_MAX).                                                   *)
Saturated(raw) == IF raw > RawMax THEN RawMax ELSE raw

Lower(r) == IF r = TEMP THEN -40 ELSE 0
Span(r)  == IF r = TEMP THEN 165 ELSE 100

ToRaw(r, v) == Saturated(RoundClosest((v - Lower(r)) * Scale, Span(r)))

(* The driver's inverse in thousandths.  It rounds down, so that 30        *)
(* degrees read 29.999.                                                    *)
FromRaw(r, raw) ==
    LET scaled == raw * Span(r)
    IN  (scaled \div Scale + Lower(r)) * 1000 + ((scaled % Scale) * 1000) \div Scale

(* The resolution that the backend reports: one raw step, rounded up to    *)
(* thousandths.                                                            *)
Epsilon(r) == (Span(r) * 1000 + RawMax) \div Scale

(* The Q31 value with shift 8 that the shell passes on.  BIT64() is        *)
(* unsigned: dividing a negative value by it yields a huge one, which is   *)
(* refused with -ERANGE like those from 256 on.                            *)
FitsShift8(v) == 0 <= v /\ v < 256

----------------------------------------------------------------------------
(* Mutant: a value that was set is overwritten by the next sample.         *)
KeptRegsNone == {}

KeptRegs == fixed

GenerateSample ==
    /\ sample_count' = sample_count + 1
    /\ \E temp \in RandTemp(sample_count), humidity \in RandHumidity :
         reg' = [r \in Reg |->
                   IF r = TEMP /\ r \notin KeptRegs THEN temp
                   ELSE IF r = HUMIDITY /\ r \notin KeptRegs THEN humidity
                   ELSE reg[r]]

(* ti_hdc_emul_init() has generated a first sample.                        *)
Init ==
    /\ cur_reg = TEMP
    /\ \E temp \in RandTemp(0), humidity \in RandHumidity :
         reg = [r \in Reg |-> CASE r = TEMP -> temp [] r = HUMIDITY -> humidity
                                [] r = MANUFID -> reg_manufid [] r = DEVICEID -> reg_deviceid]
    /\ sample_count = 1
    /\ fixed = {}
    /\ pc = [t \in Thread |-> "idle"]
    /\ from = [t \in Thread |-> TEMP]
    /\ device = "reset"
    /\ t_sample = 0 /\ rh_sample = 0
    /\ set = [r \in {} |-> 0]

(* Pattern A, the driver's init at boot: write the address, read the       *)
(* register.  0x5449 and 0x1000 are what the driver accepts.               *)
ReadId ==
    /\ \/ /\ device = "reset"
          /\ cur_reg' = MANUFID
          /\ device' = IF reg[MANUFID] = reg_manufid THEN "manuf" ELSE "failed"
       \/ /\ device = "manuf"
          /\ cur_reg' = DEVICEID
          /\ device' = IF reg[DEVICEID] = reg_deviceid THEN "ready" ELSE "failed"
    /\ UNCHANGED <<reg, sample_count, fixed, pc, from, t_sample, rh_sample, set>>

Goto(t, label) == pc' = [pc EXCEPT ![t] = label]

(* Pattern B: the address is stored, then the sample is generated under    *)
(* the lock.                                                               *)
WriteAddress(t) ==
    /\ device = "ready" /\ pc[t] = "idle"
    /\ sample_count + Cardinality({ u \in Thread : pc[u] = "generate" }) < MAX_SAMPLES
    /\ cur_reg' = TEMP
    /\ Goto(t, "generate")
    /\ UNCHANGED <<reg, sample_count, fixed, from, device, t_sample, rh_sample, set>>

Generate(t) ==
    /\ pc[t] = "generate"
    /\ IF cur_reg = TEMP THEN GenerateSample ELSE UNCHANGED <<reg, sample_count>>
    /\ Goto(t, "convert")
    /\ UNCHANGED <<cur_reg, fixed, from, device, t_sample, rh_sample, set>>

(* Mutant: the read begins at the register after the last one.             *)
FirstRegNext(r) == IF r = TEMP THEN HUMIDITY ELSE r

FirstReg(r) == r

(* Pattern C: the pointer is copied, then both registers are read under    *)
(* the lock.                                                               *)
CopyPointer(t) ==
    /\ pc[t] = "convert"
    /\ from' = [from EXCEPT ![t] = FirstReg(cur_reg)]
    /\ Goto(t, "read")
    /\ UNCHANGED <<emul_vars, device, t_sample, rh_sample, set>>

(* An address without a register fails the transfer and with it the fetch. *)
ReadRegs(t) ==
    /\ pc[t] = "read"
    /\ Goto(t, "idle")
    /\ IF {from[t], from[t] + 1} \subseteq Reg
       THEN t_sample' = reg[from[t]] /\ rh_sample' = reg[from[t] + 1]
       ELSE UNCHANGED <<t_sample, rh_sample>>
    /\ UNCHANGED <<emul_vars, from, device, set>>

(* The backend's setter: out of range is refused.                          *)
SetChannel(r, v) ==
    /\ pc["shell"] = "idle"
    /\ Lower(r) <= v /\ v <= Lower(r) + Span(r)
    /\ reg' = [reg EXCEPT ![r] = ToRaw(r, v)]
    /\ fixed' = fixed \cup {r}
    /\ set' = [q \in fixed' |-> IF q = r THEN v ELSE set[q]]
    /\ UNCHANGED <<cur_reg, sample_count, pc, from, device, t_sample, rh_sample>>

(* `sensor_emul set temp` and `sensor_emul set humidity`, in the shell.    *)
CmdSet ==
    \/ \E v \in SET_TEMP : FitsShift8(v) /\ SetChannel(TEMP, v)
    \/ \E v \in SET_HUMIDITY : FitsShift8(v) /\ SetChannel(HUMIDITY, v)

Next ==
    \/ ReadId
    \/ \E t \in Thread : WriteAddress(t) \/ Generate(t) \/ CopyPointer(t) \/ ReadRegs(t)
    \/ CmdSet

Spec == Init /\ [][Next]_vars

----------------------------------------------------------------------------
(* The inductive invariant: while a fetch is on its way cur_reg is TEMP,   *)
(* since whoever changes it writes TEMP too, and a register that was set   *)
(* keeps its value.                                                        *)
PointerInv ==
    /\ \A t \in Thread : pc[t] # "idle" => device = "ready" /\ cur_reg = TEMP
    /\ \A t \in Thread : from[t] = TEMP

RegInv ==
    /\ \A r \in fixed : set[r] \in Lower(r) .. Lower(r) + Span(r)
                       /\ reg[r] = ToRaw(r, set[r])
    /\ TEMP \notin fixed => reg[TEMP] \in TEMP_RAW_3C .. TEMP_RAW_7C
    /\ HUMIDITY \notin fixed => reg[HUMIDITY] \in HUM_RAW_MIN .. HUM_RAW_MAX

HdcInv == TypeOK /\ PointerInv /\ RegInv

(* A fetch that completes.                                                 *)
Fetched(t) == pc[t] = "read" /\ pc'[t] = "idle"

(* The driver shows v, up to the backend's resolution.                     *)
Shows(r, sample, v) ==
    FromRaw(r, sample) \in v * 1000 - Epsilon(r) .. v * 1000 + Epsilon(r)

(* What was set in the shell is what every later read transfer returns, up *)
(* to one step of the sensor, however the two threads' transfers, the      *)
(* samples they trigger and the settings interleave.                       *)
SetValueIsRead ==
    [][\A t \in Thread : Fetched(t) =>
         /\ TEMP \in fixed => Shows(TEMP, t_sample', set[TEMP])
         /\ HUMIDITY \in fixed => Shows(HUMIDITY, rh_sample', set[HUMIDITY])]_vars

(* A channel that was not set yields the exercise's values: 3 to 7 degrees *)
(* and 40 to 60 percent; no fetch takes the identification registers, nor  *)
(* the other channel, for a sample, although cur_reg is shared and the     *)
(* driver's init leaves it elsewhere.                                      *)
RandomValueInRange ==
    [][\A t \in Thread : Fetched(t) =>
         /\ TEMP \notin fixed => TEMP_RAW_3C <= t_sample' /\ t_sample' <= TEMP_RAW_7C
         /\ HUMIDITY \notin fixed =>
              HUM_RAW_MIN <= rh_sample' /\ rh_sample' <= HUM_RAW_MAX]_vars
=============================================================================
