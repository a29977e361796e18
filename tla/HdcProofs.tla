----------------------------- MODULE HdcProofs -----------------------------
(***************************************************************************)
(* The emulated sensor, for every set of random raw values and of          *)
(* settings: what is set is what is read, up to the sensor's resolution.   *)
(***************************************************************************)
EXTENDS HdcEmul, TLAPS

(* The two conversions without the offset.                                 *)
Stored(n, span) == Saturated(RoundClosest(n * Scale, span))

Thousandths(raw, span) ==
    ((raw * span) \div Scale) * 1000 + (((raw * span) % Scale) * 1000) \div Scale

(* The three divisions of the conversions, in linear arithmetic.           *)
LEMMA Quotient ==
    ASSUME NEW m \in Nat, NEW d \in {100, 165, Scale}
    PROVE  /\ m \div d \in Nat
           /\ d * (m \div d) <= m /\ m < d * (m \div d) + d
<1>1. CASE d = 100  BY <1>1, SMTT(30)
<1>2. CASE d = 165  BY <1>2, SMTT(30)
<1>3. CASE d = Scale  BY <1>3, SMTT(30) DEF Scale
<1> QED BY <1>1, <1>2, <1>3

LEMMA Remainder ==
    ASSUME NEW m \in Nat
    PROVE  m % Scale \in Nat /\ m = Scale * (m \div Scale) + (m % Scale)
BY SMTT(30) DEF Scale

(* The driver divides once for the whole and once for the fraction, which  *)
(* comes to the same as one division that rounds down.                     *)
LEMMA ThousandthsRoundDown ==
    ASSUME NEW raw \in Nat, NEW span \in {100, 165}
    PROVE  /\ Thousandths(raw, span) \in Nat
           /\ 65536 * Thousandths(raw, span) <= raw * span * 1000
           /\ raw * span * 1000 < 65536 * Thousandths(raw, span) + 65536
<1> DEFINE p == raw * span
           a == p \div Scale
           b == p % Scale
           f == b * 1000
           c == f \div Scale
<1>1. p \in Nat
  <2>1. CASE span = 100  BY <2>1
  <2>2. CASE span = 165  BY <2>2
  <2> QED BY <2>1, <2>2
<1>2. a \in Nat /\ b \in Nat /\ p = Scale * a + b
  <2> HIDE DEF p
  <2> QED BY <1>1, Quotient, Remainder
<1>3. f \in Nat /\ f = b * 1000
  <2> HIDE DEF b
  <2> QED BY <1>2
<1>4. c \in Nat /\ Scale * c <= f /\ f < Scale * c + Scale
  <2> HIDE DEF f
  <2> QED BY <1>3, Quotient
<1>5. Thousandths(raw, span) = a * 1000 + c  BY DEF Thousandths
<1> HIDE DEF a, b, c, f, p
<1>6. p = 65536 * a + b /\ 65536 * c <= b * 1000 /\ b * 1000 < 65536 * c + 65536
  BY <1>2, <1>3, <1>4, SMT DEF Scale
<1>7. /\ a * 1000 + c \in Nat
      /\ 65536 * (a * 1000 + c) <= p * 1000 /\ p * 1000 < 65536 * (a * 1000 + c) + 65536
  BY <1>1, <1>2, <1>4, <1>6, SMT
<1>8. p = raw * span  BY DEF p
<1> QED BY <1>5, <1>7, <1>8

(* A value of the temperature's span: what is read differs from it by at   *)
(* most the resolution, also at the upper limit, whose raw value is        *)
(* saturated.                                                              *)
LEMMA Read165 ==
    ASSUME NEW n \in Nat, n <= 165
    PROVE  /\ Stored(n, 165) \in 0 .. RawMax
           /\ Thousandths(Stored(n, 165), 165) \in n * 1000 - 3 .. n * 1000 + 3
<1> DEFINE m == n * Scale + 82
           q == m \div 165
           raw == Stored(n, 165)
           y == Thousandths(raw, 165)
<1>1. m \in Nat /\ m = n * 65536 + 82  BY SMT DEF Scale
<1>2. q \in Nat /\ 165 * q <= m /\ m < 165 * q + 165  BY <1>1, Quotient
<1>3. raw = IF q > 65535 THEN 65535 ELSE q
  BY SMT DEF Stored, Saturated, RoundClosest, Scale, RawMax
<1> HIDE DEF m, q, raw, y
<1>4. /\ raw \in 0 .. RawMax /\ raw \in Nat
      /\ 165 * raw <= n * 65536 + 82
      /\ n * 65536 + 82 < 165 * raw + 165 \/ (raw = 65535 /\ n = 165)
  <2>1. q > 65535 => n = 165  BY <1>1, <1>2, SMT
  <2>2. raw \in Nat /\ raw <= q /\ raw <= 65535  BY <1>2, <1>3, SMT
  <2>3. raw \in 0 .. RawMax
    <3>1. raw \in Nat /\ raw <= 65535  BY <2>2
    <3>2. RawMax \in Nat /\ raw <= RawMax  BY <3>1 DEF RawMax
    <3> QED BY <3>1, <3>2
  <2>4. 165 * raw <= n * 65536 + 82  BY <1>1, <1>2, <2>2, SMT
  <2>5. q > 65535 => raw = 65535  BY <1>3
  <2>6. q <= 65535 => raw = q  BY <1>2, <1>3, SMT
  <2>7. q > 65535 \/ q <= 65535  BY <1>2, SMT
  <2>8. CASE q > 65535  BY <2>1, <2>2, <2>3, <2>4, <2>5, <2>8
  <2>9. CASE q <= 65535
    <3>1. n * 65536 + 82 < 165 * raw + 165  BY <1>1, <1>2, <2>6, <2>9, SMT
    <3> QED BY <2>2, <2>3, <2>4, <3>1
  <2> QED BY <2>7, <2>8, <2>9
<1>5. y \in Nat /\ 65536 * y <= raw * 165 * 1000 /\ raw * 165 * 1000 < 65536 * y + 65536
  BY <1>4, ThousandthsRoundDown DEF y
<1>6. y \in n * 1000 - 3 .. n * 1000 + 3
  <2>1. CASE n * 65536 + 82 < 165 * raw + 165
    BY <1>4, <1>5, <2>1, SMT
  <2>2. CASE raw = 65535 /\ n = 165
    BY <1>5, <2>2, SMT
  <2> QED BY <1>4, <2>1, <2>2
<1> QED BY <1>4, <1>6 DEF raw, y

(* The same for a value in percent.                                        *)
LEMMA Read100 ==
    ASSUME NEW n \in Nat, n <= 100
    PROVE  /\ Stored(n, 100) \in 0 .. RawMax
           /\ Thousandths(Stored(n, 100), 100) \in n * 1000 - 2 .. n * 1000 + 2
<1> DEFINE m == n * Scale + 50
           q == m \div 100
           raw == Stored(n, 100)
           y == Thousandths(raw, 100)
<1>1. m \in Nat /\ m = n * 65536 + 50  BY SMT DEF Scale
<1>2. q \in Nat /\ 100 * q <= m /\ m < 100 * q + 100  BY <1>1, Quotient
<1>3. raw = IF q > 65535 THEN 65535 ELSE q
  BY SMT DEF Stored, Saturated, RoundClosest, Scale, RawMax
<1> HIDE DEF m, q, raw, y
<1>4. /\ raw \in 0 .. RawMax /\ raw \in Nat
      /\ 100 * raw <= n * 65536 + 50
      /\ n * 65536 + 50 < 100 * raw + 100 \/ (raw = 65535 /\ n = 100)
  <2>1. q > 65535 => n = 100  BY <1>1, <1>2, SMT
  <2>2. raw \in Nat /\ raw <= q /\ raw <= 65535  BY <1>2, <1>3, SMT
  <2>3. raw \in 0 .. RawMax
    <3>1. raw \in Nat /\ raw <= 65535  BY <2>2
    <3>2. RawMax \in Nat /\ raw <= RawMax  BY <3>1 DEF RawMax
    <3> QED BY <3>1, <3>2
  <2>4. 100 * raw <= n * 65536 + 50  BY <1>1, <1>2, <2>2, SMT
  <2>5. q > 65535 => raw = 65535  BY <1>3
  <2>6. q <= 65535 => raw = q  BY <1>2, <1>3, SMT
  <2>7. q > 65535 \/ q <= 65535  BY <1>2, SMT
  <2>8. CASE q > 65535  BY <2>1, <2>2, <2>3, <2>4, <2>5, <2>8
  <2>9. CASE q <= 65535
    <3>1. n * 65536 + 50 < 100 * raw + 100  BY <1>1, <1>2, <2>6, <2>9, SMT
    <3> QED BY <2>2, <2>3, <2>4, <3>1
  <2> QED BY <2>7, <2>8, <2>9
<1>5. y \in Nat /\ 65536 * y <= raw * 100 * 1000 /\ raw * 100 * 1000 < 65536 * y + 65536
  BY <1>4, ThousandthsRoundDown DEF y
<1>6. y \in n * 1000 - 2 .. n * 1000 + 2
  <2>1. CASE n * 65536 + 50 < 100 * raw + 100
    BY <1>4, <1>5, <2>1, SMT
  <2>2. CASE raw = 65535 /\ n = 100
    BY <1>5, <2>2, SMT
  <2> QED BY <1>4, <2>1, <2>2
<1> QED BY <1>4, <1>6 DEF raw, y

LEMMA Limits ==
    /\ Scale = RawMax + 1 /\ RawMax \in Nat
    /\ \A r \in {TEMP, HUMIDITY} :
         /\ Lower(r) \in Int /\ Span(r) \in {100, 165}
         /\ Epsilon(r) = IF Span(r) = 165 THEN 3 ELSE 2
<1>1. Scale = RawMax + 1 /\ RawMax \in Nat  BY DEF Scale, RawMax
<1>2. \A r \in {TEMP, HUMIDITY} : Lower(r) \in Int /\ Span(r) \in {100, 165}
  BY DEF Lower, Span, TEMP, HUMIDITY
<1>3. (165 * 1000 + 65535) \div 65536 = 3 /\ (100 * 1000 + 65535) \div 65536 = 2
  BY SMT
<1>4. \A r \in {TEMP, HUMIDITY} : Epsilon(r) = IF Span(r) = 165 THEN 3 ELSE 2
  BY <1>2, <1>3 DEF Epsilon, Scale, RawMax
<1> QED BY <1>1, <1>2, <1>4

(* A whole degree or percent is stored in a register, and shown to within  *)
(* the resolution.                                                         *)
LEMMA RoundTrip ==
    ASSUME NEW r \in {TEMP, HUMIDITY}, NEW v \in Lower(r) .. Lower(r) + Span(r)
    PROVE  ToRaw(r, v) \in 0 .. RawMax /\ Shows(r, ToRaw(r, v), v)
<1> DEFINE n   == v - Lower(r)
           raw == ToRaw(r, v)
           y   == Thousandths(raw, Span(r))
           eps == Epsilon(r)
<1>1. n \in 0 .. Span(r) /\ v = n + Lower(r) /\ v \in Int /\ Lower(r) \in Int  BY Limits
<1>2. raw = Stored(n, Span(r))  BY DEF ToRaw, Stored
<1>3. /\ raw \in 0 .. RawMax
      /\ y \in n * 1000 - eps .. n * 1000 + eps
      /\ eps \in Nat
  <2> HIDE DEF raw
  <2>1. CASE Span(r) = 165
    <3>1. raw = Stored(n, 165) /\ eps = 3 /\ y = Thousandths(raw, 165)
      BY <2>1, <1>2, Limits
    <3> HIDE DEF n, y, eps
    <3>2. n \in Nat /\ n <= 165  BY <2>1, <1>1
    <3>3. /\ Stored(n, 165) \in 0 .. RawMax
          /\ Thousandths(Stored(n, 165), 165) \in n * 1000 - 3 .. n * 1000 + 3
      BY <3>2, Read165
    <3>4. raw \in 0 .. RawMax  BY <3>1, <3>3
    <3>5. y \in n * 1000 - eps .. n * 1000 + eps  BY <3>1, <3>3
    <3> QED BY <3>1, <3>4, <3>5
  <2>2. CASE Span(r) = 100
    <3>1. raw = Stored(n, 100) /\ eps = 2 /\ y = Thousandths(raw, 100)
      BY <2>2, <1>2, Limits
    <3> HIDE DEF n, y, eps
    <3>2. n \in Nat /\ n <= 100  BY <2>2, <1>1
    <3>3. /\ Stored(n, 100) \in 0 .. RawMax
          /\ Thousandths(Stored(n, 100), 100) \in n * 1000 - 2 .. n * 1000 + 2
      BY <3>2, Read100
    <3>4. raw \in 0 .. RawMax  BY <3>1, <3>3
    <3>5. y \in n * 1000 - eps .. n * 1000 + eps  BY <3>1, <3>3
    <3> QED BY <3>1, <3>4, <3>5
  <2> QED BY <2>1, <2>2, Limits
<1>4. FromRaw(r, raw) = y + Lower(r) * 1000
  <2>1. raw * Span(r) \in Nat
    <3> HIDE DEF raw
    <3>1. raw \in Nat  BY <1>3, Limits
    <3>2. Span(r) = 100 \/ Span(r) = 165  BY Limits
    <3> QED BY <3>1, <3>2
  <2> DEFINE p == raw * Span(r)
             a == p \div Scale
             c == ((p % Scale) * 1000) \div Scale
  <2>2. FromRaw(r, raw) = (a + Lower(r)) * 1000 + c /\ y = a * 1000 + c
    BY DEF FromRaw, Thousandths
  <2>3. a \in Nat /\ c \in Nat
    <3> HIDE DEF p
    <3>1. p \in Nat  BY <2>1 DEF p
    <3>2. p % Scale \in Nat  BY <3>1, Remainder
    <3>3. (p % Scale) * 1000 \in Nat  BY <3>2
    <3> QED BY <3>1, <3>3, Quotient
  <2> HIDE DEF a, c, y, raw, p
  <2> QED BY <1>1, <2>2, <2>3
<1> HIDE DEF n, raw, y, eps
<1>5. FromRaw(r, raw) \in v * 1000 - eps .. v * 1000 + eps
  <2>1. y \in Int /\ n \in Int  BY <1>1, <1>3
  <2> QED BY <1>1, <1>3, <1>4, <2>1
<1> QED BY <1>3, <1>5 DEF Shows, raw, eps

----------------------------------------------------------------------------
(* The ranges of generated samples lie in the ranges of the exercise.      *)
LEMMA GeneratedRanges ==
    /\ \A n : RandTemp(n) \subseteq (TEMP_RAW_3C .. TEMP_RAW_7C) \cap (0 .. RawMax)
    /\ RandHumidity \subseteq (HUM_RAW_MIN .. HUM_RAW_MAX) \cap (0 .. RawMax)
<1>1. /\ {TEMP_RAW_3C, TEMP_RAW_4C, TEMP_RAW_5C, TEMP_RAW_7C} \subseteq Int
      /\ TEMP_RAW_3C <= TEMP_RAW_4C /\ TEMP_RAW_5C <= TEMP_RAW_7C
  BY SMT DEF TEMP_RAW_3C, TEMP_RAW_4C, TEMP_RAW_5C, TEMP_RAW_7C
<1>2. {HUM_RAW_MIN, HUM_RAW_MAX} \subseteq Int  BY SMT DEF HUM_RAW_MIN, HUM_RAW_MAX
<1>3. \A r \in RAW : r \in 0 .. RawMax /\ r \in Int  BY HdcEmulAssumption, Limits
<1> QED BY <1>1, <1>2, <1>3 DEF RandTemp, RandHumidity, Between

LEMMA Registers ==
    /\ TEMP # HUMIDITY /\ TEMP # MANUFID /\ TEMP # DEVICEID
    /\ HUMIDITY # MANUFID /\ HUMIDITY # DEVICEID /\ MANUFID # DEVICEID
    /\ TEMP + 1 = HUMIDITY
    /\ Reg = {TEMP, HUMIDITY, MANUFID, DEVICEID} /\ Reg \subseteq Int
    /\ {reg_manufid, reg_deviceid} \subseteq 0 .. RawMax
<1>1. {reg_manufid, reg_deviceid} \subseteq 0 .. RawMax
  BY SMT DEF reg_manufid, reg_deviceid, RawMax
<1> QED BY <1>1 DEF TEMP, HUMIDITY, MANUFID, DEVICEID, Reg

(* The contents that a generated sample leaves behind.                     *)
LEMMA SampleKeepsRegInv ==
    ASSUME HdcInv, GenerateSample, UNCHANGED <<fixed, set>>
    PROVE  /\ reg' \in [Reg -> 0 .. RawMax] /\ sample_count' \in Nat
           /\ RegInv'
<1>1. PICK temp \in RandTemp(sample_count), humidity \in RandHumidity :
        reg' = [r \in Reg |->
                  IF r = TEMP /\ r \notin KeptRegs THEN temp
                  ELSE IF r = HUMIDITY /\ r \notin KeptRegs THEN humidity
                  ELSE reg[r]]
  BY DEF GenerateSample
<1>2. /\ temp \in TEMP_RAW_3C .. TEMP_RAW_7C /\ temp \in 0 .. RawMax
      /\ humidity \in HUM_RAW_MIN .. HUM_RAW_MAX /\ humidity \in 0 .. RawMax
  BY GeneratedRanges
<1>3. reg' \in [Reg -> 0 .. RawMax]  BY <1>1, <1>2 DEF HdcInv, TypeOK
<1>4. \A r \in fixed : r \in {TEMP, HUMIDITY} /\ r \in Reg /\ reg'[r] = reg[r]
  BY <1>1, Registers DEF HdcInv, TypeOK, KeptRegs
<1>5. /\ TEMP \notin fixed => reg'[TEMP] = temp
      /\ HUMIDITY \notin fixed => reg'[HUMIDITY] = humidity
  BY <1>1, Registers DEF KeptRegs
<1>6. RegInv'  BY <1>2, <1>4, <1>5 DEF HdcInv, RegInv
<1>7. sample_count' \in Nat  BY DEF GenerateSample, HdcInv, TypeOK
<1> QED BY <1>3, <1>6, <1>7

LEMMA HdcInit == Init => HdcInv
<1> SUFFICES ASSUME Init PROVE HdcInv  OBVIOUS
<1>1. PICK temp \in RandTemp(0), humidity \in RandHumidity :
        reg = [r \in Reg |-> CASE r = TEMP -> temp [] r = HUMIDITY -> humidity
                  [] r = MANUFID -> reg_manufid [] r = DEVICEID -> reg_deviceid]
  BY DEF Init
<1>2. /\ reg[TEMP] = temp /\ reg[HUMIDITY] = humidity
      /\ reg[MANUFID] = reg_manufid /\ reg[DEVICEID] = reg_deviceid
  BY <1>1, Registers
<1>3. reg \in [Reg -> 0 .. RawMax]
  <2>1. \A r \in Reg : reg[r] \in 0 .. RawMax  BY <1>2, GeneratedRanges, Registers
  <2> QED BY <2>1, <1>1
<1>4. TypeOK  BY <1>3, Registers, Limits DEF Init, TypeOK
<1>5. PointerInv  BY DEF Init, PointerInv
<1>6. RegInv  BY <1>2, GeneratedRanges DEF Init, RegInv
<1> QED BY <1>4, <1>5, <1>6 DEF HdcInv

LEMMA HdcStep == HdcInv /\ [Next]_vars => HdcInv'
<1> SUFFICES ASSUME HdcInv, [Next]_vars PROVE HdcInv'  OBVIOUS
<1> USE DEF HdcInv
<1>1. CASE ReadId
  <2>1. TypeOK'  BY <1>1, Registers DEF ReadId, TypeOK
  <2>2. PointerInv'  BY <1>1 DEF ReadId, PointerInv
  <2>3. RegInv'  BY <1>1 DEF ReadId, RegInv
  <2> QED BY <2>1, <2>2, <2>3
<1>2. ASSUME NEW t \in Thread, WriteAddress(t) PROVE HdcInv'
  <2>1. TypeOK'  BY <1>2, Registers DEF WriteAddress, Goto, TypeOK
  <2>2. PointerInv'  BY <1>2 DEF WriteAddress, Goto, PointerInv, TypeOK
  <2>3. RegInv'  BY <1>2 DEF WriteAddress, RegInv
  <2> QED BY <2>1, <2>2, <2>3
<1>3. ASSUME NEW t \in Thread, Generate(t) PROVE HdcInv'
  <2>1. cur_reg = TEMP  BY <1>3 DEF Generate, PointerInv
  <2>2. GenerateSample /\ UNCHANGED <<fixed, set>>  BY <2>1, <1>3 DEF Generate
  <2>3. TypeOK'  BY <2>2, <1>3, SampleKeepsRegInv DEF Generate, Goto, TypeOK
  <2>4. PointerInv'  BY <1>3 DEF Generate, Goto, PointerInv, TypeOK
  <2> QED BY <2>2, <2>3, <2>4, SampleKeepsRegInv
<1>4. ASSUME NEW t \in Thread, CopyPointer(t) PROVE HdcInv'
  <2>1. TypeOK'  BY <1>4 DEF CopyPointer, FirstReg, Goto, emul_vars, TypeOK
  <2>2. PointerInv'
    BY <1>4 DEF CopyPointer, FirstReg, Goto, emul_vars, PointerInv, TypeOK
  <2>3. RegInv'  BY <1>4 DEF CopyPointer, emul_vars, RegInv
  <2> QED BY <2>1, <2>2, <2>3
<1>5. ASSUME NEW t \in Thread, ReadRegs(t) PROVE HdcInv'
  <2>1. TypeOK'  BY <1>5 DEF ReadRegs, Goto, emul_vars, TypeOK
  <2>2. PointerInv'  BY <1>5 DEF ReadRegs, Goto, emul_vars, PointerInv, TypeOK
  <2>3. RegInv'  BY <1>5 DEF ReadRegs, emul_vars, RegInv
  <2> QED BY <2>1, <2>2, <2>3
<1>6. ASSUME NEW r \in {TEMP, HUMIDITY}, NEW v \in Int, SetChannel(r, v) PROVE HdcInv'
  <2>1. v \in Lower(r) .. Lower(r) + Span(r)  BY <1>6, Limits DEF SetChannel
  <2>2. ToRaw(r, v) \in 0 .. RawMax  BY <2>1, RoundTrip
  <2>3. TypeOK'  BY <2>2, <1>6 DEF SetChannel, TypeOK
  <2>4. PointerInv'  BY <1>6 DEF SetChannel, PointerInv
  <2>5. r \in Reg /\ reg' = [reg EXCEPT ![r] = ToRaw(r, v)] /\ fixed' = fixed \cup {r}
    BY <1>6, Registers DEF SetChannel
  <2>6. reg'[r] = ToRaw(r, v) /\ set'[r] = v
    BY <2>5, <1>6 DEF SetChannel, TypeOK
  <2>7. \A q \in Reg \ {r} : reg'[q] = reg[q] /\ (q \in fixed => set'[q] = set[q])
    BY <2>5, <1>6 DEF SetChannel, TypeOK
  <2>8. fixed \subseteq Reg  BY Registers DEF TypeOK
  <2>9. RegInv'  BY <2>1, <2>5, <2>6, <2>7, <2>8, Registers DEF RegInv
  <2> QED BY <2>3, <2>4, <2>9
<1>7. CASE UNCHANGED vars
  BY <1>7 DEF vars, emul_vars, TypeOK, PointerInv, RegInv
<1> QED BY <1>1, <1>2, <1>3, <1>4, <1>5, <1>6, <1>7, HdcEmulAssumption DEF Next, CmdSet

(* The inductive invariant of the emulator: no fetch on its way meets      *)
(* another register address, and what was set stays set.                   *)
THEOREM HdcInvariant == Spec => []HdcInv
BY HdcInit, HdcStep, PTL DEF Spec

(* Only the last transfer of a fetch ends it, and it reads both channels.  *)
LEMMA FetchIsReadRegs ==
    ASSUME HdcInv, Next, NEW t \in Thread, Fetched(t)
    PROVE  ReadRegs(t)
<1>1. pc \in [Thread -> {"idle", "generate", "convert", "read"}]  BY DEF HdcInv, TypeOK
<1> QED
  BY <1>1 DEF Fetched, Next, CmdSet, ReadId, WriteAddress, Generate, CopyPointer, ReadRegs,
              SetChannel, Goto

LEMMA ReadsBoth ==
    ASSUME HdcInv, NEW t \in Thread, ReadRegs(t)
    PROVE  t_sample' = reg[TEMP] /\ rh_sample' = reg[HUMIDITY]
<1>1. from[t] = TEMP  BY DEF HdcInv, PointerInv
<1> QED BY <1>1, Registers DEF ReadRegs

(* What `sensor_emul set` stored is what every later transfer returns, up  *)
(* to the resolution that the backend reports.                             *)
THEOREM HdcSetValueIsRead == Spec => SetValueIsRead
<1> DEFINE Reads == \A t \in Thread : Fetched(t) =>
                      /\ TEMP \in fixed => Shows(TEMP, t_sample', set[TEMP])
                      /\ HUMIDITY \in fixed => Shows(HUMIDITY, rh_sample', set[HUMIDITY])
<1>1. HdcInv /\ [Next]_vars => [Reads]_vars
  <2> SUFFICES ASSUME HdcInv, Next, NEW t \in Thread, Fetched(t)
               PROVE  /\ TEMP \in fixed => Shows(TEMP, t_sample', set[TEMP])
                      /\ HUMIDITY \in fixed => Shows(HUMIDITY, rh_sample', set[HUMIDITY])
    OBVIOUS
  <2>1. ReadRegs(t)  BY FetchIsReadRegs
  <2>2. t_sample' = reg[TEMP] /\ rh_sample' = reg[HUMIDITY]  BY <2>1, ReadsBoth
  <2>3. \A r \in fixed : r \in {TEMP, HUMIDITY} /\ Shows(r, reg[r], set[r])
    BY RoundTrip DEF HdcInv, RegInv, TypeOK
  <2> QED BY <2>2, <2>3
<1> QED BY <1>1, HdcInvariant, PTL DEF Spec, SetValueIsRead

(* A channel that was not set reads a value of the exercise's range.       *)
THEOREM HdcRandomValueInRange == Spec => RandomValueInRange
<1> DEFINE Reads == \A t \in Thread : Fetched(t) =>
             /\ TEMP \notin fixed => TEMP_RAW_3C <= t_sample' /\ t_sample' <= TEMP_RAW_7C
             /\ HUMIDITY \notin fixed => HUM_RAW_MIN <= rh_sample' /\ rh_sample' <= HUM_RAW_MAX
<1>1. HdcInv /\ [Next]_vars => [Reads]_vars
  <2> SUFFICES ASSUME HdcInv, Next, NEW t \in Thread, Fetched(t)
               PROVE  /\ TEMP \notin fixed =>
                           TEMP_RAW_3C <= t_sample' /\ t_sample' <= TEMP_RAW_7C
                      /\ HUMIDITY \notin fixed =>
                           HUM_RAW_MIN <= rh_sample' /\ rh_sample' <= HUM_RAW_MAX
    OBVIOUS
  <2>1. ReadRegs(t)  BY FetchIsReadRegs
  <2>2. t_sample' = reg[TEMP] /\ rh_sample' = reg[HUMIDITY]  BY <2>1, ReadsBoth
  <2> QED BY <2>2 DEF HdcInv, RegInv
<1> QED BY <1>1, HdcInvariant, PTL DEF Spec, RandomValueInRange
============================================================================
