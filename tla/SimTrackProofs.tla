--------------------------- MODULE SimTrackProofs --------------------------
(* Theorems about module SimTrack, for every size of the pool, every set   *)
(* of threads that run, and any number of presses and commands.            *)
EXTENDS SimTrack, FiniteSetTheorems, TLAPS

LEMMA ReaderNames ==
    /\ "sensor" \in Reader /\ "shell" \in Reader /\ None \notin Reader
    /\ \A r \in Reader : r = "sensor" \/ r = "shell"
  BY DEF Reader, None

(* The readers for which P holds, counted.                                 *)
LEMMA CountReaders ==
    ASSUME NEW S \in SUBSET Reader
    PROVE  Cardinality(S) = (IF "sensor" \in S THEN 1 ELSE 0)
                            + (IF "shell" \in S THEN 1 ELSE 0)
<1>1. Cardinality({}) = 0 /\ IsFiniteSet({})
  BY FS_EmptySet
<1>2. \A x : Cardinality({x}) = 1 /\ IsFiniteSet({x})
  BY FS_Singleton
<1>3. Cardinality({"sensor"} \cup {"shell"}) = 2
  <2>1. Cardinality({"sensor"} \cup {"shell"})
          = IF "shell" \in {"sensor"} THEN Cardinality({"sensor"}) ELSE Cardinality({"sensor"}) + 1
    BY <1>2, FS_AddElement
  <2>2. "shell" \notin {"sensor"} /\ Cardinality({"sensor"}) = 1
    BY <1>2
  <2> QED BY <2>1, <2>2
<1>4. CASE S = {}
  BY <1>1, <1>4
<1>5. CASE S = {"sensor"}
  BY <1>2, <1>5
<1>6. CASE S = {"shell"}
  BY <1>2, <1>6
<1>7. CASE S = {"sensor"} \cup {"shell"}
  BY <1>3, <1>7
<1>8. S = {} \/ S = {"sensor"} \/ S = {"shell"} \/ S = {"sensor"} \cup {"shell"}
  BY DEF Reader
<1> QED BY <1>4, <1>5, <1>6, <1>7, <1>8

(* A message at the end of a queue, and one taken from its front.          *)
LEMMA QueueTypes ==
    ASSUME NEW q \in Seq({"pressed", "result"})
    PROVE  /\ \A m \in {"pressed", "result"} :
                /\ Append(q, m) \in Seq({"pressed", "result"})
                /\ Len(Append(q, m)) = Len(q) + 1
           /\ q # << >> =>
                /\ Tail(q) \in Seq({"pressed", "result"})
                /\ Len(Tail(q)) = Len(q) - 1 /\ Len(q) > 0
                /\ Head(q) \in {"pressed", "result"}
           /\ Len(q) \in Nat
  OBVIOUS

----------------------------------------------------------------------------
(* SimTrackInv.  The account of the buffers without Cardinality.           *)

Held(r) == IF reader[r] = "to_led" THEN 1 ELSE 0

HeldByReaders == Held("sensor") + Held("shell")

HeldByWorkq == IF workq \in {"to_sensor", "to_led"} THEN 1 ELSE 0

Account == POOL_SIZE = free + button_q + Len(led_q) + HeldByWorkq + HeldByReaders

LEMMA Amounts ==
    ASSUME TypeOK
    PROVE  /\ free \in Nat /\ button_q \in Nat /\ Len(led_q) \in Nat
           /\ HeldByWorkq \in Nat /\ HeldByReaders \in Nat
           /\ HeldByWorkq' \in Nat /\ HeldByReaders' \in Nat
           /\ \A r \in Reader : Held(r) \in {0, 1} /\ Held(r) <= HeldByReaders
<1>1. free \in Nat /\ button_q \in Nat /\ Len(led_q) \in Nat
  BY SimTrackAssumption, QueueTypes DEF TypeOK
<1>2. \A r \in Reader : Held(r) \in {0, 1} /\ Held(r)' \in {0, 1}
  BY DEF Held
<1>3. /\ Held("sensor") \in {0, 1} /\ Held("shell") \in {0, 1}
      /\ Held("sensor")' \in {0, 1} /\ Held("shell")' \in {0, 1}
  BY <1>2, ReaderNames
<1>4. HeldByReaders \in Nat /\ HeldByReaders' \in Nat
  BY <1>3 DEF HeldByReaders
<1>5. \A r \in Reader : Held(r) <= HeldByReaders
  BY <1>3, ReaderNames DEF HeldByReaders
<1>6. HeldByWorkq \in Nat /\ HeldByWorkq' \in Nat
  BY DEF HeldByWorkq
<1> QED BY <1>1, <1>2, <1>4, <1>5, <1>6

LEMMA AccountIsBufferAccount ==
    ASSUME TypeOK
    PROVE  BufferAccount <=> Account
<1> DEFINE S == { r \in Reader : reader[r] = "to_led" }
<1>1. Cardinality(S) = (IF "sensor" \in S THEN 1 ELSE 0) + (IF "shell" \in S THEN 1 ELSE 0)
  BY CountReaders
<1>2. Cardinality(S) = HeldByReaders
  BY <1>1, ReaderNames DEF Held, HeldByReaders
<1> HIDE DEF S
<1>3. BufferAccount <=> POOL_SIZE = free + button_q + Len(led_q) + HeldByWorkq + Cardinality(S)
  BY DEF BufferAccount, HeldByWorkq, S
<1> QED BY <1>2, <1>3 DEF Account

LEMMA PartsOfASum ==
    ASSUME NEW n \in Nat, NEW a \in Nat, NEW b \in Nat, NEW c \in Nat,
           NEW d \in Nat, NEW e \in Nat, n = a + b + c + d + e
    PROVE  a \in 0 .. n /\ b \in 0 .. n /\ c \in 0 .. n
  OBVIOUS

(* The account balances when what a step takes from the pool, the queues   *)
(* and the publications is what it gives to them.                          *)
LEMMA AccountStep ==
    ASSUME TypeOK, Account,
           free' \in Nat, button_q' \in Nat, Len(led_q') \in Nat,
           free' + button_q' + Len(led_q') + HeldByWorkq' + HeldByReaders'
             = free + button_q + Len(led_q) + HeldByWorkq + HeldByReaders
    PROVE  Account' /\ {free', button_q', Len(led_q')} \subseteq 0 .. POOL_SIZE
<1>0. /\ free \in Nat /\ button_q \in Nat /\ Len(led_q) \in Nat
      /\ HeldByWorkq \in Nat /\ HeldByReaders \in Nat
      /\ HeldByWorkq' \in Nat /\ HeldByReaders' \in Nat
  BY Amounts
<1>1. Account'
  BY <1>0 DEF Account
<1>2. POOL_SIZE \in Nat
  BY SimTrackAssumption
<1>3. POOL_SIZE = free' + button_q' + Len(led_q') + HeldByWorkq' + HeldByReaders'
  BY <1>1 DEF Account
<1>4. free' \in 0 .. POOL_SIZE /\ button_q' \in 0 .. POOL_SIZE /\ Len(led_q') \in 0 .. POOL_SIZE
  BY <1>0, <1>2, <1>3, PartsOfASum
<1> QED BY <1>1, <1>4

SafeInv == TypeOK /\ Account /\ ChannelHeld

LEMMA SafeIsSimTrackInv == SafeInv <=> SimTrackInv
  BY AccountIsBufferAccount DEF SafeInv, SimTrackInv

LEMMA SafeInit == Init => SafeInv
<1> SUFFICES ASSUME Init PROVE SafeInv
  OBVIOUS
<1> USE SimTrackAssumption DEF Init
<1>1. /\ Len(<< >>) = 0 /\ << >> \in Seq({"pressed", "result"})
  OBVIOUS
<1>2. TypeOK
  <2>1. /\ running \in BOOTS /\ user \in USERS /\ led \in BOOLEAN
        /\ led_q \in Seq({"pressed", "result"})
    BY <1>1
  <2>4. /\ free \in 0 .. POOL_SIZE /\ button_q \in 0 .. POOL_SIZE
        /\ Len(led_q) <= POOL_SIZE
    BY <1>1
  <2>2. /\ workq \in WorkqStep /\ reader \in [Reader -> ReaderStep]
        /\ fetched \in [Reader -> BOOLEAN] /\ loaded \in [Reader -> Nat]
        /\ reads \in [Reader -> Nat] /\ sensor_ch \in Reader \cup {None}
    BY DEF WorkqStep, ReaderStep
  <2>3. /\ {event_count, read_count, error_count} \subseteq Nat
        /\ presses \in 0 .. MAX_PRESSES /\ commands \in 0 .. MAX_COMMANDS
    OBVIOUS
  <2> QED BY <2>1, <2>2, <2>3, <2>4 DEF TypeOK
<1>3. Account
  BY <1>1, ReaderNames DEF Account, Held, HeldByWorkq, HeldByReaders
<1>4. ChannelHeld
  BY ReaderNames DEF ChannelHeld
<1> QED BY <1>2, <1>3, <1>4 DEF SafeInv

(* A reader that goes on, and the buffers of the readers after it did.     *)
LEMMA GoesEffect ==
    ASSUME TypeOK, NEW r \in Reader, NEW step \in ReaderStep, Goes(r, step)
    PROVE  /\ reader' \in [Reader -> ReaderStep]
           /\ reader'[r] = step
           /\ \A x \in Reader \ {r} : reader'[x] = reader[x]
           /\ HeldByReaders' = HeldByReaders - Held(r)
                               + (IF step = "to_led" THEN 1 ELSE 0)
<1>1. /\ reader' \in [Reader -> ReaderStep] /\ reader'[r] = step
      /\ \A x \in Reader \ {r} : reader'[x] = reader[x]
  BY DEF Goes, TypeOK
<1>2. CASE r = "sensor"
  <2>1. reader'["shell"] = reader["shell"]
    BY <1>1, <1>2, ReaderNames
  <2> QED BY <1>1, <1>2, <2>1 DEF Held, HeldByReaders
<1>3. CASE r = "shell"
  <2>1. reader'["sensor"] = reader["sensor"]
    BY <1>1, <1>3, ReaderNames
  <2> QED BY <1>1, <1>3, <2>1 DEF Held, HeldByReaders
<1> QED BY <1>1, <1>2, <1>3, ReaderNames

(* Every step of a publication of the button.                              *)
LEMMA WorkqSafe ==
    ASSUME SafeInv, PublishEvent \/ Workq
    PROVE  SafeInv'
<1> USE SimTrackAssumption DEF SafeInv
<1>0. /\ free \in Nat /\ button_q \in Nat /\ Len(led_q) \in Nat
      /\ HeldByWorkq \in Nat /\ HeldByReaders \in Nat
      /\ HeldByWorkq' \in Nat /\ HeldByReaders' \in Nat
  BY Amounts
<1>1. CASE PublishEvent
  <2> USE <1>1 DEF PublishEvent, env_vars, pool_vars, sensor_vars
  <2>1. TypeOK'
    BY DEF TypeOK, WorkqStep
  <2>2. Account' /\ ChannelHeld'
    BY DEF Account, Held, HeldByWorkq, HeldByReaders, ChannelHeld
  <2> QED BY <2>1, <2>2
<1>2. ASSUME Workq PROVE SafeInv'
  <2>1. /\ HeldByReaders' = HeldByReaders /\ ChannelHeld'
        /\ UNCHANGED <<env_vars, sensor_vars, led, presses>>
    BY <1>2 DEF Workq, PublishTakesBuf, DeliverToSensor, DeliverToLed, PublishFails,
       sensor_vars, HeldByReaders, Held, ChannelHeld
  <2>2. workq \in WorkqStep /\ event_count \in Nat /\ led_q \in Seq({"pressed", "result"})
    BY DEF TypeOK
  <2>6. /\ workq' \in WorkqStep /\ event_count' \in Nat
        /\ button_q' \in Nat /\ free' \in Nat
        /\ led_q' \in Seq({"pressed", "result"}) /\ Len(led_q') \in Nat
    <3>1. CASE PublishTakesBuf
      BY <1>0, <2>2, <3>1 DEF PublishTakesBuf, WorkqStep
    <3>2. CASE DeliverToSensor
      BY <1>0, <2>2, <3>2 DEF DeliverToSensor, WorkqStep
    <3>3. CASE DeliverToLed
      BY <1>0, <2>2, <3>3, QueueTypes DEF DeliverToLed, WorkqStep
    <3>4. CASE PublishFails
      BY <1>0, <2>2, <3>4 DEF PublishFails, OwnBuf, CountAfterError, WorkqStep
    <3> QED BY <1>2, <3>1, <3>2, <3>3, <3>4 DEF Workq
  <2>3. free' + button_q' + Len(led_q') + HeldByWorkq' = free + button_q + Len(led_q) + HeldByWorkq
    <3>1. CASE PublishTakesBuf
      BY <3>1, <1>0 DEF PublishTakesBuf, HeldByWorkq
    <3>2. CASE DeliverToSensor
      BY <3>2, <1>0 DEF DeliverToSensor, HeldByWorkq
    <3>3. CASE DeliverToLed
      <4>1. Len(led_q') = Len(led_q) + 1
        BY <3>3, QueueTypes DEF DeliverToLed, TypeOK
      <4> QED BY <3>3, <4>1, <1>0 DEF DeliverToLed, HeldByWorkq
    <3>4. CASE PublishFails
      <4>1. free = 0 /\ free' = 0 + HeldByWorkq /\ HeldByWorkq' = 0
        BY <3>4 DEF PublishFails, OwnBuf, HeldByWorkq
      <4> QED BY <3>4, <4>1, <1>0 DEF PublishFails
    <3> QED BY <1>2, <3>1, <3>2, <3>3, <3>4 DEF Workq
  <2>4. Account' /\ {free', button_q', Len(led_q')} \subseteq 0 .. POOL_SIZE
    BY <2>1, <2>3, <2>6, <1>0, AccountStep
  <2>5. TypeOK'
    BY <2>1, <2>4, <2>6 DEF TypeOK, env_vars, sensor_vars
  <2> QED BY <2>1, <2>4, <2>5
<1> QED BY <1>1, <1>2

LEMMA StartReadSafe ==
    ASSUME SafeInv, SensorReceives \/ CmdSensorRead
    PROVE  SafeInv'
<1> USE SimTrackAssumption, ReaderNames DEF SafeInv
<1>0. /\ free \in Nat /\ button_q \in Nat /\ Len(led_q) \in Nat
      /\ HeldByWorkq \in Nat /\ HeldByReaders \in Nat
      /\ HeldByWorkq' \in Nat /\ HeldByReaders' \in Nat
  BY Amounts
<1>1. PICK r \in Reader : reader[r] = "idle" /\ Goes(r, "fetch")
  BY DEF SensorReceives, CmdSensorRead
<1>2. /\ reader' \in [Reader -> ReaderStep] /\ reader'[r] = "fetch"
      /\ \A x \in Reader \ {r} : reader'[x] = reader[x]
      /\ HeldByReaders' = HeldByReaders
  <2>1. "fetch" \in ReaderStep /\ Held(r) = 0
    BY <1>1 DEF ReaderStep, Held
  <2> QED BY <1>1, <2>1, GoesEffect, <1>0
<1>3. /\ UNCHANGED <<env_vars, led_q, led, button_vars, fetched, loaded, sensor_ch,
                     read_count, error_count, reads>>
      /\ HeldByWorkq' = HeldByWorkq
  BY DEF SensorReceives, CmdSensorRead, pool_vars, button_vars, HeldByWorkq
<1>4. ChannelHeld'
  BY <1>1, <1>2, <1>3 DEF ChannelHeld
<1>5. /\ free' \in Nat /\ button_q' \in Nat /\ Len(led_q') \in Nat
      /\ free' + button_q' = free + button_q
  <2>1. CASE SensorReceives
    BY <1>3, <2>1, <1>0 DEF SensorReceives, AfterReceive
  <2>2. CASE CmdSensorRead
    BY <2>2, <1>0 DEF CmdSensorRead, pool_vars
  <2> QED BY <2>1, <2>2
<1>6. Account' /\ {free', button_q', Len(led_q')} \subseteq 0 .. POOL_SIZE
  <2>1. led_q' = led_q /\ HeldByWorkq' = HeldByWorkq /\ HeldByReaders' = HeldByReaders
    BY <1>2, <1>3
  <2>2. free' + button_q' + Len(led_q') + HeldByWorkq' + HeldByReaders'
          = free + button_q + Len(led_q) + HeldByWorkq + HeldByReaders
    BY <1>0, <1>5, <2>1
  <2> QED BY <1>5, <2>2, AccountStep
<1>7. commands' \in 0 .. MAX_COMMANDS
  <2>1. commands \in 0 .. MAX_COMMANDS /\ MAX_COMMANDS \in Nat
    BY DEF TypeOK
  <2>2. CASE SensorReceives
    BY <2>1, <2>2 DEF SensorReceives, env_vars
  <2>3. CASE CmdSensorRead
    BY <2>1, <2>3 DEF CmdSensorRead
  <2> QED BY <2>2, <2>3
<1>8. TypeOK'
  BY <1>2, <1>3, <1>6, <1>7 DEF TypeOK, env_vars, button_vars
<1> QED BY <1>4, <1>6, <1>8

LEMMA CountingSafe ==
    ASSUME SafeInv, NEW r \in Reader, Fetch(r) \/ Count(r), UNCHANGED env_vars
    PROVE  SafeInv'
<1> USE SimTrackAssumption, ReaderNames DEF SafeInv
<1>0. /\ free \in Nat /\ button_q \in Nat /\ Len(led_q) \in Nat
      /\ HeldByWorkq \in Nat /\ HeldByReaders \in Nat
      /\ HeldByWorkq' \in Nat /\ HeldByReaders' \in Nat
  BY Amounts
<1>1. PICK step \in ReaderStep \ {"buf", "to_led"} : Goes(r, step)
  BY DEF Fetch, Count, ReadReturns, ReaderStep
<1>2. reader[r] \notin {"buf", "to_led"} /\ Held(r) = 0
  BY DEF Fetch, Count, Held
<1>3. /\ reader' \in [Reader -> ReaderStep] /\ reader'[r] = step
      /\ \A x \in Reader \ {r} : reader'[x] = reader[x]
      /\ HeldByReaders' = HeldByReaders
  BY <1>1, <1>2, GoesEffect, <1>0
<1>4. UNCHANGED <<pool_vars, led, button_vars, sensor_ch, commands>>
  BY DEF Fetch, Count
<1>5. ChannelHeld'
  BY <1>1, <1>2, <1>3, <1>4 DEF ChannelHeld
<1>6. Account'
  BY <1>3, <1>4 DEF Account, HeldByWorkq, pool_vars, button_vars
<1>7. /\ fetched' \in [Reader -> BOOLEAN] /\ loaded' \in [Reader -> Nat]
      /\ reads' \in [Reader -> Nat]
  <2>1. CASE Fetch(r)
    <3>1. PICK ok \in BOOLEAN :
            /\ fetched' = [fetched EXCEPT ![r] = ok]
            /\ loaded' = [loaded EXCEPT ![r] = IF ok THEN read_count ELSE error_count]
      BY <2>1 DEF Fetch
    <3>2. (IF ok THEN read_count ELSE error_count) \in Nat
      BY DEF TypeOK
    <3>3. reads' = reads
      BY <2>1 DEF Fetch
    <3> QED BY <3>1, <3>2, <3>3 DEF TypeOK
  <2>2. CASE Count(r)
    <3>1. UNCHANGED <<fetched, loaded>>
      BY <2>2 DEF Count
    <3>2. reads' = reads \/ reads' = [reads EXCEPT ![r] = @ + 1]
      BY <2>2 DEF Count, ReadReturns
    <3>3. reads \in [Reader -> Nat]
      BY DEF TypeOK
    <3>4. reads' \in [Reader -> Nat]
      BY <3>2, <3>3
    <3> QED BY <3>1, <3>4 DEF TypeOK
  <2> QED BY <2>1, <2>2
<1>8. read_count' \in Nat /\ error_count' \in Nat
  <2>1. read_count \in Nat /\ error_count \in Nat /\ loaded[r] \in Nat
    BY DEF TypeOK
  <2>2. CASE Fetch(r)
    BY <2>1, <2>2 DEF Fetch
  <2>3. CASE Count(r)
    BY <2>1, <2>3 DEF Count, ErrorsAfter
  <2> QED BY <2>2, <2>3
<1>9. TypeOK'
  <2>1. UNCHANGED <<running, user, free, button_q, led_q, led, workq, event_count,
                    presses, commands, sensor_ch>>
    BY <1>4 DEF env_vars, pool_vars, button_vars
  <2>2. /\ running' \in BOOTS /\ user' \in USERS /\ workq' \in WorkqStep
        /\ sensor_ch' \in Reader \cup {None} /\ led' \in BOOLEAN
    BY <2>1 DEF TypeOK
  <2>3. /\ free' \in 0 .. POOL_SIZE /\ button_q' \in 0 .. POOL_SIZE
        /\ led_q' \in Seq({"pressed", "result"}) /\ Len(led_q') <= POOL_SIZE
    BY <2>1 DEF TypeOK
  <2>4. /\ {event_count', read_count', error_count'} \subseteq Nat
        /\ presses' \in 0 .. MAX_PRESSES /\ commands' \in 0 .. MAX_COMMANDS
    BY <1>8, <2>1 DEF TypeOK
  <2>5. /\ reader' \in [Reader -> ReaderStep] /\ fetched' \in [Reader -> BOOLEAN]
        /\ loaded' \in [Reader -> Nat] /\ reads' \in [Reader -> Nat]
    BY <1>3, <1>7
  <2> QED BY <2>2, <2>3, <2>4, <2>5, Zenon DEF TypeOK
<1> QED BY <1>5, <1>6, <1>9

LEMMA PublishResultSafe ==
    ASSUME SafeInv, NEW r \in Reader, UNCHANGED env_vars,
           LockChannel(r) \/ ResultTakesBuf(r) \/ DeliverResult(r) \/ ResultFails(r)
    PROVE  SafeInv'
<1> USE SimTrackAssumption, ReaderNames DEF SafeInv
<1>0. /\ free \in Nat /\ button_q \in Nat /\ Len(led_q) \in Nat
      /\ HeldByWorkq \in Nat /\ HeldByReaders \in Nat
      /\ HeldByWorkq' \in Nat /\ HeldByReaders' \in Nat
  BY Amounts
<1>1. PICK step \in {"buf", "to_led", "idle"} :
        /\ Goes(r, step)
        /\ step = "buf" => reader[r] = "lock" /\ sensor_ch = None /\ sensor_ch' = r
        /\ step = "to_led" => reader[r] = "buf" /\ sensor_ch' = sensor_ch
        /\ step = "idle" => sensor_ch' = IF sensor_ch = r THEN None ELSE sensor_ch
  BY DEF LockChannel, ResultTakesBuf, DeliverResult, ResultFails, ReadReturns, ChannelHeld
<1>2. /\ reader' \in [Reader -> ReaderStep] /\ reader'[r] = step
      /\ \A x \in Reader \ {r} : reader'[x] = reader[x]
      /\ HeldByReaders' = HeldByReaders - Held(r) + (IF step = "to_led" THEN 1 ELSE 0)
  <2>1. step \in ReaderStep
    BY DEF ReaderStep
  <2> QED BY <1>1, <2>1, GoesEffect
<1>3. ChannelHeld'
  <2>1. (step \in {"buf", "to_led"}) = (sensor_ch' = r)
    BY <1>1 DEF ChannelHeld
  <2>2. \A x \in Reader \ {r} : (sensor_ch' = x) = (sensor_ch = x)
    BY <1>1 DEF ChannelHeld
  <2> QED BY <1>2, <2>1, <2>2 DEF ChannelHeld
<1>4. /\ UNCHANGED <<button_q, led, button_vars, fetched, loaded, read_count, error_count,
                     commands>>
      /\ HeldByWorkq' = HeldByWorkq
  BY DEF LockChannel, ResultTakesBuf, DeliverResult, ResultFails, pool_vars, button_vars,
     HeldByWorkq
<1>5. /\ free' \in Nat /\ led_q' \in Seq({"pressed", "result"}) /\ Len(led_q') \in Nat
      /\ free' + Len(led_q') + HeldByReaders' = free + Len(led_q) + HeldByReaders
  <2>1. CASE LockChannel(r)
    <3>1. step = "buf" /\ Held(r) = 0
      BY <1>1, <1>2, <2>1, GoesEffect DEF LockChannel, Held, ReaderStep
    <3>2. HeldByReaders' = HeldByReaders
      BY <1>0, <1>2, <3>1
    <3> QED BY <1>0, <2>1, <3>2 DEF LockChannel, pool_vars, TypeOK
  <2>2. CASE ResultTakesBuf(r)
    <3>1. step = "to_led" /\ Held(r) = 0
      BY <1>1, <1>2, <2>2, GoesEffect DEF ResultTakesBuf, Held, ReaderStep
    <3>2. HeldByReaders' = HeldByReaders + 1 /\ led_q' = led_q /\ free > 0 /\ free' = free - 1
      BY <1>0, <1>2, <2>2, <3>1 DEF ResultTakesBuf
    <3> QED BY <1>0, <3>2 DEF TypeOK
  <2>3. CASE DeliverResult(r)
    <3>1. step = "idle" /\ Held(r) = 1
      BY <1>1, <1>2, <2>3, GoesEffect DEF DeliverResult, ReadReturns, Held, ReaderStep
    <3>2. led_q' \in Seq({"pressed", "result"}) /\ Len(led_q') = Len(led_q) + 1
      BY <2>3, QueueTypes DEF DeliverResult, TypeOK
    <3>3. HeldByReaders' = HeldByReaders - 1 /\ free' = free
      BY <1>0, <1>2, <2>3, <3>1 DEF DeliverResult
    <3> QED BY <1>0, <3>2, <3>3
  <2>4. CASE ResultFails(r)
    <3>1. step = "idle" /\ free' = free + Held(r) /\ led_q' = led_q
      BY <1>1, <1>2, <2>4, GoesEffect DEF ResultFails, ReadReturns, OwnBuf, Held, ReaderStep
    <3>2. CASE Held(r) = 0
      <4>1. HeldByReaders' = HeldByReaders /\ free' = free
        BY <1>0, <1>2, <3>1, <3>2
      <4> QED BY <1>0, <3>1, <4>1 DEF TypeOK
    <3>3. CASE Held(r) = 1
      <4>1. HeldByReaders' = HeldByReaders - 1 /\ free' = free + 1
        BY <1>0, <1>2, <3>1, <3>3
      <4>2. led_q' \in Seq({"pressed", "result"}) /\ Len(led_q') = Len(led_q)
        BY <3>1 DEF TypeOK
      <4> QED BY <1>0, <4>1, <4>2
    <3> QED BY <3>2, <3>3 DEF Held
  <2> QED BY <2>1, <2>2, <2>3, <2>4
<1>6. Account' /\ {free', button_q', Len(led_q')} \subseteq 0 .. POOL_SIZE
  <2>1. free' + button_q' + Len(led_q') + HeldByWorkq' + HeldByReaders'
          = free + button_q + Len(led_q) + HeldByWorkq + HeldByReaders
    <3>1. button_q' = button_q /\ HeldByWorkq' = HeldByWorkq
      BY <1>4
    <3>2. free' + Len(led_q') + HeldByReaders' = free + Len(led_q) + HeldByReaders
      BY <1>5
    <3>3. free' + button_q + Len(led_q') + HeldByWorkq + HeldByReaders'
            = button_q + HeldByWorkq + (free' + Len(led_q') + HeldByReaders')
      <4>1. /\ free' \in Nat /\ Len(led_q') \in Nat /\ HeldByReaders' \in Nat
            /\ button_q \in Nat /\ HeldByWorkq \in Nat
        BY <1>0, <1>5
      <4> QED BY <4>1
    <3>4. free + button_q + Len(led_q) + HeldByWorkq + HeldByReaders
            = button_q + HeldByWorkq + (free + Len(led_q) + HeldByReaders)
      BY <1>0
    <3> QED BY <3>1, <3>2, <3>3, <3>4
  <2>2. button_q' \in Nat
    BY <1>0, <1>4
  <2> QED BY <1>5, <2>1, <2>2, AccountStep
<1>7. reads' \in [Reader -> Nat] /\ sensor_ch' \in Reader \cup {None}
  <2>1. reads' = reads \/ reads' = [reads EXCEPT ![r] = @ + 1]
    BY DEF LockChannel, ResultTakesBuf, DeliverResult, ResultFails, ReadReturns
  <2>2. reads \in [Reader -> Nat] /\ sensor_ch \in Reader \cup {None}
    BY DEF TypeOK
  <2>3. reads' \in [Reader -> Nat]
    BY <2>1, <2>2
  <2>4. sensor_ch' \in {sensor_ch, r, None}
    BY <1>1
  <2> QED BY <2>2, <2>3, <2>4
<1>8. TypeOK'
  <2>1. Len(led_q') <= POOL_SIZE
    BY <1>6
  <2> QED BY <1>2, <1>4, <1>5, <1>6, <1>7, <2>1 DEF TypeOK, env_vars, button_vars
<1> QED BY <1>3, <1>6, <1>8

LEMMA LedReceivesSafe ==
    ASSUME SafeInv, LedReceives
    PROVE  SafeInv'
<1> USE SimTrackAssumption DEF SafeInv
<1>0. /\ free \in Nat /\ button_q \in Nat /\ Len(led_q) \in Nat
      /\ HeldByWorkq \in Nat /\ HeldByReaders \in Nat
      /\ HeldByWorkq' \in Nat /\ HeldByReaders' \in Nat
  BY Amounts
<1>1. UNCHANGED <<env_vars, button_q, button_vars, sensor_vars>> /\ free' = free + 1
  BY DEF LedReceives
<1>2. led_q' \in Seq({"pressed", "result"}) /\ Len(led_q') = Len(led_q) - 1 /\ Len(led_q) > 0
  BY QueueTypes DEF LedReceives, TypeOK
<1>3. HeldByWorkq' = HeldByWorkq /\ HeldByReaders' = HeldByReaders
  BY <1>1 DEF HeldByWorkq, HeldByReaders, Held, button_vars, sensor_vars
<1>4. Account' /\ {free', button_q', Len(led_q')} \subseteq 0 .. POOL_SIZE
  <2>1. free' \in Nat /\ button_q' \in Nat /\ Len(led_q') \in Nat
    BY <1>1, <1>2, <1>0
  <2>2. free' + Len(led_q') = free + Len(led_q)
    BY <1>1, <1>2, <1>0
  <2> QED BY <1>1, <1>3, <2>1, <2>2, <1>0, AccountStep
<1>5. led' \in BOOLEAN
  BY DEF LedReceives, LedAfter
<1>6. TypeOK' /\ ChannelHeld'
  BY <1>1, <1>2, <1>4, <1>5 DEF TypeOK, ChannelHeld, env_vars, button_vars, sensor_vars
<1> QED BY <1>4, <1>6

LEMMA SafeNext ==
    ASSUME SafeInv, [Next]_vars
    PROVE  SafeInv'
<1>1. CASE UNCHANGED vars
  BY <1>1 DEF SafeInv, TypeOK, Account, HeldByWorkq, HeldByReaders, Held, ChannelHeld, vars, env_vars, pool_vars,
     button_vars, sensor_vars
<1>2. CASE Next
  BY <1>2, WorkqSafe, StartReadSafe, CountingSafe, PublishResultSafe, LedReceivesSafe
     DEF Next, Reads
<1> QED BY <1>1, <1>2

(* Types, the account of the buffers and the holder of sensor_event_ch.    *)
THEOREM SimTrackInvariant == Spec => []SimTrackInv
<1>1. Spec => []SafeInv
  BY SafeInit, SafeNext, PTL DEF Spec
<1> QED BY <1>1, SafeIsSimTrackInv, PTL

----------------------------------------------------------------------------
(* CountInv.                                                               *)

Publishing == {"lock", "buf", "to_led"}

(* A step of perform_read() after the counter is written: the reader goes  *)
(* on publishing its result, or it returns.                                *)
LEMMA PublishResultEffect ==
    ASSUME TypeOK, NEW r \in Reader,
           LockChannel(r) \/ ResultTakesBuf(r) \/ DeliverResult(r) \/ ResultFails(r)
    PROVE  /\ UNCHANGED <<button_q, button_vars, fetched, loaded, read_count,
                          error_count, commands>>
           /\ \A x \in Reader \ {r} : reader'[x] = reader[x] /\ reads'[x] = reads[x]
           /\ reader[r] \in Publishing
           /\ \/ reader'[r] \in Publishing /\ reads'[r] = reads[r]
              \/ reader'[r] = "idle" /\ reads'[r] = reads[r] + 1
<1>1. /\ UNCHANGED <<button_q, button_vars, fetched, loaded, read_count,
                     error_count, commands>>
      /\ reader[r] \in Publishing
  BY DEF LockChannel, ResultTakesBuf, DeliverResult, ResultFails, pool_vars, Publishing
<1>2. \/ (\E step \in Publishing : Goes(r, step)) /\ reads' = reads
      \/ ReadReturns(r)
  BY DEF LockChannel, ResultTakesBuf, DeliverResult, ResultFails, Publishing
<1>3. reader \in [Reader -> ReaderStep] /\ reads \in [Reader -> Nat]
  BY DEF TypeOK
<1>4. CASE (\E step \in Publishing : Goes(r, step)) /\ reads' = reads
  BY <1>1, <1>3, <1>4 DEF Goes
<1>5. CASE ReadReturns(r)
  BY <1>1, <1>3, <1>5 DEF ReadReturns, Goes
<1> QED BY <1>2, <1>4, <1>5

LEMMA FetchEffect ==
    ASSUME TypeOK, NEW r \in Reader, Fetch(r)
    PROVE  /\ UNCHANGED <<button_q, button_vars, read_count, error_count, commands, reads>>
           /\ reader[r] = "fetch" /\ reader'[r] = "count"
           /\ loaded'[r] = IF fetched'[r] THEN read_count ELSE error_count
           /\ \A x \in Reader \ {r} : /\ reader'[x] = reader[x] /\ loaded'[x] = loaded[x]
                                      /\ fetched'[x] = fetched[x]
<1>1. /\ UNCHANGED <<button_q, button_vars, read_count, error_count, commands, reads>>
      /\ reader[r] = "fetch" /\ reader' = [reader EXCEPT ![r] = "count"]
  BY DEF Fetch, Goes, pool_vars
<1>2. PICK ok \in BOOLEAN :
        /\ fetched' = [fetched EXCEPT ![r] = ok]
        /\ loaded' = [loaded EXCEPT ![r] = IF ok THEN read_count ELSE error_count]
  BY DEF Fetch
<1>3. /\ reader \in [Reader -> ReaderStep] /\ fetched \in [Reader -> BOOLEAN]
      /\ loaded \in [Reader -> Nat]
  BY DEF TypeOK
<1>4. fetched'[r] = ok /\ \A x \in Reader \ {r} : fetched'[x] = fetched[x]
  BY <1>2, <1>3
<1>5. /\ loaded'[r] = IF ok THEN read_count ELSE error_count
      /\ \A x \in Reader \ {r} : loaded'[x] = loaded[x]
  BY <1>2, <1>3
<1>6. reader'[r] = "count" /\ \A x \in Reader \ {r} : reader'[x] = reader[x]
  BY <1>1, <1>3
<1> QED BY <1>1, <1>4, <1>5, <1>6

LEMMA CountEffect ==
    ASSUME TypeOK, NEW r \in Reader, Count(r)
    PROVE  /\ UNCHANGED <<button_q, button_vars, fetched, loaded, commands, reads>>
           /\ reader[r] = "count" /\ reader'[r] = "lock"
           /\ \A x \in Reader \ {r} : reader'[x] = reader[x]
           /\ \/ fetched[r] /\ read_count' = loaded[r] + 1 /\ error_count' = error_count
              \/ ~fetched[r] /\ error_count' = loaded[r] + 1 /\ read_count' = read_count
  BY DEF Count, Publishes, ErrorsAfter, Goes, pool_vars, TypeOK

LEMMA PressAccountNext ==
    ASSUME TypeOK, PressAccount, [Next]_vars
    PROVE  PressAccount'
<1>0. /\ event_count \in Nat /\ button_q \in Nat /\ reads["sensor"] \in Nat
      /\ \A r \in Reader : reads[r] \in Nat
  BY SimTrackAssumption, ReaderNames DEF TypeOK
<1>1. CASE PublishEvent
  BY <1>0, <1>1 DEF PublishEvent, PressAccount, pool_vars, sensor_vars
<1>2. CASE Workq
  <2>1. UNCHANGED <<reads, reader>>
    BY <1>2 DEF Workq, PublishTakesBuf, DeliverToSensor, DeliverToLed, PublishFails, sensor_vars
  <2>2. CASE PublishTakesBuf
    BY <1>0, <2>1, <2>2 DEF PublishTakesBuf, PressAccount
  <2>3. CASE DeliverToSensor
    BY <1>0, <2>1, <2>3 DEF DeliverToSensor, PressAccount
  <2>4. CASE DeliverToLed
    BY <1>0, <2>1, <2>4 DEF DeliverToLed, PressAccount
  <2>5. CASE PublishFails
    BY <1>0, <2>1, <2>5 DEF PublishFails, CountAfterError, PressAccount
  <2> QED BY <1>2, <2>2, <2>3, <2>4, <2>5 DEF Workq
<1>3. CASE SensorReceives
  <2>1. reader["sensor"] = "idle" /\ reader'["sensor"] = "fetch"
    BY <1>3, ReaderNames DEF SensorReceives, Goes, TypeOK
  <2>2. button_q' = button_q - 1 /\ UNCHANGED <<reads, workq, event_count>>
    BY <1>3 DEF SensorReceives, AfterReceive, button_vars
  <2> QED BY <1>0, <2>1, <2>2 DEF PressAccount
<1>4. CASE CmdSensorRead
  <2>1. reader'["sensor"] = reader["sensor"]
    BY <1>4, ReaderNames DEF CmdSensorRead, Goes, TypeOK
  <2>2. UNCHANGED <<button_q, reads, workq, event_count>>
    BY <1>4 DEF CmdSensorRead, button_vars, pool_vars
  <2> QED BY <2>1, <2>2 DEF PressAccount
<1>5. ASSUME NEW r \in Reader, Reads(r)
      PROVE  PressAccount'
  <2>1. /\ UNCHANGED <<button_q, workq, event_count>> /\ reader[r] # "idle"
        /\ \A x \in Reader \ {r} : reader'[x] = reader[x] /\ reads'[x] = reads[x]
        /\ \/ reader'[r] # "idle" /\ reads'[r] = reads[r]
           \/ reader'[r] = "idle" /\ reads'[r] = reads[r] + 1
    <3>1. CASE Fetch(r)
      BY <3>1, FetchEffect DEF button_vars
    <3>2. CASE Count(r)
      BY <3>2, CountEffect DEF button_vars
    <3>3. CASE LockChannel(r) \/ ResultTakesBuf(r) \/ DeliverResult(r) \/ ResultFails(r)
      BY <3>3, PublishResultEffect DEF button_vars, Publishing
    <3> QED BY <1>5, <3>1, <3>2, <3>3 DEF Reads
  <2>2. CASE r = "sensor"
    BY <1>0, <2>1, <2>2 DEF PressAccount
  <2>3. CASE r = "shell"
    <3>1. reader'["sensor"] = reader["sensor"] /\ reads'["sensor"] = reads["sensor"]
      BY <2>1, <2>3, ReaderNames
    <3> QED BY <2>1, <3>1 DEF PressAccount
  <2> QED BY <2>2, <2>3, ReaderNames
<1>6. CASE LedReceives \/ UNCHANGED vars
  BY <1>6 DEF LedReceives, PressAccount, vars, button_vars, sensor_vars, pool_vars
<1> QED BY <1>1, <1>2, <1>3, <1>4, <1>5, <1>6 DEF Next

(* How many reads have been counted, after a step of a reader.             *)
CountedReads == Counted("sensor") + Counted("shell")

LEMMA CountedTypes ==
    ASSUME TypeOK
    PROVE  /\ \A r \in Reader : Counted(r) \in Nat
           /\ CountedReads \in Nat
<1>1. \A r \in Reader : reads[r] \in Nat
  BY DEF TypeOK
<1>2. \A r \in Reader : Counted(r) \in Nat
  BY <1>1 DEF Counted
<1> QED BY <1>2, ReaderNames DEF CountedReads

LEMMA CountedEffect ==
    ASSUME TypeOK, NEW r \in Reader, NEW d \in {0, 1},
           \A x \in Reader \ {r} : reader'[x] = reader[x] /\ reads'[x] = reads[x],
           Counted(r)' = Counted(r) + d
    PROVE  CountedReads' = CountedReads + d
<1>1. \A x \in Reader \ {r} : Counted(x)' = Counted(x)
  BY DEF Counted
<1>2. Counted("sensor") \in Nat /\ Counted("shell") \in Nat
  BY CountedTypes, ReaderNames
<1>3. CASE r = "sensor"
  <2>1. Counted("shell")' = Counted("shell")
    BY <1>1, <1>3, ReaderNames
  <2> QED BY <1>2, <1>3, <2>1 DEF CountedReads
<1>4. CASE r = "shell"
  <2>1. Counted("sensor")' = Counted("sensor")
    BY <1>1, <1>4, ReaderNames
  <2> QED BY <1>2, <1>4, <2>1 DEF CountedReads
<1> QED BY <1>3, <1>4, ReaderNames

(* What the counters are or may become.                                    *)
MayBeRead(m)  == \/ m = read_count
                 \/ \E x \in Reader : reader[x] = "count" /\ fetched[x] = TRUE /\ m = loaded[x]

MayBeError(n) == \/ n = error_count
                 \/ \E x \in Reader : reader[x] = "count" /\ fetched[x] = FALSE /\ n = loaded[x]

MayBeBoth(m, n) == MayBeRead(m) /\ MayBeError(n)

LEMMA MayBeTypes ==
    ASSUME TypeOK, NEW m, NEW n, MayBeBoth(m, n)
    PROVE  m \in Nat /\ n \in Nat
<1>1. \A x \in Reader : loaded[x] \in Nat
  BY DEF TypeOK
<1>2. read_count \in Nat /\ error_count \in Nat
  BY DEF TypeOK
<1> QED BY <1>1, <1>2 DEF MayBeBoth, MayBeRead, MayBeError

LEMMA CountAccountUse ==
    ASSUME CountAccount, NEW m, NEW n, MayBeBoth(m, n)
    PROVE  m + n <= CountedReads
<1>1. m \in {read_count} \cup Loaded(TRUE)
  BY DEF Loaded, MayBeBoth, MayBeRead
<1>2. n \in {error_count} \cup Loaded(FALSE)
  BY DEF Loaded, MayBeBoth, MayBeError
<1> QED BY <1>1, <1>2 DEF CountAccount, CountedReads

LEMMA CountAccountNextIs ==
    ASSUME \A m, n : MayBeBoth(m, n)' => m + n <= CountedReads'
    PROVE  CountAccount'
<1> SUFFICES ASSUME NEW m \in {read_count'} \cup Loaded(TRUE)',
                    NEW n \in {error_count'} \cup Loaded(FALSE)'
             PROVE  m + n <= CountedReads'
  BY DEF CountAccount, CountedReads
<1>1. MayBeRead(m)'
  BY DEF Loaded, MayBeRead
<1>2. MayBeError(n)'
  BY DEF Loaded, MayBeError
<1> QED BY <1>1, <1>2 DEF MayBeBoth

LEMMA CountAccountReads ==
    ASSUME TypeOK, CountAccount, NEW r \in Reader, Reads(r)
    PROVE  CountAccount'
<1>0. CountedReads \in Nat /\ Counted(r) \in Nat /\ fetched[r] \in BOOLEAN
      /\ reads[r] \in Nat
  BY CountedTypes DEF TypeOK
<1>1. CASE Fetch(r)
  <2>1. Counted(r)' = Counted(r)
    BY <1>1, FetchEffect DEF Counted
  <2>2. CountedReads' = CountedReads + 0
    BY <1>0, <1>1, <2>1, FetchEffect, CountedEffect
  <2>3. ASSUME NEW m, NEW n, MayBeBoth(m, n)'
        PROVE  MayBeBoth(m, n)
    BY <1>1, <2>3, FetchEffect DEF MayBeBoth, MayBeRead, MayBeError
  <2> QED BY <1>0, <2>2, <2>3, CountAccountUse, CountAccountNextIs
<1>2. CASE Count(r)
  <2>1. Counted(r)' = Counted(r) + 1
    BY <1>0, <1>2, CountEffect DEF Counted
  <2>2. CountedReads' = CountedReads + 1
    BY <1>2, <2>1, CountEffect, CountedEffect
  <2>3. ASSUME NEW m, NEW n, MayBeBoth(m, n)'
        PROVE  m + n <= CountedReads + 1
    <3>1. \/ MayBeBoth(m, n)
          \/ m = loaded[r] + 1 /\ MayBeBoth(loaded[r], n)
          \/ n = loaded[r] + 1 /\ MayBeBoth(m, loaded[r])
      BY <1>0, <1>2, <2>3, CountEffect DEF MayBeBoth, MayBeRead, MayBeError
    <3>2. CASE MayBeBoth(m, n)
      BY <1>0, <3>2, CountAccountUse, MayBeTypes
    <3>3. CASE m = loaded[r] + 1 /\ MayBeBoth(loaded[r], n)
      BY <1>0, <3>3, CountAccountUse, MayBeTypes
    <3>4. CASE n = loaded[r] + 1 /\ MayBeBoth(m, loaded[r])
      BY <1>0, <3>4, CountAccountUse, MayBeTypes
    <3> QED BY <3>1, <3>2, <3>3, <3>4
  <2> QED BY <2>2, <2>3, CountAccountNextIs
<1>3. CASE LockChannel(r) \/ ResultTakesBuf(r) \/ DeliverResult(r) \/ ResultFails(r)
  <2>1. Counted(r)' = Counted(r)
    BY <1>0, <1>3, PublishResultEffect DEF Counted, Publishing
  <2>2. CountedReads' = CountedReads + 0
    BY <1>0, <1>3, <2>1, PublishResultEffect, CountedEffect
  <2>3. ASSUME NEW m, NEW n, MayBeBoth(m, n)'
        PROVE  MayBeBoth(m, n)
    BY <1>3, <2>3, PublishResultEffect DEF MayBeBoth, MayBeRead, MayBeError, Publishing
  <2> QED BY <1>0, <2>2, <2>3, CountAccountUse, CountAccountNextIs
<1> QED BY <1>1, <1>2, <1>3 DEF Reads

(* A reader that starts leaves the counted reads and the loaded values.    *)
LEMMA CountAccountKept ==
    ASSUME CountAccount, UNCHANGED <<read_count, error_count, fetched, loaded, reads>>,
           \A x \in Reader : \/ reader'[x] = reader[x]
                             \/ reader[x] = "idle" /\ reader'[x] = "fetch"
    PROVE  CountAccount'
<1>1. \A x \in Reader : Counted(x)' = Counted(x)
  BY DEF Counted
<1>2. CountedReads' = CountedReads
  BY <1>1, ReaderNames DEF CountedReads
<1>3. ASSUME NEW m, NEW n, MayBeBoth(m, n)'
      PROVE  MayBeBoth(m, n)
  BY <1>3 DEF MayBeBoth, MayBeRead, MayBeError
<1> QED BY <1>2, <1>3, CountAccountUse, CountAccountNextIs

LEMMA CountAccountNext ==
    ASSUME TypeOK, CountAccount, [Next]_vars
    PROVE  CountAccount'
<1>1. CASE SensorReceives \/ CmdSensorRead
  <2>1. UNCHANGED <<read_count, error_count, fetched, loaded, reads>>
    BY <1>1 DEF SensorReceives, CmdSensorRead
  <2>2. \A x \in Reader : \/ reader'[x] = reader[x]
                          \/ reader[x] = "idle" /\ reader'[x] = "fetch"
    BY <1>1 DEF SensorReceives, CmdSensorRead, Goes, TypeOK
  <2> QED BY <2>1, <2>2, CountAccountKept
<1>2. CASE PublishEvent \/ Workq \/ LedReceives \/ UNCHANGED vars
  <2>1. UNCHANGED <<reader, read_count, error_count, fetched, loaded, reads>>
    BY <1>2 DEF PublishEvent, Workq, PublishTakesBuf, DeliverToSensor, DeliverToLed,
       PublishFails, LedReceives, vars, sensor_vars
  <2> QED BY <2>1, CountAccountKept
<1> QED BY <1>1, <1>2, CountAccountReads DEF Next

LEMMA OneReaderNext ==
    ASSUME TypeOK, OneReader, [Next]_vars
    PROVE  OneReader'
<1>0. /\ read_count \in Nat /\ error_count \in Nat /\ commands \in Nat
      /\ \A x \in Reader : /\ Counted(x) \in Nat /\ reads[x] \in Nat
                            /\ loaded[x] \in Nat /\ fetched[x] \in BOOLEAN
  BY CountedTypes, SimTrackAssumption DEF TypeOK
<1>1. CASE PublishEvent \/ Workq \/ LedReceives \/ UNCHANGED vars
  <2>1. UNCHANGED <<reader, read_count, error_count, fetched, loaded, reads, commands>>
    BY <1>1 DEF PublishEvent, Workq, PublishTakesBuf, DeliverToSensor, DeliverToLed,
       PublishFails, LedReceives, vars, sensor_vars
  <2> QED BY <2>1 DEF OneReader, Counted
<1>2. CASE CmdSensorRead
  <2>1. commands' # 0
    BY <1>0, <1>2 DEF CmdSensorRead
  <2> QED BY <2>1 DEF OneReader
<1>3. CASE SensorReceives
  <2>1. UNCHANGED <<read_count, error_count, fetched, loaded, reads, commands>>
    BY <1>3 DEF SensorReceives
  <2>2. /\ reader["sensor"] = "idle" /\ reader'["sensor"] = "fetch"
        /\ reader'["shell"] = reader["shell"]
    BY <1>3, ReaderNames DEF SensorReceives, Goes, TypeOK
  <2> QED BY <2>1, <2>2 DEF OneReader, Counted
<1>4. ASSUME NEW r \in Reader, Reads(r), commands' = 0
      PROVE  OneReader'
  <2>1. commands = 0
    BY <1>4, FetchEffect, CountEffect, PublishResultEffect DEF Reads
  <2>2. /\ reader["shell"] = "idle" /\ reads["shell"] = 0
        /\ read_count + error_count = Counted("sensor")
        /\ reader["sensor"] = "count" =>
             loaded["sensor"] = IF fetched["sensor"] THEN read_count ELSE error_count
    BY <2>1 DEF OneReader
  <2>3. r = "sensor"
    <3>1. reader[r] # "idle"
      BY <1>4, FetchEffect, CountEffect, PublishResultEffect DEF Reads, Publishing
    <3> QED BY <1>4, <2>2, <3>1, ReaderNames
  <2>4. reader'["shell"] = "idle" /\ reads'["shell"] = 0
    <3>1. \A x \in Reader \ {r} : reader'[x] = reader[x] /\ reads'[x] = reads[x]
      BY <1>4, FetchEffect, CountEffect, PublishResultEffect DEF Reads
    <3> QED BY <2>2, <2>3, <3>1, ReaderNames
  <2>5. CASE Fetch(r)
    BY <1>0, <2>2, <2>3, <2>4, <2>5, FetchEffect DEF OneReader, Counted
  <2>6. CASE Count(r)
    <3>1. Counted("sensor") = reads["sensor"] /\ Counted("sensor")' = reads["sensor"] + 1
      BY <1>0, <2>3, <2>6, CountEffect, ReaderNames DEF Counted
    <3>2. loaded["sensor"] = IF fetched["sensor"] THEN read_count ELSE error_count
      BY <2>2, <2>3, <2>6, CountEffect
    <3>3. read_count' + error_count' = read_count + error_count + 1
      BY <1>0, <2>3, <2>6, <3>2, CountEffect, ReaderNames
    <3>4. reader'["sensor"] # "count"
      BY <2>3, <2>6, CountEffect
    <3> QED BY <2>2, <2>4, <3>1, <3>3, <3>4 DEF OneReader
  <2>7. CASE LockChannel(r) \/ ResultTakesBuf(r) \/ DeliverResult(r) \/ ResultFails(r)
    <3>1. Counted("sensor")' = Counted("sensor") /\ reader'["sensor"] # "count"
      BY <1>0, <2>3, <2>7, PublishResultEffect, ReaderNames DEF Counted, Publishing
    <3>2. UNCHANGED <<read_count, error_count>>
      BY <2>7, PublishResultEffect
    <3> QED BY <2>2, <2>4, <3>1, <3>2 DEF OneReader
  <2> QED BY <1>4, <2>5, <2>6, <2>7 DEF Reads
<1>5. commands' # 0 => OneReader'
  BY DEF OneReader
<1> QED BY <1>1, <1>2, <1>3, <1>4, <1>5 DEF Next

LEMMA CountInit == Init => CountInv
<1> SUFFICES ASSUME Init PROVE CountInv
  OBVIOUS
<1> USE ReaderNames DEF Init
<1>1. PressAccount /\ OneReader
  BY DEF PressAccount, OneReader, Counted
<1>2. CountAccount
  BY DEF CountAccount, Loaded, Counted
<1> QED BY <1>1, <1>2 DEF CountInv

(* Every press that was delivered, and every read that was counted, is     *)
(* accounted for at every step of perform_read() in both threads.          *)
THEOREM SimTrackCounts == Spec => []CountInv
<1>1. TypeOK /\ CountInv /\ [Next]_vars => CountInv'
  BY PressAccountNext, CountAccountNext, OneReaderNext DEF CountInv
<1>2. SimTrackInv => TypeOK
  BY DEF SimTrackInv
<1> QED BY CountInit, SimTrackInvariant, <1>1, <1>2, PTL DEF Spec

(* An event that publish_event() of the button counts was delivered to the *)
(* sensor thread before, and gets its own read, whatever other publication *)
(* fails.                                                                  *)
THEOREM SimTrackCountedPressIsRead == Spec => []CountedPressIsRead
<1>1. TypeOK /\ CountInv => CountedPressIsRead
  BY ReaderNames, SimTrackAssumption
     DEF TypeOK, CountInv, PressAccount, CountedPressIsRead, Settled
<1>2. SimTrackInv => TypeOK
  BY DEF SimTrackInv
<1> QED BY SimTrackInvariant, SimTrackCounts, <1>1, <1>2, PTL

(* `sensor info`: the counters never exceed the reads, and with the sensor *)
(* thread alone they account for each of them.                             *)
THEOREM SimTrackCountersAccountForReads == Spec => []CountersAccountForReads
<1>1. ASSUME TypeOK, CountInv, Settled
      PROVE  /\ read_count + error_count <= reads["sensor"] + reads["shell"]
             /\ commands = 0 => read_count + error_count = reads["sensor"]
  <2>1. Counted("sensor") = reads["sensor"] /\ Counted("shell") = reads["shell"]
    <3>1. reader["sensor"] = "idle" /\ reader["shell"] = "idle"
      BY <1>1, ReaderNames DEF Settled
    <3>2. reads["sensor"] \in Nat /\ reads["shell"] \in Nat
      BY <1>1, ReaderNames DEF TypeOK
    <3> QED BY <3>1, <3>2 DEF Counted
  <2>2. read_count + error_count <= Counted("sensor") + Counted("shell")
    BY <1>1 DEF CountInv, CountAccount
  <2>3. commands = 0 => read_count + error_count = Counted("sensor")
    BY <1>1 DEF CountInv, OneReader
  <2> QED BY <2>1, <2>2, <2>3
<1>2. TypeOK /\ CountInv => CountersAccountForReads
  BY <1>1 DEF CountersAccountForReads
<1>3. SimTrackInv => TypeOK
  BY DEF SimTrackInv
<1> QED BY SimTrackInvariant, SimTrackCounts, <1>2, <1>3, PTL

----------------------------------------------------------------------------
(* PatientInv.                                                             *)

(* A message that is queued, and one that is shown.                        *)
LEMMA WillBeLitAppend ==
    ASSUME TypeOK, NEW m \in {"pressed", "result"}, led_q' = Append(led_q, m)
    PROVE  /\ (WillBeLit' <=> m = "pressed")
           /\ led_q' # << >> /\ Len(led_q') = Len(led_q) + 1
<1>1. led_q \in Seq({"pressed", "result"})
  BY DEF TypeOK
<1>2. led_q' # << >> /\ led_q'[Len(led_q')] = m /\ Len(led_q') = Len(led_q) + 1
  BY <1>1
<1> QED BY <1>2 DEF WillBeLit

LEMMA WillBeLitReceive ==
    ASSUME TypeOK, LedReceives
    PROVE  (WillBeLit' <=> WillBeLit) /\ Len(led_q') = Len(led_q) - 1
<1>1. led_q \in Seq({"pressed", "result"}) /\ led_q # << >>
  BY DEF TypeOK, LedReceives
<1>2. led_q' = Tail(led_q) /\ led' = (Head(led_q) = "pressed")
  BY DEF LedReceives, LedAfter
<1>3. Len(led_q') = Len(led_q) - 1 /\ Len(led_q) \in Nat \ {0}
  BY <1>1, <1>2
<1>4. CASE Len(led_q) = 1
  <2>1. led_q' = << >> /\ led_q[Len(led_q)] = Head(led_q)
    BY <1>1, <1>2, <1>4
  <2> QED BY <1>1, <1>2, <1>3, <2>1 DEF WillBeLit
<1>5. CASE Len(led_q) # 1
  <2>1. led_q' # << >> /\ led_q'[Len(led_q')] = led_q[Len(led_q)]
    <3>1. Len(led_q) - 1 \in 1 .. Len(led_q) - 1 /\ Len(led_q) - 1 + 1 = Len(led_q)
      BY <1>3, <1>5
    <3>2. \A i \in 1 .. Len(led_q) - 1 : Tail(led_q)[i] = led_q[i + 1]
      BY <1>1
    <3>3. led_q'[Len(led_q')] = led_q[Len(led_q)]
      BY <1>2, <1>3, <3>1, <3>2
    <3>4. Len(led_q') # 0
      BY <1>3, <1>5
    <3> QED BY <3>3, <3>4
  <2> QED BY <1>1, <1>3, <2>1 DEF WillBeLit
<1> QED BY <1>4, <1>5

(* A step of a reader, as the LED sees it.                                 *)
LEMMA ReadsEffect ==
    ASSUME TypeOK, NEW r \in Reader, Reads(r)
    PROVE  /\ UNCHANGED <<env_vars, button_q, led, button_vars, commands>>
           /\ reader[r] # "idle"
           /\ \A x \in Reader \ {r} : reader'[x] = reader[x]
           /\ \/ reader'[r] # "idle" /\ led_q' = led_q
              \/ reader'[r] = "idle" /\ led_q' = Append(led_q, "result")
              \/ reader'[r] = "idle" /\ led_q' = led_q /\ free = 0
<1>1. UNCHANGED <<env_vars, button_q, led, button_vars, commands>>
  BY DEF Reads, Fetch, Count, LockChannel, ResultTakesBuf, DeliverResult, ResultFails,
     pool_vars
<1>2. reader \in [Reader -> ReaderStep]
  BY DEF TypeOK
<1>3. CASE Fetch(r) \/ Count(r)
  <2>1. led_q' = led_q
    BY <1>3 DEF Fetch, Count, pool_vars
  <2> QED BY <1>1, <1>3, <2>1, FetchEffect, CountEffect
<1>4. CASE LockChannel(r) \/ ResultTakesBuf(r)
  BY <1>1, <1>2, <1>4 DEF LockChannel, ResultTakesBuf, Goes, pool_vars
<1>5. CASE DeliverResult(r)
  BY <1>1, <1>2, <1>5 DEF DeliverResult, ReadReturns, Goes
<1>6. CASE ResultFails(r)
  BY <1>1, <1>2, <1>6 DEF ResultFails, ReadReturns, Goes
<1> QED BY <1>3, <1>4, <1>5, <1>6 DEF Reads

(* The steps without `sensor read`.                                        *)
LEMMA PatientSteps ==
    ASSUME TypeOK, [Next]_vars, commands' = 0, reader["shell"] = "idle"
    PROVE  /\ commands = 0 /\ reader'["shell"] = "idle" /\ UNCHANGED env_vars
           /\ \/ PublishEvent \/ Workq \/ SensorReceives
              \/ Reads("sensor") \/ LedReceives \/ UNCHANGED vars
<1>1. ~CmdSensorRead
  BY SimTrackAssumption DEF CmdSensorRead, TypeOK
<1>2. ~Reads("shell")
  BY ReadsEffect, ReaderNames
<1>3. \/ PublishEvent \/ Workq \/ SensorReceives
      \/ Reads("sensor") \/ LedReceives \/ UNCHANGED vars
  BY <1>1, <1>2, ReaderNames DEF Next
<1>4. CASE PublishEvent \/ Workq \/ LedReceives \/ UNCHANGED vars
  BY <1>4, <1>3 DEF PublishEvent, Workq, PublishTakesBuf, DeliverToSensor, DeliverToLed,
     PublishFails, LedReceives, vars, env_vars, sensor_vars
<1>5. CASE SensorReceives
  <2>1. reader'["shell"] = reader["shell"]
    BY <1>5, ReaderNames DEF SensorReceives, Goes, TypeOK
  <2> QED BY <1>3, <1>5, <2>1 DEF SensorReceives
<1>6. CASE Reads("sensor")
  BY <1>3, <1>6, ReadsEffect, ReaderNames
<1> QED BY <1>3, <1>4, <1>5, <1>6

(* A pool of three buffers runs out only with three buffers in use.        *)
LEMMA PoolRunsOut ==
    ASSUME SafeInv, POOL_SIZE >= 3, free = 0
    PROVE  button_q + Len(led_q) + HeldByWorkq + HeldByReaders >= 3
  BY Amounts DEF SafeInv, Account

LEMMA InProgressIs ==
    ASSUME reader["shell"] = "idle"
    PROVE  (ReadInProgress <=> button_q > 0 \/ reader["sensor"] # "idle")
  BY ReaderNames DEF ReadInProgress

LEMMA InProgressNextIs ==
    ASSUME reader'["shell"] = "idle"
    PROVE  (ReadInProgress' <=> button_q' > 0 \/ reader'["sensor"] # "idle")
  BY ReaderNames DEF ReadInProgress

LEMMA OnePressNext ==
    ASSUME SafeInv, POOL_SIZE >= 3, OnePress, [Next]_vars, user = "patient",
           {"sensor", "led"} \subseteq running, commands' = 0, reader["shell"] = "idle"
    PROVE  OnePress'
<1> USE DEF SafeInv
<1>0. /\ button_q \in Nat /\ Len(led_q) \in Nat /\ led \in BOOLEAN
      /\ led_q \in Seq({"pressed", "result"}) /\ workq \in WorkqStep
  BY SimTrackAssumption, QueueTypes DEF TypeOK
<1>1. /\ reader'["shell"] = "idle"
      /\ \/ PublishEvent \/ Workq \/ SensorReceives
         \/ Reads("sensor") \/ LedReceives \/ UNCHANGED vars
  BY PatientSteps
<1>2. /\ (ReadInProgress <=> button_q > 0 \/ reader["sensor"] # "idle")
      /\ (ReadInProgress' <=> button_q' > 0 \/ reader'["sensor"] # "idle")
  BY <1>1, InProgressIs, InProgressNextIs
<1>3. Held("shell") = 0
  BY DEF Held
<1>4. workq # "idle" => free # 0
  <2> SUFFICES ASSUME workq # "idle", free = 0 PROVE FALSE
    OBVIOUS
  <2>1. HeldByReaders = 0 /\ Len(led_q) = 0 /\ button_q <= 1 /\ HeldByWorkq <= 1
    BY <1>3 DEF OnePress, HeldByReaders, Held, HeldByWorkq
  <2> QED BY <1>0, <2>1, PoolRunsOut DEF HeldByWorkq
<1>5. reader["sensor"] # "idle" => free # 0
  <2> SUFFICES ASSUME reader["sensor"] # "idle", free = 0 PROVE FALSE
    OBVIOUS
  <2>1. workq = "idle" /\ button_q = 0 /\ Len(led_q) <= 1
    BY <1>0, <1>2 DEF OnePress
  <2>2. HeldByWorkq = 0 /\ HeldByReaders <= 1
    BY <1>3, <2>1 DEF HeldByReaders, Held, HeldByWorkq
  <2> QED BY <1>0, <2>1, <2>2, PoolRunsOut, Amounts
<1>6. CASE PublishEvent
  <2>1. workq = "idle" /\ reader["sensor"] = "idle" /\ button_q = 0 /\ led_q = << >>
    BY <1>6, ReaderNames DEF PublishEvent, Settled
  <2>2. ~led
    BY <1>2, <2>1 DEF OnePress, WillBeLit
  <2>3. workq' = "buf" /\ UNCHANGED <<reader, led_q, led, button_q>>
    BY <1>6 DEF PublishEvent, pool_vars, sensor_vars
  <2> QED BY <2>1, <2>2, <2>3 DEF OnePress
<1>7. CASE Workq
  <2>1. /\ reader["sensor"] = "idle" /\ led_q = << >> /\ ~led
        /\ button_q = IF workq = "to_led" THEN 1 ELSE 0
    BY <1>7 DEF Workq, PublishTakesBuf, DeliverToSensor, DeliverToLed, PublishFails, OnePress
  <2>2. UNCHANGED <<reader, led>>
    BY <1>7 DEF Workq, PublishTakesBuf, DeliverToSensor, DeliverToLed, PublishFails, sensor_vars
  <2>3. CASE PublishTakesBuf \/ DeliverToSensor
    BY <2>1, <2>2, <2>3 DEF PublishTakesBuf, DeliverToSensor, OnePress
  <2>4. CASE DeliverToLed
    <3>1. led_q' = Append(led_q, "pressed") /\ workq' = "idle" /\ button_q' = 1
      BY <2>1, <2>4 DEF DeliverToLed
    <3>2. WillBeLit' /\ Len(led_q') = 1
      BY <2>1, <3>1, WillBeLitAppend
    <3> QED BY <1>2, <2>1, <2>2, <3>1, <3>2 DEF OnePress
  <2>5. ~PublishFails
    BY <1>4 DEF PublishFails
  <2> QED BY <1>7, <2>3, <2>4, <2>5 DEF Workq
<1>8. CASE SensorReceives
  <2>1. /\ workq = "idle" /\ reader["sensor"] = "idle" /\ button_q > 0
        /\ button_q' = button_q - 1 /\ UNCHANGED <<led_q, led, workq>>
    BY <1>4, <1>8 DEF SensorReceives, WorkqYields, AfterReceive, button_vars
  <2>2. reader'["sensor"] = "fetch"
    BY <1>8, ReaderNames DEF SensorReceives, Goes, TypeOK
  <2>3. WillBeLit' <=> WillBeLit
    BY <2>1 DEF WillBeLit
  <2>4. button_q = 1
    BY <1>0, <2>1 DEF OnePress
  <2> QED BY <1>2, <2>1, <2>2, <2>3, <2>4 DEF OnePress
<1>9. CASE Reads("sensor")
  <2>1. /\ UNCHANGED <<button_q, led, workq>> /\ reader["sensor"] # "idle"
        /\ \/ reader'["sensor"] # "idle" /\ led_q' = led_q
           \/ reader'["sensor"] = "idle" /\ led_q' = Append(led_q, "result")
    BY <1>5, <1>9, ReadsEffect, ReaderNames DEF button_vars
  <2>2. workq = "idle" /\ button_q = 0 /\ Len(led_q) <= 1 /\ WillBeLit
    BY <1>0, <1>2, <2>1 DEF OnePress
  <2>3. CASE reader'["sensor"] # "idle" /\ led_q' = led_q
    BY <1>2, <2>1, <2>2, <2>3 DEF OnePress, WillBeLit
  <2>4. CASE reader'["sensor"] = "idle" /\ led_q' = Append(led_q, "result")
    <3>1. ~WillBeLit' /\ Len(led_q') = Len(led_q) + 1
      BY <2>4, WillBeLitAppend
    <3> QED BY <1>0, <1>2, <2>1, <2>2, <2>4, <3>1 DEF OnePress
  <2> QED BY <2>1, <2>3, <2>4
<1>10. CASE LedReceives
  <2>1. workq = "idle" /\ UNCHANGED <<workq, reader, button_q>>
    BY <1>10 DEF LedReceives, OnePress, button_vars, sensor_vars
  <2>2. (WillBeLit' <=> WillBeLit) /\ Len(led_q') = Len(led_q) - 1
    BY <1>10, WillBeLitReceive
  <2> QED BY <1>0, <1>2, <2>1, <2>2 DEF OnePress
<1>11. CASE UNCHANGED vars
  BY <1>11 DEF vars, pool_vars, button_vars, sensor_vars, OnePress, WillBeLit, ReadInProgress
<1> QED BY <1>1, <1>6, <1>7, <1>8, <1>9, <1>10, <1>11

LEMMA NeverReadNext ==
    ASSUME SafeInv, POOL_SIZE >= 3, NeverRead, [Next]_vars, user = "patient",
           "led" \in running, "sensor" \notin running, commands' = 0, reader["shell"] = "idle"
    PROVE  NeverRead'
<1> USE DEF SafeInv
<1>0. /\ button_q \in Nat /\ Len(led_q) \in Nat /\ led \in BOOLEAN
      /\ led_q \in Seq({"pressed", "result"}) /\ workq \in WorkqStep
  BY SimTrackAssumption, QueueTypes DEF TypeOK
<1>1. PublishEvent \/ Workq \/ LedReceives \/ UNCHANGED vars
  <2>1. ~Reads("sensor")
    BY ReadsEffect, ReaderNames DEF NeverRead
  <2>2. ~SensorReceives
    BY DEF SensorReceives
  <2> QED BY <2>1, <2>2, PatientSteps
<1>2. UNCHANGED reader
  BY <1>1 DEF PublishEvent, Workq, PublishTakesBuf, DeliverToSensor, DeliverToLed,
     PublishFails, LedReceives, vars, sensor_vars
<1>3. CASE PublishEvent
  <2>1. led_q = << >> /\ workq = "idle" /\ workq' = "buf" /\ UNCHANGED <<led_q, led, button_q>>
    BY <1>3 DEF PublishEvent, Settled, pool_vars
  <2> QED BY <1>2, <2>1 DEF NeverRead, WillBeLit
<1>4. CASE Workq
  <2>1. led_q = << >> /\ reader["sensor"] = "idle" /\ workq # "idle" /\ led' = led
    BY <1>4 DEF Workq, PublishTakesBuf, DeliverToSensor, DeliverToLed, PublishFails, NeverRead
  <2>2. CASE PublishTakesBuf
    BY <1>2, <2>1, <2>2 DEF PublishTakesBuf, NeverRead, WillBeLit
  <2>3. CASE DeliverToSensor
    <3>1. workq = "to_sensor" /\ workq' = "to_led" /\ button_q' = button_q + 1 /\ led_q' = led_q
      BY <2>3 DEF DeliverToSensor
    <3>2. led <=> button_q > 0
      BY <2>1, <3>1 DEF NeverRead, WillBeLit
    <3> QED BY <1>0, <1>2, <2>1, <3>1, <3>2 DEF NeverRead
  <2>4. CASE DeliverToLed
    <3>1. /\ led_q' = Append(led_q, "pressed") /\ workq' = "idle" /\ button_q' = button_q
          /\ button_q > 0
      BY <2>4 DEF DeliverToLed, NeverRead
    <3>2. WillBeLit'
      BY <3>1, WillBeLitAppend
    <3> QED BY <1>0, <1>2, <2>1, <3>1, <3>2 DEF NeverRead
  <2>5. CASE PublishFails
    <3>1. free = 0 /\ workq' = "idle" /\ UNCHANGED <<button_q, led_q, led>>
      BY <2>5 DEF PublishFails
    <3>2. HeldByReaders = 0 /\ Len(led_q) = 0 /\ HeldByWorkq \in Nat /\ HeldByWorkq <= 1
      BY <2>1 DEF HeldByReaders, Held, HeldByWorkq
    <3>3. button_q > 1
      BY <1>0, <3>1, <3>2, PoolRunsOut
    <3>4. led
      BY <1>0, <2>1, <3>3 DEF NeverRead, WillBeLit
    <3> QED BY <1>0, <1>2, <2>1, <3>1, <3>3, <3>4 DEF NeverRead, WillBeLit
  <2> QED BY <1>4, <2>2, <2>3, <2>4, <2>5 DEF Workq
<1>5. CASE LedReceives
  <2>1. workq = "idle" /\ UNCHANGED <<workq, button_q>>
    BY <1>5 DEF LedReceives, NeverRead, button_vars
  <2>2. WillBeLit' <=> WillBeLit
    BY <1>5, WillBeLitReceive
  <2> QED BY <1>2, <2>1, <2>2 DEF NeverRead
<1>6. CASE UNCHANGED vars
  BY <1>6 DEF vars, pool_vars, button_vars, sensor_vars, NeverRead, WillBeLit
<1> QED BY <1>1, <1>3, <1>4, <1>5, <1>6

LEMMA NeverShownNext ==
    ASSUME SafeInv, POOL_SIZE >= 3, NeverShown, [Next]_vars, user = "patient",
           "led" \notin running, commands' = 0, reader["shell"] = "idle"
    PROVE  NeverShown'
<1> USE DEF SafeInv
<1>0. /\ button_q \in Nat /\ Len(led_q) \in Nat
      /\ led_q \in Seq({"pressed", "result"}) /\ workq \in WorkqStep
  BY SimTrackAssumption, QueueTypes DEF TypeOK
<1>1. PublishEvent \/ Workq \/ SensorReceives \/ Reads("sensor") \/ UNCHANGED vars
  <2>1. ~LedReceives
    BY DEF LedReceives
  <2> QED BY <2>1, PatientSteps
<1>2. led' = led
  BY <1>1, ReadsEffect, ReaderNames DEF PublishEvent, Workq, PublishTakesBuf, DeliverToSensor,
     DeliverToLed, PublishFails, SensorReceives, vars
<1>3. led_q = << >> => free # 0
  <2> SUFFICES ASSUME led_q = << >>, free = 0 PROVE FALSE
    OBVIOUS
  <2>1. /\ HeldByReaders = 0 /\ Len(led_q) = 0 /\ button_q <= 1
        /\ HeldByWorkq \in Nat /\ HeldByWorkq <= 1
    BY DEF NeverShown, HeldByReaders, Held, HeldByWorkq
  <2> QED BY <1>0, <2>1, PoolRunsOut
<1>4. led_q # << >> => led_q' # << >>
  BY <1>0, <1>1, ReadsEffect, ReaderNames DEF PublishEvent, Workq, PublishTakesBuf,
     DeliverToSensor, DeliverToLed, PublishFails, SensorReceives, vars, pool_vars
<1>5. CASE led_q # << >>
  BY <1>2, <1>4, <1>5 DEF NeverShown
<1>6. ASSUME led_q = << >>
      PROVE  NeverShown'
  <2>1. reader["sensor"] = "idle" /\ button_q = IF workq = "to_led" THEN 1 ELSE 0
    BY <1>6 DEF NeverShown
  <2>2. ~PublishFails /\ ~SensorReceives /\ ~Reads("sensor")
    <3>1. ~PublishFails
      BY <1>3, <1>6 DEF PublishFails
    <3>2. ~SensorReceives
      BY <1>3, <1>6, <2>1 DEF SensorReceives, WorkqYields
    <3>3. ~Reads("sensor")
      BY <2>1, ReadsEffect, ReaderNames
    <3> QED BY <3>1, <3>2, <3>3
  <2>3. CASE PublishEvent
    BY <1>2, <2>1, <2>3 DEF PublishEvent, pool_vars, sensor_vars, NeverShown
  <2>4. CASE PublishTakesBuf \/ DeliverToSensor
    BY <1>2, <2>1, <2>4 DEF PublishTakesBuf, DeliverToSensor, sensor_vars, NeverShown
  <2>5. CASE DeliverToLed
    <3>1. led_q' # << >>
      BY <1>0, <2>5 DEF DeliverToLed
    <3> QED BY <1>2, <3>1 DEF NeverShown
  <2>6. CASE UNCHANGED vars
    BY <1>2, <2>1, <2>6 DEF vars, pool_vars, button_vars, sensor_vars, NeverShown
  <2> QED BY <1>1, <2>2, <2>3, <2>4, <2>5, <2>6 DEF Workq
<1> QED BY <1>5, <1>6

LEMMA CommandsGrow ==
    ASSUME TypeOK, [Next]_vars, commands' = 0
    PROVE  commands = 0
<1>1. commands \in Nat
  BY SimTrackAssumption DEF TypeOK
<1>2. \A r \in Reader : Reads(r) => commands' = commands
  BY ReadsEffect
<1> QED BY <1>1, <1>2 DEF Next, PublishEvent, Workq, PublishTakesBuf, DeliverToSensor,
     DeliverToLed, PublishFails, SensorReceives, CmdSensorRead, LedReceives, vars, sensor_vars

LEMMA PatientInit == Init => PatientInv
<1> SUFFICES ASSUME Init PROVE PatientInv
  OBVIOUS
<1> USE ReaderNames DEF Init
<1>1. OnePress
  BY DEF OnePress, WillBeLit, ReadInProgress
<1>2. NeverRead /\ NeverShown
  BY DEF NeverRead, NeverShown, WillBeLit
<1> QED BY <1>1, <1>2 DEF PatientInv

LEMMA PatientNext ==
    ASSUME SafeInv, POOL_SIZE >= 3, PatientInv, [Next]_vars
    PROVE  PatientInv'
<1>0. TypeOK
  BY DEF SafeInv
<1> SUFFICES ASSUME user' = "patient", commands' = 0
             PROVE  PatientInv'
  BY DEF PatientInv
<1>1. commands = 0
  BY <1>0, CommandsGrow
<1>2. UNCHANGED env_vars
  <2>1. \A r \in Reader : Reads(r) => UNCHANGED env_vars
    BY <1>0, ReadsEffect
  <2> QED BY <2>1 DEF Next, PublishEvent, Workq, SensorReceives, CmdSensorRead, LedReceives,
         vars, env_vars
<1>3. user = "patient" /\ running' = running
  BY <1>2 DEF env_vars
<1>4. reader["shell"] = "idle"
  BY <1>1, <1>3 DEF PatientInv
<1>5. reader'["shell"] = "idle"
  BY <1>0, <1>4, PatientSteps
<1>6. CASE {"sensor", "led"} \subseteq running
  <2>1. OnePress
    BY <1>1, <1>3, <1>6 DEF PatientInv
  <2>2. OnePress'
    BY <1>3, <1>4, <1>6, <2>1, OnePressNext
  <2> QED BY <1>3, <1>5, <1>6, <2>2 DEF PatientInv
<1>7. CASE "led" \in running /\ "sensor" \notin running
  <2>1. NeverRead
    BY <1>1, <1>3, <1>7 DEF PatientInv
  <2>2. NeverRead'
    BY <1>3, <1>4, <1>7, <2>1, NeverReadNext
  <2> QED BY <1>3, <1>5, <1>7, <2>2 DEF PatientInv
<1>8. CASE "led" \notin running
  <2>1. NeverShown
    BY <1>1, <1>3, <1>8 DEF PatientInv
  <2>2. NeverShown'
    BY <1>3, <1>4, <1>8, <2>1, NeverShownNext
  <2> QED BY <1>3, <1>5, <1>8, <2>2 DEF PatientInv
<1> QED BY <1>6, <1>7, <1>8

(* A user who waits until a press was dealt with never has more than one   *)
(* press under way, whichever threads run; where a thread returned at      *)
(* boot, as much of its work as there is stays undone.  With two buffers   *)
(* this is false.                                                          *)
THEOREM SimTrackPatient == POOL_SIZE >= 3 /\ Spec => []PatientInv
<1> SUFFICES ASSUME POOL_SIZE >= 3 PROVE Spec => []PatientInv
  OBVIOUS
<1>1. SafeInv /\ PatientInv /\ [Next]_vars => PatientInv'
  BY PatientNext
<1> QED BY <1>1, PatientInit, SafeInit, SafeNext, PTL DEF Spec

(* led.c:24: for that user the LED is lit exactly while a read is pending  *)
(* or in progress, once the LED thread has seen its messages.              *)
THEOREM SimTrackLedShowsRead == POOL_SIZE >= 3 /\ Spec => []LedShowsRead
<1>1. ASSUME TypeOK, PatientInv PROVE LedShowsRead
  <2> SUFFICES ASSUME user = "patient", commands = 0, workq = "idle", led_q = << >>
               PROVE  led = ReadInProgress
    BY DEF LedShowsRead
  <2>0. led \in BOOLEAN /\ button_q \in Nat
    BY <1>1, SimTrackAssumption DEF TypeOK
  <2>1. led \in BOOLEAN /\ ReadInProgress \in BOOLEAN
    BY <2>0 DEF ReadInProgress
  <2>2. ReadInProgress <=> button_q > 0 \/ reader["sensor"] # "idle"
    BY <1>1, InProgressIs DEF PatientInv
  <2>3. WillBeLit <=> led
    BY DEF WillBeLit
  <2>4. CASE {"sensor", "led"} \subseteq running
    <3>1. OnePress
      BY <1>1, <2>4 DEF PatientInv
    <3>2. led <=> ReadInProgress
      BY <2>3, <3>1 DEF OnePress
    <3> QED BY <2>1, <3>2
  <2>5. CASE "led" \in running /\ "sensor" \notin running
    <3>1. NeverRead
      BY <1>1, <2>5 DEF PatientInv
    <3>2. led <=> ReadInProgress
      BY <2>2, <2>3, <3>1 DEF NeverRead
    <3> QED BY <2>1, <3>2
  <2>6. CASE "led" \notin running
    <3>1. NeverShown
      BY <1>1, <2>6 DEF PatientInv
    <3>2. led <=> ReadInProgress
      BY <2>1, <2>2, <3>1 DEF NeverShown
    <3> QED BY <2>1, <3>2
  <2> QED BY <2>4, <2>5, <2>6
<1>2. TypeOK /\ PatientInv => LedShowsRead
  BY <1>1
<1>3. SimTrackInv => TypeOK
  BY DEF SimTrackInv
<1> QED BY <1>2, <1>3, SimTrackInvariant, SimTrackPatient, PTL

----------------------------------------------------------------------------
(* LitUntilRead, SettledIsDark: what the LED shows to any user.            *)

LEMMA LitUntilReadNext ==
    ASSUME TypeOK, LitUntilRead, [Next]_vars, ~ResultFails("sensor")
    PROVE  LitUntilRead'
<1>0. button_q \in Nat /\ workq \in WorkqStep /\ reader \in [Reader -> ReaderStep]
  BY SimTrackAssumption DEF TypeOK
<1>1. CASE PublishEvent
  BY <1>1 DEF PublishEvent, pool_vars, sensor_vars, LitUntilRead, WillBeLit
<1>2. CASE Workq
  <2>1. UNCHANGED <<reader, led>>
    BY <1>2 DEF Workq, PublishTakesBuf, DeliverToSensor, DeliverToLed, PublishFails, sensor_vars
  <2>2. CASE PublishTakesBuf
    BY <2>1, <2>2 DEF PublishTakesBuf, LitUntilRead, WillBeLit
  <2>3. CASE DeliverToSensor
    BY <1>0, <2>1, <2>3 DEF DeliverToSensor, LitUntilRead, WillBeLit
  <2>4. CASE DeliverToLed
    BY <2>1, <2>4 DEF DeliverToLed, LitUntilRead
  <2>5. CASE PublishFails
    BY <2>1, <2>5 DEF PublishFails, LitUntilRead, WillBeLit
  <2> QED BY <1>2, <2>2, <2>3, <2>4, <2>5 DEF Workq
<1>3. CASE SensorReceives
  <2>1. reader'["sensor"] = "fetch"
    BY <1>0, <1>3, ReaderNames DEF SensorReceives, Goes
  <2> QED BY <2>1 DEF LitUntilRead
<1>4. CASE CmdSensorRead
  <2>1. reader'["sensor"] = reader["sensor"]
    BY <1>0, <1>4, ReaderNames DEF CmdSensorRead, Goes
  <2> QED BY <1>4, <2>1 DEF CmdSensorRead, pool_vars, button_vars, LitUntilRead, WillBeLit
<1>5. ASSUME NEW r \in Reader, Reads(r)
      PROVE  LitUntilRead'
  <2>1. UNCHANGED <<button_q, led, workq>>
    BY <1>5, ReadsEffect DEF button_vars
  <2>2. CASE DeliverResult(r)
    <3>1. ~WillBeLit'
      BY <2>2, WillBeLitAppend DEF DeliverResult
    <3>2. workq' = "idle"
      BY <2>1, <2>2 DEF DeliverResult, WorkqYields
    <3> QED BY <3>1, <3>2 DEF LitUntilRead
  <2>3. CASE ~DeliverResult(r)
    <3>1. led_q' = led_q
      BY <1>5, <2>3 DEF Reads, Fetch, Count, LockChannel, ResultTakesBuf, ResultFails,
         pool_vars
    <3>2. reader'[r] = "idle" => r = "shell"
      <4>1. reader'[r] = "idle" => ResultFails(r)
        <5>1. reader \in [Reader -> ReaderStep]
          BY <1>0
        <5>2. CASE Fetch(r) \/ LockChannel(r) \/ ResultTakesBuf(r)
          BY <5>1, <5>2 DEF Fetch, LockChannel, ResultTakesBuf, Goes
        <5>3. CASE Count(r)
          BY <5>1, <5>3 DEF Count, Publishes, Goes
        <5> QED BY <1>5, <2>3, <5>2, <5>3 DEF Reads
      <4> QED BY <4>1, ReaderNames
    <3>3. reader["sensor"] # "idle" => reader'["sensor"] # "idle"
      BY <1>5, <3>2, ReadsEffect, ReaderNames
    <3> QED BY <2>1, <3>1, <3>3 DEF LitUntilRead, WillBeLit
  <2> QED BY <2>2, <2>3
<1>6. CASE LedReceives
  <2>1. WillBeLit' <=> WillBeLit
    BY <1>6, WillBeLitReceive
  <2> QED BY <1>6, <2>1 DEF LedReceives, button_vars, sensor_vars, LitUntilRead
<1>7. CASE UNCHANGED vars
  BY <1>7 DEF vars, pool_vars, button_vars, sensor_vars, LitUntilRead, WillBeLit
<1> QED BY <1>1, <1>2, <1>3, <1>4, <1>5, <1>6, <1>7 DEF Next

(* The LED thread that returned at boot lights nothing.                    *)
NoLedThread == "led" \notin running => ~led

LEMMA NoLedThreadNext ==
    ASSUME TypeOK, NoLedThread, [Next]_vars
    PROVE  NoLedThread'
<1>1. \A r \in Reader : Reads(r) => UNCHANGED <<env_vars, led>>
  BY ReadsEffect
<1>2. CASE LedReceives
  BY <1>2 DEF LedReceives, env_vars, NoLedThread
<1>3. ~LedReceives => UNCHANGED <<running, led>>
  BY <1>1 DEF Next, PublishEvent, Workq, PublishTakesBuf, DeliverToSensor, DeliverToLed,
     PublishFails, SensorReceives, CmdSensorRead, vars, env_vars, pool_vars
<1> QED BY <1>2, <1>3 DEF NoLedThread

(* Of a message that lights the LED, as long as no publication finds the   *)
(* pool empty: its read is still to come, whoever reads in between.        *)
THEOREM SimTrackLitUntilRead == Spec /\ [](free # 0) => []LitUntilRead
<1>1. Init => LitUntilRead
  BY DEF Init, LitUntilRead, WillBeLit
<1>2. TypeOK /\ free # 0 /\ LitUntilRead /\ [Next]_vars => LitUntilRead'
  <2>1. free # 0 => ~ResultFails("sensor")
    BY DEF ResultFails
  <2> QED BY <2>1, LitUntilReadNext
<1>3. SimTrackInv => TypeOK
  BY DEF SimTrackInv
<1> QED BY <1>1, <1>2, <1>3, SimTrackInvariant, PTL DEF Spec

(* A result that finds no buffer is all that can leave the LED lit with no *)
(* read to come, for every pool and every set of threads that run.         *)
THEOREM SimTrackLitOnlyByLostResult == Spec => LitOnlyByLostResult
<1>1. TypeOK /\ [Next]_vars
        => [LitUntilRead /\ ~LitUntilRead' => ResultFails("sensor")]_vars
  BY LitUntilReadNext
<1>2. SimTrackInv => TypeOK
  BY DEF SimTrackInv
<1> QED BY <1>1, <1>2, SimTrackInvariant, PTL DEF Spec, LitOnlyByLostResult

(* The threads run that ran at boot.                                       *)
LEMMA RunningStays ==
    ASSUME TypeOK, [Next]_vars
    PROVE  running' = running
<1>1. \A r \in Reader : Reads(r) => running' = running
  BY ReadsEffect DEF env_vars
<1> QED BY <1>1 DEF Next, PublishEvent, Workq, SensorReceives, CmdSensorRead, LedReceives,
       vars, env_vars

(* Once everything has settled the LED is dark, as long as no publication  *)
(* finds the pool empty and the sensor thread runs.                        *)
THEOREM SimTrackSettledIsDark ==
    Spec /\ "sensor" \in running /\ [](free # 0) => []SettledIsDark
<1>1. Init => NoLedThread
  BY DEF Init, NoLedThread
<1>2. TypeOK /\ NoLedThread /\ [Next]_vars => NoLedThread'
  BY NoLedThreadNext
<1>3. ASSUME TypeOK, LitUntilRead, NoLedThread, "sensor" \in running
      PROVE  SettledIsDark
  <2> SUFFICES ASSUME Settled, led PROVE FALSE
    BY DEF SettledIsDark
  <2>1. led_q = << >>
    BY <1>3 DEF Settled, NoLedThread
  <2>2. button_q = 0 /\ reader["sensor"] = "idle"
    BY <1>3, ReaderNames DEF Settled
  <2> QED BY <1>3, <2>1, <2>2 DEF LitUntilRead, WillBeLit
<1>4. TypeOK /\ LitUntilRead /\ NoLedThread /\ "sensor" \in running => SettledIsDark
  BY <1>3
<1>5. TypeOK /\ "sensor" \in running /\ [Next]_vars => ("sensor" \in running)'
  BY RunningStays
<1>6. SimTrackInv => TypeOK
  BY DEF SimTrackInv
<1> QED BY <1>1, <1>2, <1>4, <1>5, <1>6, SimTrackInvariant, SimTrackLitUntilRead, PTL DEF Spec

(* The buffers in use and those that what is under way may still take: two *)
(* for a press, one for a read.                                            *)
WorkqClaims    == IF workq = "idle" THEN 0 ELSE IF workq = "to_led" THEN 1 ELSE 2
ReaderClaims(r) == IF reader[r] = "idle" THEN 0 ELSE 1
Claims ==
    button_q + Len(led_q) + WorkqClaims + (ReaderClaims("sensor") + ReaderClaims("shell"))

ClaimsBounded == Claims <= 2 * presses + commands

LEMMA ClaimTypes ==
    /\ WorkqClaims \in Nat /\ WorkqClaims' \in Nat
    /\ \A r \in Reader : ReaderClaims(r) \in {0, 1} /\ ReaderClaims(r)' \in {0, 1}
    /\ ReaderClaims("sensor") \in Nat /\ ReaderClaims("shell") \in Nat
    /\ ReaderClaims("sensor")' \in Nat /\ ReaderClaims("shell")' \in Nat
  BY DEF WorkqClaims, ReaderClaims

(* What one reader claims after a step of it.                              *)
LEMMA ReaderClaimsEffect ==
    ASSUME NEW r \in Reader,
           \A x \in Reader \ {r} : reader'[x] = reader[x]
    PROVE  ReaderClaims("sensor")' + ReaderClaims("shell")' + ReaderClaims(r)
             = ReaderClaims("sensor") + ReaderClaims("shell") + ReaderClaims(r)'
<1>1. CASE r = "sensor"
  <2>1. ReaderClaims("shell")' = ReaderClaims("shell")
    BY <1>1, ReaderNames DEF ReaderClaims
  <2> QED BY <1>1, <2>1, ClaimTypes
<1>2. CASE r = "shell"
  <2>1. ReaderClaims("sensor")' = ReaderClaims("sensor")
    BY <1>2, ReaderNames DEF ReaderClaims
  <2> QED BY <1>2, <2>1, ClaimTypes
<1> QED BY <1>1, <1>2, ReaderNames

LEMMA ClaimsNext ==
    ASSUME TypeOK, TypeOK', ClaimsBounded, [Next]_vars
    PROVE  ClaimsBounded'
<1> DEFINE R == ReaderClaims("sensor") + ReaderClaims("shell")
<1>0. /\ button_q \in Nat /\ Len(led_q) \in Nat /\ presses \in Nat /\ commands \in Nat
      /\ button_q' \in Nat /\ Len(led_q') \in Nat /\ presses' \in Nat /\ commands' \in Nat
      /\ WorkqClaims \in Nat /\ WorkqClaims' \in Nat /\ R \in Nat /\ R' \in Nat
      /\ led_q \in Seq({"pressed", "result"}) /\ reader \in [Reader -> ReaderStep]
  <2>1. WorkqClaims \in Nat /\ WorkqClaims' \in Nat /\ R \in Nat /\ R' \in Nat
    BY ClaimTypes
  <2>2. /\ button_q \in Nat /\ Len(led_q) \in Nat /\ presses \in Nat /\ commands \in Nat
        /\ led_q \in Seq({"pressed", "result"}) /\ reader \in [Reader -> ReaderStep]
    BY SimTrackAssumption, QueueTypes DEF TypeOK
  <2>3. button_q' \in Nat /\ presses' \in Nat /\ commands' \in Nat
    BY SimTrackAssumption DEF TypeOK
  <2>4. Len(led_q') \in Nat
    <3>1. led_q' \in Seq({"pressed", "result"})
      BY DEF TypeOK
    <3> QED BY <3>1, QueueTypes
  <2> QED BY <2>1, <2>2, <2>3, <2>4
<1>1. button_q + Len(led_q) + WorkqClaims + R <= 2 * presses + commands
  BY DEF ClaimsBounded, Claims
<1> HIDE DEF R
<1>2. SUFFICES button_q' + Len(led_q') + WorkqClaims' + R' <= 2 * presses' + commands'
  BY DEF ClaimsBounded, Claims, R
<1>3. UNCHANGED reader => R' = R
  BY DEF R, ReaderClaims
<1>4. CASE PublishEvent
  <2>1. WorkqClaims = 0 /\ WorkqClaims' = 2 /\ presses' = presses + 1
    BY <1>4 DEF PublishEvent, WorkqClaims
  <2>2. UNCHANGED <<button_q, led_q, reader, commands>>
    BY <1>4 DEF PublishEvent, pool_vars, sensor_vars
  <2> QED BY <1>0, <1>1, <1>3, <2>1, <2>2
<1>5. CASE Workq
  <2>1. UNCHANGED <<reader, presses, commands>>
    BY <1>5 DEF Workq, PublishTakesBuf, DeliverToSensor, DeliverToLed, PublishFails, sensor_vars
  <2>2. CASE PublishTakesBuf
    <3>1. WorkqClaims' = WorkqClaims /\ UNCHANGED <<button_q, led_q>>
      BY <2>2 DEF PublishTakesBuf, WorkqClaims
    <3> QED BY <1>1, <1>3, <2>1, <3>1
  <2>3. CASE DeliverToSensor
    <3>1. /\ WorkqClaims = 2 /\ WorkqClaims' = 1 /\ button_q' = button_q + 1
          /\ led_q' = led_q
      BY <2>3 DEF DeliverToSensor, WorkqClaims
    <3> QED BY <1>0, <1>1, <1>3, <2>1, <3>1
  <2>4. CASE DeliverToLed
    <3>1. WorkqClaims = 1 /\ WorkqClaims' = 0 /\ button_q' = button_q
      BY <2>4 DEF DeliverToLed, WorkqClaims
    <3>2. Len(led_q') = Len(led_q) + 1
      BY <1>0, <2>4 DEF DeliverToLed
    <3> QED BY <1>0, <1>1, <1>3, <2>1, <3>1, <3>2
  <2>5. CASE PublishFails
    <3>1. WorkqClaims' = 0 /\ UNCHANGED <<button_q, led_q>>
      BY <2>5 DEF PublishFails, WorkqClaims
    <3> QED BY <1>0, <1>1, <1>3, <2>1, <3>1
  <2> QED BY <1>5, <2>2, <2>3, <2>4, <2>5 DEF Workq
<1>6. CASE SensorReceives
  <2>1. /\ reader["sensor"] = "idle" /\ reader'["sensor"] = "fetch"
        /\ \A x \in Reader \ {"sensor"} : reader'[x] = reader[x]
    BY <1>0, <1>6, ReaderNames DEF SensorReceives, Goes
  <2>2. R' = R + 1
    <3>1. ReaderClaims("sensor") = 0 /\ ReaderClaims("sensor")' = 1
      BY <2>1 DEF ReaderClaims
    <3> QED BY <2>1, <3>1, ReaderClaimsEffect, ReaderNames, ClaimTypes DEF R
  <2>3. button_q' = button_q - 1 /\ UNCHANGED <<led_q, workq, presses, commands>>
    BY <1>6 DEF SensorReceives, AfterReceive, button_vars
  <2>4. WorkqClaims' = WorkqClaims
    BY <2>3 DEF WorkqClaims
  <2> QED BY <1>0, <1>1, <2>2, <2>3, <2>4
<1>7. CASE CmdSensorRead
  <2>1. /\ reader["shell"] = "idle" /\ reader'["shell"] = "fetch"
        /\ \A x \in Reader \ {"shell"} : reader'[x] = reader[x]
    BY <1>0, <1>7, ReaderNames DEF CmdSensorRead, Goes
  <2>2. R' = R + 1
    <3>1. ReaderClaims("shell") = 0 /\ ReaderClaims("shell")' = 1
      BY <2>1 DEF ReaderClaims
    <3> QED BY <2>1, <3>1, ReaderClaimsEffect, ReaderNames, ClaimTypes DEF R
  <2>3. commands' = commands + 1 /\ UNCHANGED <<button_q, led_q, workq, presses>>
    BY <1>7 DEF CmdSensorRead, pool_vars, button_vars
  <2>4. WorkqClaims' = WorkqClaims
    BY <2>3 DEF WorkqClaims
  <2> QED BY <1>0, <1>1, <2>2, <2>3, <2>4
<1>8. ASSUME NEW r \in Reader, Reads(r)
      PROVE  button_q' + Len(led_q') + WorkqClaims' + R' <= 2 * presses' + commands'
  <2>1. UNCHANGED <<button_q, workq, presses, commands>> /\ WorkqClaims' = WorkqClaims
    BY <1>8, ReadsEffect DEF button_vars, WorkqClaims
  <2>2. R' + ReaderClaims(r) = R + ReaderClaims(r)' /\ ReaderClaims(r) = 1
    BY <1>8, ReadsEffect, ReaderClaimsEffect DEF R, ReaderClaims
  <2>3. \/ ReaderClaims(r)' = 1 /\ Len(led_q') = Len(led_q)
        \/ ReaderClaims(r)' = 0 /\ Len(led_q') = Len(led_q) + 1
        \/ ReaderClaims(r)' = 0 /\ Len(led_q') = Len(led_q)
    BY <1>0, <1>8, ReadsEffect DEF ReaderClaims
  <2> QED BY <1>0, <1>1, <2>1, <2>2, <2>3
<1>9. CASE LedReceives
  <2>1. Len(led_q') = Len(led_q) - 1
    BY <1>9, WillBeLitReceive
  <2>2. UNCHANGED <<button_q, workq, reader, presses, commands>> /\ WorkqClaims' = WorkqClaims
    BY <1>9 DEF LedReceives, button_vars, sensor_vars, WorkqClaims
  <2> QED BY <1>0, <1>1, <1>3, <2>1, <2>2
<1>10. CASE UNCHANGED vars
  <2>1. /\ UNCHANGED <<button_q, led_q, workq, reader, presses, commands>>
        /\ WorkqClaims' = WorkqClaims
    BY <1>10 DEF vars, pool_vars, button_vars, sensor_vars, WorkqClaims
  <2> QED BY <1>1, <1>3, <2>1
<1> QED BY <1>4, <1>5, <1>6, <1>7, <1>8, <1>9, <1>10 DEF Next

(* A pool that holds two buffers for every press and one for every command *)
(* does not run out, so that the LED is dark once everything has settled.  *)
THEOREM SimTrackAmplePool ==
    ASSUME POOL_SIZE > 2 * MAX_PRESSES + MAX_COMMANDS,
           \A b \in BOOTS : "sensor" \in b
    PROVE  Spec => [](free # 0) /\ []SettledIsDark
<1>1. Init => ClaimsBounded /\ "sensor" \in running
  <2>1. Len(<< >>) = 0
    OBVIOUS
  <2> QED BY <2>1, ReaderNames
          DEF Init, ClaimsBounded, Claims, WorkqClaims, ReaderClaims
<1>2. TypeOK /\ TypeOK' /\ ClaimsBounded /\ [Next]_vars => ClaimsBounded'
  BY ClaimsNext
<1>3. ASSUME SafeInv, ClaimsBounded PROVE free # 0
  <2>1. /\ free \in Nat /\ button_q \in Nat /\ Len(led_q) \in Nat
        /\ HeldByWorkq \in Nat /\ HeldByReaders \in Nat
        /\ presses \in 0 .. MAX_PRESSES /\ commands \in 0 .. MAX_COMMANDS
    BY <1>3, Amounts DEF SafeInv, TypeOK
  <2>2. HeldByWorkq <= WorkqClaims
    BY DEF HeldByWorkq, WorkqClaims
  <2>3. HeldByReaders <= ReaderClaims("sensor") + ReaderClaims("shell")
    <3>1. \A r \in Reader : Held(r) \in Nat /\ Held(r) <= ReaderClaims(r)
      BY DEF Held, ReaderClaims
    <3>2. Held("sensor") <= ReaderClaims("sensor") /\ Held("shell") <= ReaderClaims("shell")
      BY <3>1, ReaderNames
    <3>3. Held("sensor") \in Nat /\ Held("shell") \in Nat
      BY <3>1, ReaderNames
    <3> QED BY <3>2, <3>3, ClaimTypes DEF HeldByReaders
  <2>4. button_q + Len(led_q) + WorkqClaims + (ReaderClaims("sensor") + ReaderClaims("shell"))
          <= 2 * presses + commands
    BY <1>3 DEF ClaimsBounded, Claims
  <2>5. 2 * presses + commands <= 2 * MAX_PRESSES + MAX_COMMANDS
    BY <2>1, SimTrackAssumption
  <2>6. POOL_SIZE = free + button_q + Len(led_q) + HeldByWorkq + HeldByReaders
    BY <1>3 DEF SafeInv, Account
  <2>7. ReaderClaims("sensor") + ReaderClaims("shell") \in Nat /\ WorkqClaims \in Nat
    BY ClaimTypes
  <2>8. button_q + Len(led_q) + HeldByWorkq + HeldByReaders <= 2 * presses + commands
    BY <2>1, <2>2, <2>3, <2>4, <2>7
  <2>9. button_q + Len(led_q) + HeldByWorkq + HeldByReaders < POOL_SIZE
    BY <2>1, <2>5, <2>8, SimTrackAssumption
  <2> QED BY <2>1, <2>6, <2>9
<1>4. SafeInv /\ ClaimsBounded => free # 0
  BY <1>3
<1>5. SafeInv => TypeOK
  BY DEF SafeInv
<1>6. Spec => []SafeInv
  BY SafeInit, SafeNext, PTL DEF Spec
<1>7. Spec => [](free # 0) /\ "sensor" \in running
  BY <1>1, <1>2, <1>4, <1>5, <1>6, PTL DEF Spec
<1> QED BY <1>7, SimTrackSettledIsDark, PTL
=============================================================================
