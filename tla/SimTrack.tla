------------------------------ MODULE SimTrack -----------------------------
(***************************************************************************)
(* The modules of samples/sim_test_track and their messages.  The system   *)
(* work queue publishes a press on button_event_ch; the sensor thread and  *)
(* the LED thread each get a copy of it.  The sensor thread, or the shell  *)
(* in `sensor read`, reads the sensor and publishes the result on          *)
(* sensor_event_ch, to which only the LED thread listens.                  *)
(*                                                                         *)
(* zbus is external: a publication locks the channel, takes one net_buf    *)
(* for itself and one per message subscriber, in the order of the          *)
(* subscribers' names, and gives up when its 100 ms pass without a free    *)
(* buffer, whatever it has delivered by then.                              *)
(***************************************************************************)
EXTENDS Naturals, FiniteSets, Sequences

CONSTANTS
    POOL_SIZE,     \* CONFIG_ZBUS_MSG_SUBSCRIBER_NET_BUF_POOL_SIZE
    BOOTS,         \* sets of threads whose devices are ready at boot
    MAX_PRESSES,   \* bound: presses that are debounced
    MAX_COMMANDS,  \* bound: `sensor read` commands
    USERS          \* a patient one waits until a press was dealt with

ASSUME SimTrackAssumption ==
    /\ POOL_SIZE \in Nat \ {0}
    /\ MAX_PRESSES \in Nat /\ MAX_COMMANDS \in Nat
    /\ BOOTS \subseteq SUBSET {"sensor", "led"} /\ BOOTS # {}
    /\ USERS \subseteq {"patient", "impatient"} /\ USERS # {}

Reader == {"sensor", "shell"}
None   == "none"

VARIABLES
    running,       \* threads that did not return at boot
    user,          \* who presses the button
    free,          \* net_bufs left in the pool
    button_q,      \* messages that wait for the sensor thread
    led_q,         \* messages that wait for the LED thread, in order
    led,           \* the LED is lit
    workq,         \* how far publish_event() of the button has come
    reader,        \* how far each thread has come in perform_read()
    fetched,       \* each reader's sensor_sample_fetch() succeeded
    loaded,        \* the counter that each reader is about to write back
    sensor_ch,     \* the holder of sensor_event_ch, or None
    event_count, read_count, error_count,
    presses, commands,  \* used up of the two bounds
    reads               \* history: calls of perform_read() that have returned

pool_vars   == <<free, button_q, led_q>>
button_vars == <<workq, event_count, presses>>
sensor_vars == <<reader, fetched, loaded, sensor_ch, read_count, error_count, commands, reads>>
env_vars    == <<running, user>>
vars == <<env_vars, pool_vars, led, button_vars, sensor_vars>>

WorkqStep  == {"idle", "buf", "to_sensor", "to_led"}
ReaderStep == {"idle", "fetch", "count", "lock", "buf", "to_led"}

TypeOK ==
    /\ running \in BOOTS /\ user \in USERS
    /\ free \in 0 .. POOL_SIZE
    /\ button_q \in 0 .. POOL_SIZE
    /\ led_q \in Seq({"pressed", "result"}) /\ Len(led_q) <= POOL_SIZE
    /\ led \in BOOLEAN
    /\ workq \in WorkqStep
    /\ reader \in [Reader -> ReaderStep]
    /\ fetched \in [Reader -> BOOLEAN]
    /\ loaded \in [Reader -> Nat]
    /\ sensor_ch \in Reader \cup {None}
    /\ {event_count, read_count, error_count} \subseteq Nat
    /\ presses \in 0 .. MAX_PRESSES
    /\ commands \in 0 .. MAX_COMMANDS
    /\ reads \in [Reader -> Nat]

Init ==
    /\ running \in BOOTS /\ user \in USERS
    /\ free = POOL_SIZE /\ button_q = 0 /\ led_q = << >> /\ led = FALSE
    /\ workq = "idle" /\ event_count = 0 /\ presses = 0
    /\ reader = [r \in Reader |-> "idle"]
    /\ fetched = [r \in Reader |-> FALSE]
    /\ loaded = [r \in Reader |-> 0]
    /\ sensor_ch = None /\ read_count = 0 /\ error_count = 0 /\ commands = 0
    /\ reads = [r \in Reader |-> 0]

Settled ==
    /\ workq = "idle" /\ \A r \in Reader : reader[r] = "idle"
    /\ ("sensor" \in running => button_q = 0) /\ ("led" \in running => led_q = << >>)

----------------------------------------------------------------------------
(* The button, on the system work queue.  Its thread is cooperative: no    *)
(* other thread runs before publish_event() returns or waits for a buffer. *)

PublishEvent ==
    /\ workq = "idle" /\ presses < MAX_PRESSES
    /\ user = "patient" => Settled
    /\ workq' = "buf"
    /\ presses' = presses + 1
    /\ UNCHANGED <<env_vars, pool_vars, led, sensor_vars, event_count>>

PublishTakesBuf ==
    /\ workq = "buf" /\ free > 0
    /\ workq' = "to_sensor"
    /\ free' = free - 1
    /\ UNCHANGED <<button_q, led_q, led, sensor_vars, event_count, presses>>

DeliverToSensor ==
    /\ workq = "to_sensor" /\ free > 0
    /\ workq' = "to_led"
    /\ free' = free - 1
    /\ button_q' = button_q + 1
    /\ UNCHANGED <<led_q, led, sensor_vars, event_count, presses>>

(* The last delivery: the publication's own buffer is given back.          *)
DeliverToLed ==
    /\ workq = "to_led" /\ free > 0
    /\ workq' = "idle"
    /\ led_q' = Append(led_q, "pressed")
    /\ event_count' = event_count + 1
    /\ UNCHANGED <<free, button_q, led, sensor_vars, presses>>

(* Mutant: the event is counted before the error is looked at.             *)
CountAfterErrorAlways == event_count + 1

CountAfterError == event_count

(* Mutant: a publication that fails keeps its own buffer.                  *)
OwnBufLeaks(step) == 0

(* The buffer of a publication that fails, once it has one.                *)
OwnBuf(step) == IF step \in {"to_sensor", "to_led"} THEN 1 ELSE 0

(* -ENOMEM or -EAGAIN: what was delivered stays delivered.                 *)
PublishFails ==
    /\ workq # "idle" /\ free = 0
    /\ workq' = "idle"
    /\ free' = free + OwnBuf(workq)
    /\ event_count' = CountAfterError
    /\ UNCHANGED <<button_q, led_q, led, sensor_vars, presses>>

Workq ==
    /\ PublishTakesBuf \/ DeliverToSensor \/ DeliverToLed \/ PublishFails
    /\ UNCHANGED env_vars

WorkqYields == workq = "idle" \/ free = 0

----------------------------------------------------------------------------
(* perform_read(), in the sensor thread and in the shell.                  *)

Goes(r, step) == reader' = [reader EXCEPT ![r] = step]

ReadReturns(r) ==
    /\ Goes(r, "idle")
    /\ reads' = [reads EXCEPT ![r] = @ + 1]

(* Mutant: the presses that queued up during a read are dropped.           *)
AfterReceiveDrained(q) == 0

AfterReceive(q) == q - 1

(* sensor_thread(): a received message's buffer is freed.                  *)
SensorReceives ==
    /\ "sensor" \in running /\ WorkqYields
    /\ reader["sensor"] = "idle" /\ button_q > 0
    /\ button_q' = AfterReceive(button_q)
    /\ free' = free + 1
    /\ Goes("sensor", "fetch")
    /\ UNCHANGED <<env_vars, led_q, led, button_vars, fetched, loaded, sensor_ch,
                   read_count, error_count, commands, reads>>

CmdSensorRead ==
    /\ "sensor" \in running /\ WorkqYields
    /\ reader["shell"] = "idle" /\ commands < MAX_COMMANDS
    /\ commands' = commands + 1
    /\ Goes("shell", "fetch")
    /\ UNCHANGED <<env_vars, pool_vars, led, button_vars, fetched, loaded, sensor_ch,
                   read_count, error_count, reads>>

(* The fetch succeeds or fails; the counter of the outcome is loaded.      *)
Fetch(r) ==
    /\ reader[r] = "fetch" /\ WorkqYields
    /\ \E ok \in BOOLEAN :
         /\ fetched' = [fetched EXCEPT ![r] = ok]
         /\ loaded' = [loaded EXCEPT ![r] = IF ok THEN read_count ELSE error_count]
    /\ Goes(r, "count")
    /\ UNCHANGED <<pool_vars, led, button_vars, sensor_ch, read_count, error_count,
                   commands, reads>>

(* Mutant: a failed read is not published.                                 *)
PublishesSuccessOnly(ok) == ok

Publishes(ok) == TRUE

(* Mutant: a failed read is not counted.                                   *)
ErrorsAfterNone(n) == n

ErrorsAfter(n) == n + 1

(* The increment, a plain load and store, is written back.                 *)
Count(r) ==
    /\ reader[r] = "count" /\ WorkqYields
    /\ IF fetched[r]
       THEN read_count' = loaded[r] + 1 /\ UNCHANGED error_count
       ELSE error_count' = ErrorsAfter(loaded[r]) /\ UNCHANGED read_count
    /\ IF Publishes(fetched[r])
       THEN Goes(r, "lock") /\ UNCHANGED reads
       ELSE ReadReturns(r)
    /\ UNCHANGED <<pool_vars, led, button_vars, fetched, loaded, sensor_ch, commands>>

LockChannel(r) ==
    /\ reader[r] = "lock" /\ WorkqYields
    /\ sensor_ch = None
    /\ sensor_ch' = r
    /\ Goes(r, "buf")
    /\ UNCHANGED <<pool_vars, led, button_vars, fetched, loaded, read_count, error_count,
                   commands, reads>>

ResultTakesBuf(r) ==
    /\ reader[r] = "buf" /\ free > 0 /\ WorkqYields
    /\ free' = free - 1
    /\ Goes(r, "to_led")
    /\ UNCHANGED <<button_q, led_q, led, button_vars, fetched, loaded, sensor_ch,
                   read_count, error_count, commands, reads>>

DeliverResult(r) ==
    /\ reader[r] = "to_led" /\ free > 0 /\ WorkqYields
    /\ led_q' = Append(led_q, "result")
    /\ sensor_ch' = None
    /\ ReadReturns(r)
    /\ UNCHANGED <<free, button_q, led, button_vars, fetched, loaded, read_count,
                   error_count, commands>>

(* 100 ms pass without a free buffer, for the holder of the channel or for *)
(* a reader that waits behind it.                                          *)
ResultFails(r) ==
    /\ free = 0
    /\ reader[r] \in {"buf", "to_led"} \/ (reader[r] = "lock" /\ sensor_ch # None)
    /\ free' = free + OwnBuf(reader[r])
    /\ sensor_ch' = IF sensor_ch = r THEN None ELSE sensor_ch
    /\ ReadReturns(r)
    /\ UNCHANGED <<button_q, led_q, led, button_vars, fetched, loaded, read_count,
                   error_count, commands>>

Reads(r) ==
    /\ \/ Fetch(r) \/ Count(r) \/ LockChannel(r)
       \/ ResultTakesBuf(r) \/ DeliverResult(r) \/ ResultFails(r)
    /\ UNCHANGED env_vars

----------------------------------------------------------------------------
(* Mutant: an event of another state leaves the LED alone.                 *)
LedAfterLatched(msg) == led \/ msg = "pressed"

LedAfter(msg) == msg = "pressed"

(* led_thread().                                                           *)
LedReceives ==
    /\ "led" \in running /\ WorkqYields
    /\ led_q # << >>
    /\ led' = LedAfter(Head(led_q))
    /\ led_q' = Tail(led_q)
    /\ free' = free + 1
    /\ UNCHANGED <<env_vars, button_q, button_vars, sensor_vars>>

Next ==
    \/ PublishEvent \/ Workq
    \/ SensorReceives \/ CmdSensorRead \/ (\E r \in Reader : Reads(r))
    \/ LedReceives

Spec == Init /\ [][Next]_vars

(* Every thread runs when it can; presses and commands may never come.     *)
FairSpec ==
    /\ Spec
    /\ WF_vars(Workq)
    /\ WF_vars(SensorReceives)
    /\ \A r \in Reader : WF_vars(Reads(r))
    /\ WF_vars(LedReceives)

----------------------------------------------------------------------------
(* The buffers that are not free are waiting in a queue or belong to a     *)
(* publication, also after publications that failed half-way.              *)
BufferAccount ==
    POOL_SIZE = free + button_q + Len(led_q)
                + (IF workq \in {"to_sensor", "to_led"} THEN 1 ELSE 0)
                + Cardinality({ r \in Reader : reader[r] = "to_led" })

(* One reader at a time is between the lock of sensor_event_ch and its     *)
(* release.                                                                *)
ChannelHeld ==
    \A r \in Reader : (reader[r] \in {"buf", "to_led"}) = (sensor_ch = r)

SimTrackInv == TypeOK /\ BufferAccount /\ ChannelHeld

(* Once everything has settled the LED is dark: no order of presses,       *)
(* failed reads and `sensor read` commands leaves it lit.                  *)
SettledIsDark == Settled => ~led

(* An event that the button counts as published is read by the sensor      *)
(* thread, also when the pool runs out in the middle of publications, and  *)
(* when an LED thread that returned at boot never frees its buffers.       *)
CountedPressIsRead ==
    Settled /\ "sensor" \in running => event_count <= reads["sensor"]

(* The two counters of `sensor info` account for the reads, those included *)
(* whose result could not be published: exactly when only presses asked    *)
(* for reads; at most when `sensor read` was used, which overlaps with the *)
(* sensor thread, so that increments may be lost.                          *)
CountersAccountForReads ==
    Settled =>
        /\ read_count + error_count <= reads["sensor"] + reads["shell"]
        /\ commands = 0 => read_count + error_count = reads["sensor"]

(* led.c:24, "The LED shows whether a sensor read is in progress": for a   *)
(* user who presses when the last press was dealt with, once the LED       *)
(* thread has seen all its messages, the LED is lit exactly while a read   *)
(* is pending or in progress, also when reads fail.                        *)
ReadInProgress == button_q > 0 \/ \E r \in Reader : reader[r] # "idle"

LedShowsRead ==
    /\ user = "patient" /\ commands = 0
    /\ workq = "idle" /\ led_q = << >>
    => led = ReadInProgress

(* A lit LED goes dark, and every press that is published gets its read.   *)
LedGoesDark == led ~> ~led

EveryPressIsRead == \A n \in 1 .. MAX_PRESSES : event_count = n ~> reads["sensor"] >= n
----------------------------------------------------------------------------
(* What the invariants above need to be inductive.                         *)

(* A press whose publication has delivered it to the sensor thread is      *)
(* waiting, being read or read.                                            *)
PressAccount ==
    event_count + (IF workq = "to_led" THEN 1 ELSE 0)
        <= reads["sensor"] + button_q + (IF reader["sensor"] = "idle" THEN 0 ELSE 1)

(* The reads that have written their counter.                              *)
Counted(r) == reads[r] + (IF reader[r] \in {"lock", "buf", "to_led"} THEN 1 ELSE 0)

Loaded(ok) ==
    { loaded[r] : r \in { x \in Reader : reader[x] = "count" /\ fetched[x] = ok } }

(* No pair of values the counters have or may yet be given, by a reader    *)
(* that has loaded one of them, exceeds the number of reads; so that a     *)
(* stale value that is written back cannot count too many.                 *)
CountAccount ==
    \A m \in {read_count} \cup Loaded(TRUE), n \in {error_count} \cup Loaded(FALSE) :
        m + n <= Counted("sensor") + Counted("shell")

(* Without `sensor read` no value that is loaded is stale.                 *)
OneReader ==
    commands = 0 =>
        /\ reader["shell"] = "idle" /\ reads["shell"] = 0
        /\ read_count + error_count = Counted("sensor")
        /\ reader["sensor"] = "count" =>
             loaded["sensor"] = IF fetched["sensor"] THEN read_count ELSE error_count

CountInv == PressAccount /\ CountAccount /\ OneReader

(* What the LED shows once the LED thread has seen all that waits for it.  *)
WillBeLit == IF led_q = << >> THEN led ELSE led_q[Len(led_q)] = "pressed"

(* The last message that is to be shown, or the one that waits for a       *)
(* buffer, is "pressed" only while its read is still to come.  A result    *)
(* that finds no buffer breaks this.                                       *)
LitUntilRead ==
    WillBeLit \/ workq = "to_led" => button_q > 0 \/ reader["sensor"] # "idle"

(* sensor.c:73: a result that cannot be published leaves the LED lit, with *)
(* no read to come.  Nothing else does, however presses, publications that *)
(* fail half-way or wait for a buffer, and reads in the shell interleave   *)
(* while the pool is empty.  The next read that starts makes LitUntilRead  *)
(* true again, so that its result, if it is published, darkens the LED.    *)
LitOnlyByLostResult ==
    [][LitUntilRead /\ ~LitUntilRead' => ResultFails("sensor")]_vars

(* The phases of the single press that a patient user has under way: being *)
(* published, and then being read.  At most two other buffers are in use.  *)
OnePress ==
    /\ workq # "idle" =>
         /\ reader["sensor"] = "idle" /\ led_q = << >> /\ ~led
         /\ button_q = IF workq = "to_led" THEN 1 ELSE 0
    /\ workq = "idle" =>
         /\ button_q + (IF reader["sensor"] = "idle" THEN 0 ELSE 1) <= 1
         /\ WillBeLit <=> ReadInProgress
         /\ Len(led_q) <= IF ReadInProgress THEN 1 ELSE 2

(* With no sensor thread the first press lights the LED for good.          *)
NeverRead ==
    /\ reader["sensor"] = "idle"
    /\ workq # "idle" => led_q = << >>
    /\ workq # "to_led" => (WillBeLit <=> button_q > 0)
    /\ workq = "to_led" => button_q > 0 /\ (button_q > 1 => led)

(* With no LED thread a message stays in led_q once the first press is     *)
(* published.                                                              *)
NeverShown ==
    /\ ~led
    /\ led_q = << >> =>
         /\ reader["sensor"] = "idle"
         /\ button_q = IF workq = "to_led" THEN 1 ELSE 0

PatientInv ==
    user = "patient" /\ commands = 0 =>
        /\ reader["shell"] = "idle"
        /\ {"sensor", "led"} \subseteq running => OnePress
        /\ "led" \in running /\ "sensor" \notin running => NeverRead
        /\ "led" \notin running => NeverShown
=============================================================================
