# Formal models of the Zephyr workshop

TLA+ models of the workshop's firmware, model-checked with TLC and, for the
results listed below, proved with TLAPS. Source paths are relative to the
repository. `PROJECT.json` maps every definition to the lines it models.

## 1. Inventory

### The example application (`app/`)

Components that only share two zbus channels. All observers are zbus
*listeners*: they run in the publishing thread, while it holds the channel's
lock. A button press is therefore one chain of calls:

    button (work queue) or shell
      └ publish BUTTON_PRESSED on event_ch      lock event_ch
          ├ led_event_cb()                      ignores it
          └ sys_ctrl_button_msg_cb()            toggles sys_state
              └ publish state on sys_ctl_ch     lock sys_ctl_ch, inside event_ch
                  └ led_sys_ctl_cb()            set_led_mode(0, ...)

| Component | State | Operations | Hard part |
|---|---|---|---|
| `led` | two `led_instance_t`, pins, one shared 10 ms `k_timer` | `set_led_mode()` (listeners, `led set`), `led_timer_handler()` (interrupt) | no lock; the interrupt and a second thread run between any two accesses |
| `sys_ctrl` | `sys_state` | toggle and publish | publishes in a listener; toggles before a publication that may fail |
| `button` | `last_press_time`, delayed work item | edge interrupt, work item, `button press` | debounce by time; level sampled later |
| channels | `event_ch`, `sys_ctl_ch`: lock, last message | publish | timeouts; nesting |
| `temp_alert` | none yet (the logic is a workshop task); `alert_work` | `alert_work_handler()` | publishes with `K_NO_WAIT` |
| `tempsense`, `sensor_log` | workshop tasks; `sensor_log`'s readers exist, over a buffer that nothing fills | – | ring buffer that wraps |
| `button_mock` | two delayed work items | `mock_button`, press, release after 100 ms | drives `button` on native_sim; press and release overlap when the command is repeated |
| `tracing_usb` | USB device state | bring-up | almost only calls into the USB stack |

`SYS_SENSOR_READING` and `SYS_TEMP_ALERT` are consumed by `led` today; their
publishers are the workshop's extension (`doc/src/task_app_extension.rst`) and
the tests. The models treat them as events of the environment that a work item
publishes, which is what that document prescribes.

### The simulation and testing track (`samples/sim_test_track/`)

The same idea with zbus *message subscribers*: publishers put copies, in
buffers of one shared pool, into the queues of two threads.

| Component | State | Operations | Hard part |
|---|---|---|---|
| `button` | two delayed work items, `event_count` | edge callback, publish, `button emulate`, release | debounce; a publication that fails half-way |
| `sensor` | `read_count`, `error_count`, message queue | thread, `sensor read` in the shell | both run `perform_read()` at once |
| `led` | LED, message queue | thread | results of several reads in one queue |
| channels | two channels, a pool of 16 `net_buf`s | publish | pool exhaustion |

### Emulator and samples

| Component | State | Operations | Hard part |
|---|---|---|---|
| TI HDC emulator (`emulators/sensor/ti_hdc_emul`) | register pointer, four registers, which of them are set, sample count | the transfers of the driver, `sensor_emul set` | the pointer is used outside the mutex; a sample between setting and reading; rounding both ways |
| dynamic commands (`samples/04_shell`) | a table of rows and its length | add, execute, remove; completion reads it | moves by byte counts, full table, sorted rows, duplicates |
| health thermometer (`samples/06_ble`) | subscription, one `ind_params`, the flag `indicating`, temperature, battery level | main loop, callbacks of the stack | the flag is set after the call that may already be over |
| bypass (`samples/04_shell/src/main.c`) | the statics `in_use` and `tail`, the callback installed in a shell | command, callback per chunk | escape sequences over chunks; statics shared by shells and sessions |
| UART release (`samples/04_shell/src/uart_reinit.c`) | owner of the UART, one-byte buffer, `tx_busy`, a timer, one work item | command, end of the shell, interrupt or timer, return of the shell | 'x' in any phase of a transmission; two owners; a work item initialised again |
| login (`samples/04_shell`) | root command of the shell, attempts | login, logout | – |
| work queues (`samples/03_workqueues`) | one item | two submissions, a timer | – |
| other samples | – | straight-line demonstrations | – |

What makes each of them correct: `led`: an active LED has its timer and an OFF
LED is dark, modes end in time. `sys_ctrl`: state, channel and LED0 agree, no
deadlock by the nested publication. The buttons: one event for each press.
Simulation track: every press is read, no buffer is lost, the LED goes dark.
Emulator: what is set is what is read, within the sensor's resolution. Dynamic commands: a bounded set of
names. Bypass: it ends with its escape sequence and only with it. UART release: the
shell comes back, and nobody else then uses the UART. Thermometer: its parameters are not reused in flight, a subscriber is
served.

## 2. Modules

| Module | Models |
|---|---|
| `Led` | `led.c`: `set_led_mode()` split at each access to shared state, the timer interrupt in one action |
| `App` | publishers, channels, `sys_ctrl` and their threads around `Led`, which it extends |
| `SysToggle` | abstract: a press toggles the system, LED0 follows before the next press is accepted |
| `Contact` | external: a bouncing key and a millisecond clock |
| `PressOnce` | abstract: one event for each press, while the key is down |
| `Button` | `app/.../button.c` and `button_mock.c`, on `Contact` |
| `SimButton` | `sim_test_track/.../button.c`, on `Contact` or the emulated GPIO |
| `SimTrack` | the three modules of the simulation track, their channels and the buffer pool |
| `HdcEmul` | the emulator, two threads of Zephyr's driver and the shell's settings |
| `CommandSet` | abstract: a bounded set of command names and the answers given |
| `DynamicCmd` | `samples/04_shell/src/dynamic_cmd.c` |
| `Bypass` | the bypass of `samples/04_shell/src/main.c` |
| `UartLoopback` | `samples/04_shell/src/uart_reinit.c`, both kinds of loopback |
| `Shell` | these three on several instances of the shell: which of them runs commands when |
| `Hts` | `samples/06_ble/src/hts.c` with the loop of its `main.c` |
| `LedProofs`, `AppProofs`, `ButtonProofs`, `SimButtonProofs`, `SimTrackProofs`, `HdcProofs`, `ShellProofs`, `HtsProofs` | the TLAPS proofs |
| `MC*` | instances for TLC |

### How state and actions correspond to the code

**Led.** `mode`, `tick_count`, `duration_ticks`, `state` are the fields of
`leds[]`, `pin` is the GPIO level, `timer` whether `led_timer` runs.
`call[t]` is thread `t`'s activation of `set_led_mode()`: the requested LED and
mode, where it stands (`at`) and which stores are left (`todo`). The fields are
plain variables, so the compiler may order the three stores of lines 149–154 as
it likes up to the next opaque call: `StoreField` picks any of `todo`.
`any_led_needs_timer()` is one read (`TestTimer`); the start or stop it leads to
is a later step (`SwitchTimer`). How long a tick takes is not modelled, nor that
starting a timer that runs begins its 10 ms anew: with calls that come closer
together than 10 ms the real tick is later, never lost. `LedTimerHandler` is one action because nothing
preempts the system timer interrupt; it handles both LEDs, including the
`update_timer_state()` of a mode that ends. Logging is left out.

**App.** `pc[t]` says where the work queue or the shell is in the chain of calls
above; `WorkItem`, `CmdButton`, `CmdLedSet` start it. A step that calls
`set_led_mode()` begins a `call`, and the caller goes on only when it is over.
`MayRun` is the scheduler: the work queue (cooperative, priority −1) runs before
the shell (14), so the shell proceeds only while the work queue is idle or waits
for a lock. `PREEMPTIVE` is the difference between the boards and native_sim:
there, simulated time and thus the timer interrupt wait until no thread can run.
`EventPubFails` is the `K_NO_WAIT` failure of an alert or the timeout of a second;
`CtlPubFails` the timeout of the nested publication, possible only if somebody
else holds `sys_ctl_ch` (`OTHER_CTL_USER`, e.g. a test that reads it).

**Button, SimButton.** The delay of a work item counts down in milliseconds; an
item is served at any moment of the last `LATE_MS` of it, which stands for the
latency of the work queue. `input` is what moves the key, which differs from
build to build: a real contact, which bounces arbitrarily within `BOUNCE_MS`
(`Contact`), or the emulated GPIO, which does not bounce and is driven by
`mock_button` (`Button`) or `button emulate` (`SimButton`) at any time.
`since` is `now - last_press_time`. The user of a key does not press in the
first `GAP_MS` after the boot, nor types a command in the first 10 ms; the
source ignores an edge then.

**SimTrack.** Messages are abstracted to "pressed" and "result": the LED thread
treats all three sensor states alike. `workq` and `reader[r]` say how far a
publication or `perform_read()` has come. zbus (external) takes one buffer for
the publication and one per subscriber, in the order of the subscribers' names,
and gives up after 100 ms without a buffer, keeping what it has delivered.
`read_count++` and `error_count++` are a load and a store, as two threads
execute them without synchronisation. The system work queue is cooperative:
other threads run only when it is idle or waits for a buffer. All other threads
interleave freely, an over-approximation of their priorities. `running` holds the threads that did not
return at boot, as they do when their device is not ready. `user` tells who presses:
a patient user waits until everything has settled. A time-out needs an
empty pool: a thread that has what it needs is finished long before 100 ms.

**HdcEmul.** A thread's `sensor_sample_fetch()` is three transfers: the address
write (`WriteAddress`, then `Generate` under the mutex) and the read
(`CopyPointer`, then `ReadRegs` under the mutex). What is done under the mutex is
one step, what is done outside is a step of its own. `fixed` are the registers
that the user has set, `set` remembers what was asked for. `t_sample` and
`rh_sample` stand for what a read transfer returned to its caller. The emulator's
conversion (`ToRaw`) rounds to the nearest raw value and saturates: 125 degrees scale
to 65536. The driver is external: it reads the two identification registers once at
boot, and its conversion (`FromRaw`, in thousandths) rounds down, so that a setting of
30 degrees reads 29.999 (`doc/src/sim_test_track_course.rst:224`) and one of 125 reads
124.997. `Epsilon` is the resolution that the backend reports. `FitsShift8` is the
shell's own check of the scaled value, which comes before the backend's. Settings are
whole degrees and percents.

**DynamicCmd.** All shells' threads have one priority and no command blocks before it
has finished with the table, so a command is one action. Strings are
numbers in the order of `strcmp()`; `Bad` is every argument that is too long or
has other characters. `QSort` yields every outcome that `qsort()` may have.
`cmd_dynamic_remove()` moves `cnt - idx` rows, one more than are behind `idx`; in
a full table that row is the memory behind the table, whose content is chosen
from `BEHIND`. The assumption is that no argument compares equal to these bytes
unless they are empty: other data of the program that happened to read as a name
would be refused as a duplicate.

**Bypass.** `bypassed` are the shells with the callback installed; `in_use` and `tail`
are the statics. A chunk is any sequence of up to `MAX_CHUNK` bytes, of which only
ctrl-x and ctrl-q matter. The command and the callback are one action each:
while one prints, and thus blocks, `in_use` keeps the other shells out. `heard` is a
history that follows the escape sequence byte by byte and knows no chunks; what it
comes to at the end of a chunk is that of a run over its bytes (`HearsAll`).

**UartLoopback.** `owner` goes from "shell" by `shell_uart_release` to "uninit", by
`shell_uninit_cb()` to "loopback", and by `shell_init_from_work()` back. A run of the
interrupt handler reads all of `rx_fifo` into `buf` and then takes one of three ways:
the UART cannot send (`TxNotReady`), takes the byte (`FillFifo`), or has sent it
(`ByteSent`). Whether it can send in the same run that enables the interrupt depends on
the driver, so that both are possible. `UartPollTimeout` is the loopback of builds
without interrupts; `irq_driven` is chosen at the start. `work` counts submissions
of the static work item, each of which initialises it first. Bytes are 'x' or not, and
echoes are left out. `typed` is a history of the session.

**Shell.** A shell runs commands unless it is bypassed or its UART is released. What is
typed behind `shell_uart_release`, before the loopback runs, is left out: whether
the ending shell still reads it is up to Zephyr. It matters: a `bypass` read there
would be forgotten with the shell, while `in_use` stays set.

**Hts.** `main` is where the main thread is in a round, `held` whether the stack
still has `ind_params`. `BtGattIndicate` and `SetIndicating` are separate steps,
since the stack's thread may run in between. Connections only print and are left
out; a subscription may change at any time.

## 3. Runs

Passing runs:

| Run | Question | Instance |
|---|---|---|
| `app_hw` | Do the channel locks make the callers of `led.c` take turns on hardware (`SerialLedSpec`), do sys_ctrl, channel and LED0 agree, and do blinking, pulses, alarms and toggles go on and end? | fair, two threads, all events, no `led set` |
| `app_native` | Do calls of `set_led_mode()` and interrupts take turns on native_sim (`QuietLedSpec`), `led set` on both LEDs included, and is everything right then? Does a state that could not be published get announced by the next publication? | not preemptive, another user of `sys_ctl_ch` |
| `button` | One event per press, of the key and of `mock_button`? | 10 ms debounce, bouncing ≤ 4 ms |
| `sim_button` | The same, other algorithm, real key and `button emulate` | 10 ms debounce, bouncing ≤ 9 ms |
| `sim_track` | Does the LED go dark, is it dark when all is done, and is every press read under load? | 3 presses, 2 commands, fair, both kinds of user |
| `sim_exhausted` | What survives an empty pool, and threads that returned at boot? What alone may leave the LED lit? Does the LED show the read when presses come one by one? | 4 buffers, 4 presses, 2 commands, both kinds of user, each set of threads |
| `hdc` | Is what was set what is read, up to the sensor's resolution, and the rest in range, when two threads fetch? | raw values and settings at the limits, 12 samples |
| `shell` | Is the table a set of names, up to the full table and back? Does a bypass end with its escape sequence and only then? Does the shell come back to its UART, and is it alone there? | 2 shells, 2 rows, 3 names, chunks of 3 bytes, 2 bytes in the FIFO, both kinds of loopback; fair |
| `hts` | Are the parameters free when they are written, and is a subscriber served? | two readings of a device, or the simulation; fair |

Violated properties, each a statement of the repository that the code does not
keep (details in `PROJECT.json`, `findings`):

| Run | Statement | What happens |
|---|---|---|
| `app_alarm_race` | "200ms blink for 3s" (`led.c:29`) | the interrupt sees mode ALARM with the `duration_ticks` 0 that it has initially and after every alarm, and ends it at once |
| `app_led_set` | ACTIVE "blinks continuously" (`app/README.rst:13`) | `led set` stops the timer that a press has just started |
| `uart_x_lost` | "Shell instance is reinitialized when 'x' is pressed" (`uart_reinit.c:120`) | with interrupts, a byte behind 'x' that comes before its echo is out replaces it in `buf` |

Also met, without a run:

- The comment "Boot to State Active" (`sys_ctrl.c:9`) stands above an initial
  value `SYS_SLEEP`.
- "The LED shows whether a sensor read is in progress" (`led.c:24` of the
  simulation track) is true for a user who waits (`LedShowsRead`). A second press
  during a read has the first result switch the LED off while the second read
  runs, and `sensor read` never lights it, since nothing tells the LED thread.
- "First 10 readings: 3-5°C" (`emul_ti_hdc.c:70`): the emulator's initialisation
  has counted one sample, so that nine readings are left.
- `read_count` and `error_count` may lose an increment when `sensor read` overlaps
  with the sensor thread; `CountersAccountForReads` says what remains true.
- `dynamic_cmd.c:104` reads one row behind a full table.
- `sensor_emul set temp -10` is refused: `scaled /= BIT64(shift)`
  (`ti_hdc_emul_shell.c:98`) divides unsigned, so that every negative value ends up out
  of range, although `parse_micro()` takes a minus sign and the backend's range begins at
  -40 (`emul_ti_hdc.c:296`).
- An indication that is over before `hts.c:132` leaves `indicating` set for good
  (`SilentForGood`); `SubscriberIsServed` is true otherwise.

### Bounds

- Tick counts are shrunk (period 3, pulse 1, alarm 3 ticks, counter word 4)
  so that a pulse ends within an alarm, modes end in the same tick and in
  different ones, and the counter wraps at a value that is not a multiple of the
  period, like 2^32 and 55. The proofs hold for any values.
- Two threads are all that call `set_led_mode()`: the work queue and the shell.
- The buttons use the source's 10 ms (and 100 ms for the mocked key). `HOLD_MS` and
  `GAP_MS` are just above the smallest values for which the property can hold
  (`Debounced`), so boundaries are hit; longer ones add only waiting.
- The auxiliary inductive invariants of the proofs (`NativeInv`, `QuietInv`, `CountInv`,
  `PatientInv`, `LitUntilRead`, `EscapeInv`) hold on the instances of these runs as well;
  the cfgs list the properties that follow from them.
- SimTrack: three or four presses let a press arrive in every phase of the read
  before it, and a queue behind that. 16 is the pool size of `prj.conf`; 4 is small
  enough to run out at every step of a publication.
- HdcEmul: `MAX_SAMPLES` 12 passes the change of the range after ten samples; the
  raw values are the ends of the ranges, the settings lie at, beyond and between
  the limits of the sensor and of the shell.
- Shell: two rows give an empty, a partly filled and a full table, with a removal at
  either end; the third name does not fit. `ShellProofs` covers all tables. Chunks
  of three bytes hold the escape sequence at either end, cut it anywhere and put bytes
  behind it; two bytes in the FIFO are 'x' before and behind another. `uart_x_lost`
  needs only one row and chunks of one.
- Hts: unbounded; the battery's and the simulation's cycles are complete.
- `EVENT_BOUND` caps the events counted for one press at one more than allowed.

`sim_track` and `sim_exhausted` set `CHECK_DEADLOCK FALSE`: once the bounded presses and
commands are used up, the system rests. All other runs check for deadlock.

### Fairness

`App`: weak fairness for the timer interrupt (a due interrupt is served) and for
the work queue, the highest-priority thread concerned; strong fairness for the
shell, which is held back by work items again and again but gets its turn because
events are rarer than the time they take. No fairness for events: nobody has to
press. `SimTrack`: weak fairness for each thread's steps, since each gets the
processor when the ones above it block, and none for presses and commands.
`Hts`: weak fairness for the main thread and for the end of an indication, which
the stack guarantees by its transaction timeout; none for subscriptions. `Shell`: weak
fairness for the end of the shell, for interrupts that are enabled and due, the poll
timer, the transmission and the work queue; none for what is typed. The other runs check safety and assume no fairness.

## 4. Proofs

All theorems hold for every value of the constants that satisfies the modules'
`ASSUME`s and the hypotheses named here.

- **`LedProofs`.** `LedTypeCorrect` for any callers. `SerialInvariant`: the
  inductive invariant `SerialInv` of `SerialLedSpec`. `ActiveLedIsTimed` alone is
  not inductive: a call may be about to stop the timer. `StopIsCurrent` says such
  a call has seen all modes OFF, and `OneCall` keeps others from changing that;
  the interrupt only ever turns modes OFF. `PinFollowsState` and `OffIsStored` do
  the same for the output. `SerialActiveLedIsTimed` and `SerialOffIsDark` follow.
  `QuietLedSpec` adds that the interrupt waits for the end of a call. Its invariant
  `QuietInv` says what then holds that the interrupt breaks on hardware: a call about
  to start the timer still has an LED for it (`StartIsCurrent`), the fields a call has
  stored keep their values (`StoredSoFar`), and an alarm that nobody is storing has
  its full duration and ticks left (`AlarmHasTime`). `QuietTimerHasWork` and
  `QuietAlarmRunsItsTime` follow; without the addition the latter is false
  (`app_alarm_race`).
- **`AppProofs`, the channels.** `ChannelInv` says that each lock is held by the
  thread whose place in the chain of calls says so (`LockInv`) and that a message
  has its channel's type (`MsgInv`). `AppChannels` proves it with no hypothesis:
  both platforms, any `led set`, any other user of `sys_ctl_ch`.
  `AppNestedPubNeverWaits` follows where nobody else takes `sys_ctl_ch`.
- **`AppProofs`, on any platform.** Hypotheses: `led set` is not used on LED0
  (`0 \notin SHELL_LEDS`) and nobody else takes `sys_ctl_ch`. `AppInv` adds to the
  locks what ties each call to the callback that made it (`CallInv`) and sys_state,
  channel and LED0 to the stage of the toggle (`StageInv`). From it: `AppAgreement`,
  `AppPublishedStateIsCurrent`, and `AppImplementsToggle` (every step is a step of
  `SysToggle` or a stutter, which is the safety part of the property `ImplementsToggle`
  that `app_hw` checks). With no `led set` at all (`SHELL_LEDS = {}`):
  `AppSerialisesLed`, every behaviour of `App` is one of `SerialLedSpec`, hence
  `AppActiveBlinks`. The hypothesis is needed: `app_led_set` is the counterexample
  without it.
- **`AppProofs`, on native_sim.** The one hypothesis is that interrupts wait until no
  thread can run (`PREEMPTIVE = FALSE`); `led set` may be used on both LEDs and others
  may hold `sys_ctl_ch`. The heart of `NativeInv` is `OneBusy`: at most one thread is
  neither idle nor waiting for a lock. It is inductive because a thread starts, times
  out or is overtaken only when the others rest, and because whoever is woken by the
  release of `sys_ctl_ch` is the one that holds `event_ch`; `NativeThread` then follows
  that thread alone. `AppNativeQuietLed`: the application is an environment of the
  LED component as `QuietLedSpec` describes it, so that `AppNativeActiveLedIsTimed`,
  `AppNativeTimerHasWork`, `AppNativeOffIsDark` and `AppNativeAlarmRunsItsTime` are
  theorems of `LedProofs` carried over. `AppNativePublishedStateIsCurrent` holds
  although `Agreement` does not: after a failed publication channel and LED0 lag
  behind, and the next that succeeds brings them up to date.
- **`ButtonProofs`, `SimButtonProofs`.** Hypothesis `Debounced`, the relation of
  bounce, hold, gap and delay. The invariant bounds the sum of the pending delay
  and the age of the contact's phase: while the contact bounces the sample is too
  far away to fall due, and before the next press it is over; for an emulated key it
  orders the pending sample before the pending release. From it the refinement of
  `PressOnce`. For `Button` the bouncing must end before half the
  debounce time; for `SimButton` before all of it.
- **`SimTrackProofs`.** Without further hypotheses, for every pool and every set of
  threads that survive the boot: `SimTrackInvariant` (each buffer is free, queued or
  with the one publication that holds it; `sensor_event_ch` has the holder its readers
  think it has); `SimTrackCounts` with `PressAccount`, which follows each press
  through the queue and its read, and `CountAccount`, which bounds all pairs of values
  that the counters have or may be given by a reader that has loaded one and was
  overtaken. From them `SimTrackCountedPressIsRead` and
  `SimTrackCountersAccountForReads`. What the LED shows needs buffers:
  - For a user who waits for each read, three are enough whichever threads run
    (`SimTrackPatient`, hypothesis `POOL_SIZE >= 3`): one press is under way, and it
    uses at most three at a time. With two the result of a read may find none, and
    the LED stays lit; `prj.conf` has 16. From it `SimTrackLedShowsRead`.
  - For any user and with `sensor read`, the hypothesis is that no publication finds
    the pool empty, `[](free # 0)`: `SimTrackLitUntilRead` and, if the sensor thread
    runs, `SimTrackSettledIsDark`. It is a hypothesis because the code does not
    guarantee it: presses that come faster than reads fill any pool.
    `SimTrackAmplePool` discharges it for a pool of more than two buffers per press
    and one per command, which shows that states satisfy it; `sim_track`'s instance
    is one.
  - Without any hypothesis on the pool: `SimTrackLitOnlyByLostResult`. The same
    relation (`LitUntilRead`: a lit LED has a read to come) is kept by every step
    except one, a result of the sensor's thread that finds no buffer. An exhausted pool
    does no other harm to the LED.
- **`HdcProofs`.** `HdcInvariant`: while a fetch is on its way the shared pointer is
  the temperature register, because whoever writes it writes that; a register that
  was set holds the raw value of its setting. The driver's conversion does not invert
  the emulator's: it rounds down. The lemma `RoundTrip` bounds the error instead: for
  every whole degree and percent of the backend's ranges the value shown is within
  `Epsilon`, three or two thousandths, also at the saturated upper limit. It rests on
  the defining inequalities of the three divisions (`Quotient`, `Remainder`), so no
  value is tried. `HdcSetValueIsRead` follows, and `HdcRandomValueInRange` for
  registers that were not set.
- **`ShellProofs`.** `DynamicCmdInvariant`: rows in use sorted and distinct,
  no name behind them. The second part is what makes the move of one row too many
  harmless and keeps a removed name addable. From it
  `DynamicCmdImplementsCommandSet`, for every table size and set of names, and
  `ShellImplementsCommandSet`, since the rest of the sample leaves the table alone.
  `BypassInvariant` and `UartInvariant` are inductive as they stand. The latter works
  because the handlers ask for the shell's return only in a state in which all that
  could run them again is off, which is also the state the next loopback starts from.
  `EscapeInvariant`: of all the bytes of a bypass the callback needs to know only
  whether the last was ctrl-x, and a new bypass inherits nothing (`EscapeInv`). The
  step is an induction over the length of a chunk (`HearsWhatEscapes`), stated with
  sets: `NatSetInduction` takes the set of the lengths for which the claim holds, and
  the least-element principle `WFMin` shows that none is missing. From it
  `ShellEscapeEndsBypass`, for chunks of any length.
- **`HtsProofs`.** `HtsInvariant`: while the stack holds `ind_params` the flag is set
  or about to be (`HeldIsFlagged`), so the main thread, which is the one that sets
  it, cannot pass its test. `HtsSilentForGood` from the same invariant.

With `led set` in use on LED1 (`SHELL_LEDS = {1}`), `AppAgreement`,
`AppNestedPubNeverWaits` and `AppImplementsToggle` are proved and no run repeats
them.

All invariants and all action properties that the passing runs check are theorems, and
so are the refinements, as far as they are safety. Model-checked only is liveness, since
the prover has no rule for ENABLED and thus none for fairness: `EventChannelIsReleased`,
`ActiveKeepsBlinking`, `TimedModesEnd` and the live part of `ImplementsToggle` (`app_hw`),
`LedGoesDark` and `EveryPressIsRead` (`sim_track`), `SubscriberIsServed` (`hts`) and
`LastXReturnsShell` (`shell`). Where a run's instance is inside the hypotheses of a
theorem, the run shows in addition that they can be met.

## 5. Not modelled

- `tempsense`, the logic of `temp_alert` and the storing half of `sensor_log`:
  empty workshop tasks in this repository.
- Failing initialisation (a component that is absent), except a simulation-track
  thread that exits; failing `gpio_pin_set_dt()`.
- The order of initialisation of button and LED at boot.
- The emulator's transfers that Zephyr's driver never makes, requests for
  attributes, and settings with decimals; of the ranges it reports only the resolution
  is used.
- The period of `led_timer` in real time, see `Led` above.
- Login and logout of `samples/04_shell`, which is another build of it and calls the
  shell library in a fixed order; its commands that only print.
- `samples/03_workqueues`: it submits one item to two queues in a fixed order, and the
  handler prints. What could go wrong is in Zephyr's queues.
- Advertising and connections of `samples/06_ble`, which only print; the sample is
  built for one connection.
- The loss of an alert that is published with `K_NO_WAIT` is in the model
  (`EventPubFails`), but nothing promises that it arrives.
- Formatting, logging, sensor values of the simulation track, `tracing_usb`,
  demonstrations, scripts.

## 6. Plan

The order was: the LED and the application around it, the buttons, the simulation
track, the emulator, the dynamic commands, the thermometer, the rest of the shell
sample; then the proofs in the same order. Left:

1. For the liveness properties, the safety half of their proofs: measures that every
   step of the system decreases or keeps, such as the work that a press of the
   simulation track still causes, or the ticks an alarm has left.
2. `AppAgreement` for `led set` on LED0, in the form that holds then: agreement from one
   press to the next use of the command.
3. When the workshop's tasks are part of the repository: `tempsense`, the threshold of
   `temp_alert` and the ring buffer of `sensor_log`.
