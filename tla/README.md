# МКВП-02 firmware in TLA+

A verification project for the firmware of the МКВП-02 air-flow monitor and
controller (GD32F103, FreeRTOS, C).  Paths are relative to the repository's
root: `src/` and `include/` hold the application, `FreeRTOS/` and
`GD_libraries/` vendored code.

1. [Inventory](#1-inventory) – the system, its parts and what makes them hard
2. [Modules](#2-modules) – which module models what, and how it matches the code
3. [Runs](#3-runs) – what TLC checks, with which bounds, and what it shows
4. [Fairness](#4-fairness)
5. [Proofs](#5-proofs)
6. [What the code does otherwise than its documents](#6-divergences)
7. [What is not modelled](#7-not-modelled)
8. [Plan](#8-plan)

## 1. Inventory

One shared array, `mb_table` (150 Modbus registers), is the centre of the
program.  The Modbus task reads and writes it for the master, the UI task reads
commands from it and publishes the device's state in it, and its last third
(registers 100..149) is mirrored in an EEPROM.

| part | code | state | operations | who calls it |
|---|---|---|---|---|
| settings persistence | `settings.c`, `eeprom.c`, `i2c.c`, boot part of `main.c` | EEPROM pages and CRC, EEPROM zone of `mb_table`, SYS_EV and HW_ER bits | `settings_load`, `settings_save`, `settings_set_defaults`, page write, CRC check | `main` at boot, `task_ui` (long PRG in an editor) |
| menu and process control | `menu.c` | menu state and its timer, password digits and attempts, editor draft, timers of grace, boost, emergency, lamp, socket and buzzer, saved output | `menu_process` every 10 ms | `task_ui` |
| buttons | `buttons.c` | debounce and hold counters of each key, one event | `btn_scan_with_cmd`, factory combo | `task_ui`, `main` |
| register map | `modbus_table.h/.c` | `mb_table` | byte, bit, u16, float and string accessors | both tasks |
| Modbus RTU server | `modbus.c` | `mb_table`, coils | `modbus_process` | `task_modbus` |
| USB CDC frame port | `usb_cdc.c`, `cdc_acm_core.c`, `usbd_lld_int.c` | endpoint flags, 256-byte frame buffer, silence timer | tick (1 ms timer interrupt), data in and out (USB interrupt), ready, receive, transmit (task) | interrupts, `task_modbus` |
| I2C driver | `i2c.c` | flags and registers of the peripheral, a loop counter | write, write-then-read, both polling with time-outs | `eeprom.c` |
| runtime | `task_modbus.c`, `task_ui.c`, `watchdog.c`, `runtime.c` | watchdog counter, wake time of the UI loop | two tasks, watchdog kick | scheduler |
| kernel | `FreeRTOS/tasks.c`, `list.c`, `port.c` | ready and delayed lists, tick count, pended ticks and yields | task creation, delays, suspension of the scheduler, tick and PendSV interrupts | everything |
| LCD driver | `lcd_hd44780.c` | none of its own; the panel's mode, address, half byte and busy time | initialisation, commands, lines of UTF-8 or Windows-1251 | `task_ui` |

How they interact.  The USB interrupt and the 1 ms tick assemble a frame;
`task_modbus` polls for it, lets `modbus_process` change `mb_table`, and waits
actively until the host has read the answer.  Every 10 ms `task_ui` asks the
button driver for one event and gives it to `menu_process`, which first looks
at the command registers the master wrote, then at its timers, then at the key,
and may call `settings_save`, which works for tens of milliseconds.

Hard behaviours.

* `task_modbus` (priority 3) preempts `task_ui` (priority 2) between any two
  instructions; only string accesses are in a critical section.
* The 1 ms tick has interrupt priority 0 and preempts both the USB interrupt
  (priority 6) and every FreeRTOS critical section.
* An EEPROM save can be cut by power loss, by the watchdog, by an I2C time-out,
  or overtaken by a register write.
* `menu_process` is sequential code with a dozen timers and edge detectors over
  mode bits that commands, keys and the master change between two calls.
* The host may be slow, send without waiting, stop reading, sleep or be
  unplugged, at any point of a transfer.
* The I2C peripheral receives on while the task that polls it is preempted; a
  reset of the controller leaves EEPROM and panel powered in mid-byte.
* The panel cannot be read: what is sent while it is busy is lost.
* A round of the UI loop may be late by a save or by a host that does not read;
  the rounds it owes then follow at once.
* The kernel's tick count overflows, and ticks that come while a task is inside
  a sleeping call are worked off later, several at once.

What makes each part correct: a boot finds one whole configuration; an error
bit that is down can be trusted; modes agree, overrides give back what they
took, alarms sound and stop, zones need their passwords; a press is one event
and a request of the master acts at most once; a request that reaches the device
is executed once and answered; a reply says what the registers hold; a transfer
on the bus is exact or reported; the panel shows what was drawn; a sleep lasts as
long as was asked for, and the highest task that is ready runs.
`PROJECT.json` lists 40 hazards of this kind at their lines, each with the
properties that look for it or the reason why none does.

## 2. Modules

| module | models | how |
|---|---|---|
| `Settings` | `settings.c`, `eeprom.c`, boot of `main.c` | one action per step at which the bus can fail or the master can write: CRC check, read, CRC summation per page, page write, stamp; PowerLoss anywhere |
| `AtomicStore` | the promise of the two files: a store of one whole image | abstract; `Settings` implements it (`Store == INSTANCE AtomicStore WITH ...`) |
| `Menu` | `menu.c` below the drawing, with `task_ui` | one action `Tick`, composed of one operator per block of `menu_process`, in its order; the master's writes are actions between ticks |
| `Buttons` | `buttons.c` | `btn_scan` is one step; `btn_scan_with_cmd` then serves the three request registers access by access, with the master in between |
| `UsbCdc` | `usb_cdc.c`, the CDC class's data path, `task_modbus`, host | four actors that interrupt each other; one action per access that another may come after |
| `Modbus` | `modbus.c`, strings and floats of `modbus_table` | a request is one step; strings are one step (critical section); floats go byte by byte |
| `I2c` | `i2c.c`, the peripheral, the EEPROM's side of the bus | one driver step from one awaited flag to the next; one hardware step per byte, START and STOP |
| `Lcd` | `lcd_hd44780.c` and `lcd_mb_write` of `menu.c`, the panel | a call of the driver is the sequence of its pulses and delays; one step for each |
| `Kernel` | `tasks.c`, `list.c`, `port.c` as this firmware uses them | one action per kernel call up to where an interrupt may come, per interrupt, per turn of the tick's loop |
| `Scheduler` | what the kernel promises its tasks | abstract; `Kernel` implements it (`S == INSTANCE Scheduler WITH ...`) |
| `Runtime` | `task_ui.c`, `task_modbus.c`, `watchdog.c`, the counts of `buttons.c` | both tasks in real time; `Tick` is a fraction of the scan period |

`MCx` modules only give values to the constants of module `x`.  `SettingsProofs`,
`MenuProofs`, `ButtonsProofs`, `ModbusProofs`, `UsbCdcProofs`, `KernelProofs`,
`RuntimeProofs` and `DriverProofs` (for `I2c` and `Lcd`) hold the proofs.

The modules meet at their interfaces.  `Settings` takes from `I2c` that a
transfer is exact or fails with a part delivered; `Runtime` takes from
`Scheduler`, and so from `Kernel`, that the highest ready task runs and that a
sleep lasts for as many ticks as the call asked for; `Menu` takes from `Buttons`
one event per call.

**Settings.**  `chip` holds the pages, `stamp` the CRC field, as the image the CRC
was computed from (so a CRC is taken as collision-free), `ram` the zone of
`mb_table`, `sum` the pages the CRC has seen in the save in progress.  `ev` and
`hwEr` are the SYS_EV and HW_ER bits.  `env`, chosen once from `Envs`, says who
disturbs in a behaviour: i2c, power, master.  Pages the parameters do not reach
are kept apart (`ParamPages`), because `settings_set_defaults` does not touch
them.

**Menu.**  `m` is the record of `menu.c`'s statics and of the registers it uses;
the operators transform that record and `Tick` applies them in sequence, as the
function does.  `ev` is the event of the tick, `cmd` and `goto` the registers it
finds.  `scene` fixes which keys, commands and jumps a behaviour may use, and
`hist` remembers what the properties need (the last value the operator chose,
ticks since WORK rose and whether the stop before that was sampled, wrong codes in
a row).  A digit of a password is below `Base`; passwords are compared as the code
compares them.  A parameter has the limits of its editor, `Low` (1 for the PID
band, 0 otherwise) and `Limit`; its register may also hold what the master wrote,
below or above them or `NaN`, which no comparison tells.  A press of a digit key
moves the draft by any of `Steps`, as which digit is under edit is left out.
`Quiet` is a tick without any input.

**Buttons.**  `btn` is `s_btn`; a register is the set of its bits, or for
BTN_CMD the set of its one event.  `pc` and `todo` tell where `btn_scan_with_cmd`
is.  `hist` counts samples in a row and the events of a press.  Of the requests it
keeps what was asked of each register and not taken, whether that was written
between the read of the register and its clear, and, of the call in progress, the
event of a key and the requests taken, each with the value that was read.  The
master may write at any time, also over a request that still stands.

**UsbCdc.**  The fields of the CDC handler are not volatile; the steps are the
order of the source, which the Debug build (-O0) keeps.  (An optimised build
could turn the wait for `packet_sent` into an endless loop.)  The tick is one
step, since nothing interrupts it; `cdc_acm_data_out` is two, with the tick able
to come between; the task is the last to run.  A frame is a sequence of pieces
of packets, and `modbus_process` accepts a frame that is one whole request.
`world` is the set of disturbances: *nested* (the tick in the middle of
`data_out`), *hasty* (the host reacts before the task has cleared
`receive_length`), *rude* (does not wait for answers), *slow* (pauses within a
request), *deaf* (does not read), *coding* (opens the port at any time), *sleep*,
*unplug*.  `calm` ends them.  A lapse that only matters after much longer than a
tick (wake-up, enumeration) waits until the tick has noticed the last one.

**Modbus.**  A request is a record of its fields, `good` tells whether the CRC
matches; a reply is the sequence of its bytes.  `modbus_process` is a function
of the request, the table and the coils.  The properties restate the protocol
over registers as numbers and coils as a set, and compare every answer to every
request in every reachable table.  C does not fix the order of the four reads
in `MB_ReadUint32`, so `ReadByte` takes any.

**I2c.**  The peripheral has a data register and a shift register and holds the
clock when both are full (receiving) or empty (sending); RBNE, BTC, TBE and the
rest are functions of them.  Where this part's manual is silent it is taken to
behave as the STM32F1 it is compatible with: a write of the data register
discards a received byte.  The `n`-th byte of the chip is the number `n`, so that
a byte lost, doubled or taken from another call shows.  A time-out of the driver
is much longer than a byte, so it is enabled only when the bus cannot move.

**Lcd.**  Time is in units of 100 µs, ten to a tick.  The panel is a model of the
HD44780: interface width, half byte, address counter, memory and busy time; with
its power-up state left open.  A string is its bytes; the two conversions are
the code's, and the expected glyph of a symbol is written down apart.  `timing`,
chosen once from `Timings`, says how long the panel takes to clear and how late
a preemption may make a step of the driver.  `lost` remembers, from one start to
the next, whether a pulse met a busy panel.  `Misdrawn` has the symbols the panel
shows as others (section 6).

**Kernel.**  Lists are sequences with the position of `pxIndex`; `wake` is the
value of each item, and `M` the modulus of the tick count.  What runs masked is
cut into the turns of its loops, while everything else waits (`busy`).  `clock`
counts interrupts and `late` the lateness of a periodic task, for the properties.
`Scheduler` has the call a task makes as `request`, and the ticks it then still
sleeps as `left`: the `n` of a `vTaskDelay`, what is left of its period for
`xTaskDelayUntil`, and nothing when that is past.
The timer task is only the task that blocks for ever, as no software timer is
used.

**Runtime.**  `lag` is the time since the round of the UI loop was due (negative
while it sleeps); `vTaskDelayUntil` subtracts a period from it.  The work of a
round is nothing, the display, or a save and the display in the same call
(`menu.c:1179-1198`), in any round whatever the one before did; what a round does
otherwise takes no time.  The contact of the key opens and closes at any time.
For the properties, `hist` has the age of a press, the time since its first
sample and how late that sample was, and `debt`: what stalls and works longer
than a period have taken since the UI last slept.

## 3. Runs

| run | bounds | distinct states | what it shows |
|---|---|---|---|
| `settings_faults` | 3 pages, one of them spare; 2 values; i2c and power, without and with the master | 193 404 | load and save keep one whole image or none, tell the truth in HW_ER, end, and implement `AtomicStore` while the master is quiet; with it, the device still never starts on a mixture |
| `settings_torn_by_master` | only the master | violation | a save returns 0 over an image the next boot rejects |
| `menu_screens` | 7 scenes, timers of 1 to 4 ticks | 77 161 | zones and passwords, ranges, modes, overrides, delays, alarms; a panel left alone settles |
| `menu_boost_overlap` | ONOFF alone, a master that writes nothing | violation | the second boost saves the first one's 100 % and gives that back for good |
| `buttons_keys` | 2 keys, 2 timings, 2 scenes | 551 625 | presses are debounced, give one event each; a call returns the event of its key or of a request it took, and forgets none between calls; requests drain |
| `usb_link` | 3 requests of 1, 3 and 1 packets, 9 worlds | 133 573 | buffers hold, a settled link loses nothing, executes once, and recovers |
| `usb_nested_tick` | the *nested* world | violation | a packet of a polite host is lost when the tick interrupts `data_out` |
| `modbus_requests` | 5 registers, 10 coils, about 200 requests | 12 588 | every request is refused or done, on what it names only |
| `i2c_transfers` | writes of 2 and 3 bytes, reads of 3 to 5; 4 worlds | 12 870 | transfers are exact or reported, whatever the call before left behind, and end |
| `lcd_screen` | 2 columns, 4 texts, 3 timings | 703 879 | the first pulse that can meet a busy panel is the one after the clear of `lcd_init`, when that takes the full 1.6 ms and the driver is preempted; until then the panel comes into step from every state a reset leaves and shows what was drawn |
| `kernel_tasks` | the 4 tasks, tick count modulo 6, 2 pended ticks | 146 333 | no task, tick or preemption is lost; periods do not drift; nobody starves; implements `Scheduler`, sleeps by their length |
| `runtime_tasks` | scan period 2, display 1, save 6, debounce and long 3 scans, watchdog 9, debt 12 | 183 493 | rounds are late by what stalls and long works took since the last sleep, and no more; presses are measured right up to that lateness; the UI recovers from a stall, and a UI that hangs alone does not |

Why the bounds suffice.

* *Settings.*  Three pages give a first, a middle and a last one; the third is
  spare, which tells `settings_set_defaults` from a save of everything.  Two
  values tell any two images apart page by page.  What the runs show for three
  pages is proved for any number (section 5).
* *Menu.*  Only differences and order of timers matter, as every one is compared
  with its own period: they last 1 to 4 ticks, chosen so that grace exceeds
  boost, boost may overlap an emergency, and an inactivity timeout meets every
  screen.  Every interleaving of the inputs of a scene is explored, for ever.
  The scenes split the inputs by concern, since all of them at once are more than
  TLC can explore; combinations across scenes are not explored, but the theorems
  hold for every scene, the one with all inputs included.  Keys and START meet over
  an alarm in one of them; the grace period that `DelaysKept` asks for is that of a
  rise of WORK whose fall before it the code has sampled (`unseen`, section 6).
  The edited number is the PID band, whose limits are here 1 and 2, over registers
  with -1, 3 and NaN, by steps of 2: opening the editor and moving the value meet
  both limits, and NaN passes both.
* *Buttons.*  Two keys, one with a long event and one without; debounce of 1 and
  more samples, hold counter that saturates at 5, so that saturation below,
  at and above the threshold occurs.  The master writes every set of bits and every
  code to the three registers, between any two accesses of the UI task.
* *UsbCdc.*  Units of 32 bytes: a full packet has 2, the buffer 6.  One request
  fills several packets and the three together exceed the buffer, so that
  overflow, joining and cutting of frames all happen.  Worlds hold one or two
  disturbances each, at any number of moments, before the calm.
* *Modbus.*  Ten coils leave the last byte partly used; the limits on quantities
  are below and above the sizes of the table, so that each check is the deciding
  one for some request.  Requests that are answered and requests that are sent
  are different sets: the former need no new states.
* *Lcd.*  Texts with symbols of one, two and three bytes within, across and beyond
  the width, one that ends inside a symbol, and one with a letter of `Misdrawn`.
  The three timings are the full clear of 1.6 ms with and without a preemption, and
  a clear the driver always covers, with one.  A delay of 3 units makes the fixed
  delays begin at every place in a tick.
* *Kernel.*  A periodic task may be late by up to 4 ticks with a period of 2, so
  that the wake time asked for may be past already, before or over the overflow
  of a count of six.
* *Runtime.*  A save takes three periods and the display half of one: one is longer
  than a round, the other shorter.  Either may come in every round.  A debt of 12
  lets two saves accumulate before the UI sleeps, or a stall up to the watchdog
  time beside a part of one; the bound is on what is explored only, the proofs
  hold for every value of it.  Ages are counted beyond any lateness this allows.

`CHECK_DEADLOCK` is nowhere switched off.

## 4. Fairness

* *Settings*: weak fairness of the steps of load and save.  All their loops have
  time-outs (`i2c.c`), so a task that entered one keeps going or loses power.
* *Menu*: weak fairness of the tick without input, since `task_ui` calls it every
  10 ms for ever.  No key or command has to come; the liveness properties are
  about a panel left alone.
* *Buttons*: weak fairness of the UI task's steps.
* *UsbCdc*: weak fairness of the tick, the interrupt, the task (it has the
  highest priority) and the watchdog, which are hardware or scheduled; of the
  host that it goes on with a request it began and enumerates again after a
  reset.  `HostRead` has strong fairness: a host that keeps polling an endpoint
  meets it ready infinitely often, though bus resets disable it in between.
  *deaf* hosts are freed of it until the calm, and `TaskReturns` then rests on
  the watchdog alone.
* *I2c*: weak fairness of the hardware, which has its own clock, and of the
  driver, as every step of it is enabled until taken.
* *Kernel*: weak fairness of the interrupt handlers once pending; strong fairness
  of the tick, which is masked again and again but not for ever, and of the rest
  of a kernel call, which is interrupted again and again; strong fairness of the
  calls of *polite* tasks, whose loops come to their delay.  The idle task is not
  polite and the timer task need not be.
* *Runtime*: weak fairness of the UI loop's own steps, of time and of the
  watchdog's reset.  Nothing is asked of the host.

## 5. Proofs

Checked by TLAPS, for every value of the constants that the named assumptions
allow that the modules state.

| theorem | says | from |
|---|---|---|
| `SettingsTypeCorrect` | `[]TypeOK` in every environment | itself inductive |
| `BootIsWhole` | the tasks never start on a mixture of two configurations, any number of pages, any failure, the master writing too | `BootInv`: what the boot has read or reset so far |
| `HealthyFlag` | while the master is quiet, EE_ER down vouches for the stored image | `SaveInv` |
| `SaveSuccess` | while the master is quiet, `settings_save` returns 0 only over a stored zone | `SaveInv` |
| `SettingsImplementAtomicStore` | `Settings` implements `AtomicStore` while the master is quiet | `SaveInv` |
| `MenuTypeCorrect` | no timer beyond its period, no index beyond its table | `IInv` |
| `MenuModesAgree` | mode bits agree on every path in and out of standby | `IInv` |
| `MenuCursorInZone` | a shown list never indexes past its PASS table | `IInv` |
| `ThirdWrongCode` | at most two wrong codes on one visit to the password screen | `IInv`, `CountAgrees` |
| `BuzzerHasCause` | the buzzer sounds only for an alarm that is up and not muted | `IInv`, `Honest(m)` |
| `OutputComesBack` | an output without an override is what the operator or master last chose, unless overrides met | `OutputInv` |
| `MenuDelays` | no alarm before the grace has run; the relay waits in full after the last RB | `GraceInv`, `SocketInv` |
| `AlarmSoundsAgain` | an alarm that was down for a tick sounds when it comes back | `AlarmInv` |
| `PanelWrites` | a tick changes at most one parameter and leaves it between its two limits, whatever the master wrote before; NaN comes back only where the master put it | `DraftInv`: `NaNsKnown`, `DraftOk(m)` |
| `ZoneLocked` | a zone is entered only by its code, unless the master jumps | `ZonesApart`, key by key |
| `ButtonsTypeCorrect` | counters keep their ranges whatever the master writes to the timings | `Types` |
| `RequestsOnce` | what was asked stands until a call takes it, and a call without a key's event returns that of the request it took; any master, any number of keys | `Types`, the inductive `Serving` |
| `OnePress` | a press asks for one event at most, short or long by what it was held | `Types`, `KeyAgrees` |
| `Debounced` | a key is pressed only after as many samples down in a row as asked for | `Types`, `KeyAgrees` |
| `RoundsPunctual` | a round of the UI is never later than what stalls and long works took since it last slept; any works in any rounds | `TypeOK`, `Owes` |
| `PressesMeasured` | a press is seen that lasts longer than the debounce time and the lateness at its end; none is recognised, nor a long one, before its time less the lateness at its first sample; any bounces | `CountersAgree`, `NotOverlooked`, `SpanExact` |
| `TransfersAreExact` | what `i2c.c` calls done was exact, what it calls failed had a fault on the bus, any payload, any number of bytes read | `IInv` of `DriverProofs` |
| `PanelStaysInStep` | the first lost pulse can only be the one after the clear of `lcd_init`, and only where its sleep is too short; without it the panel shows between calls what was drawn; any clear up to 1.6 ms, any preemption, any texts, any width up to 40, from any state a reset leaves | `LcdIInv` of `DriverProofs` |
| `OnlyGenuineRequests` | while the bus does not sleep, nothing of an earlier connection enters a frame; where moreover the port is not opened in the middle of a request, none is executed twice; any requests, any size of the buffer | `IInv` of `UsbCdcProofs` |
| `TypesKept` (`UsbCdcProofs`) | no packet takes the accumulator or the task's frame beyond its buffer | `IInv`, `Shape` |
| `NoRequestIsLost` | a polite host's request over a settled link is not lost, any requests that fit the buffer | `IInv`, `Shape`, `Link` |
| `TypesKept` (`ModbusProofs`) | table and coils keep their shape and every reply fits `tx_data` | `IInv` of `ModbusProofs` |
| `EveryAnswerIsRight` | every request is refused for a reason that holds, or done on exactly what it names | the same, operator by operator |
| `ExchangedValuesAgree` | lines and floats read the same for the UI and the master | the same: `LineKept`, `FloatKept` |
| `KernelKeepsItsLists` | every task is in one list, sleepers are in order, the running task is a highest one, for any tasks and any length of the tick count | `IInv` of `KernelProofs` |
| `KernelKeepsTime` | no tick is lost, no period drifts, over the overflow too | `IInv` of `KernelProofs` |
| `KernelIsAScheduler` | `Kernel` implements `Scheduler`: sleeps last as long as asked, over the overflow too | `IInv` of `KernelProofs`, step by step |

`HealthyFlagMeansUsableChip` is not inductive: that a successful stamp makes the
chip usable depends on the CRC covering the pages written.  `SaveInv` adds that:
while the CRC is summed it agrees with `ram` on the pages passed; during the
writing the CRC is that of `ram` and the chip has the pages passed; at the stamp
it has all.  A write of the master breaks the second conjunct; hence the three
properties speak of the environments that are `Quiet` (`"master" \notin env`), and
the violation run of the others.

`WorkOnlyWhenPowered` and `ListCursorInZone` are inductive only together with
the types and with `TriesLeft` (a password screen that is shown has a try left):
`Good(m)` is their conjunction.  A tick is a pipeline of operators on `m`, so
there is one lemma per operator that it keeps `Good`, and `TickGood` chains
them.

`ThirdWrongCodeLeaves` speaks of the history's own count of wrong codes;
`CountAgrees` says it equals `attempts` while the password screen is shown and 0
otherwise.  It is kept because every stage of a tick either leaves screen, time
and tries as they were or enters a state anew, which `ticks = 0` records
(`Follows`, `Tracks`), and because on that screen only a wrong code that stays
uses up a try (`PasswordKeysCount`).  `BuzzerOnlyForUnmutedAlarm` can fail inside
a tick, after a command that removes the alarm bit: the Buzzer stage, which comes
later, makes `Honest` true again whatever it was (`UpkeepHonest`), and no key
breaks it (`KeysHonest`).

The five promises about outputs, delays, alarms, parameters and zones are about
whole ticks, and each depends on one or two of a tick's stages.  What the others
leave alone is a relation between two states (`SameDrive`, `SameSocket`,
`SameAlarm`, `SameMemory`, `SameEditor`), with a lemma per operator;
`UpkeepEffects` says what all stages before the keys do, `Outcome` what any key
does.  `Promises` is inductive on top of `IInv`.  In it `OutputInv` says that at
most one override is on and has saved the operator's value; `GraceInv`, that what
is left of the grace and the ticks since WORK rose cover the period, and that an
alarm is up only when nothing is left; `DraftInv`, that an open editor's draft is
inside both limits, or is a NaN that its register has held; `AlarmInv`, that an
alarm that was down is not remembered either, which makes its return an edge.  For
zones, `ZonesApart` says that no screen belongs to two of them and `KeyReaches`
where one key leads.

In `Buttons`, `Serving` relates the history to the registers and to where
`btn_scan_with_cmd` is: a register holds what is asked of it; a value that was read
and not cleared is what the register holds, unless the master wrote since; and, if
no key has the event, the event is that of the last request the call took, and
those it took before have none.  No assumption is made about the master.
`KeyAgrees` relates the
debounce counter and the counters of the history, sample by sample.  `Debounced`
assumes that the hold counter can count the longest debounce time
(`DEB_MAX + DEB_DEFAULT <= HOLD_MAX`), as it can in the code (`uint16_t`).

`LagBounded` is not inductive: how late a round ends depends on the lateness with
which its work began.  `Owes` adds that during a work the lag and what is left of
it exceed the debt by a period at most; a round that begins late owes that period
back at its next `vTaskDelayUntil`, and one that begins in time has no debt to
exceed.  Nothing is assumed of the works: a save may follow a save.

`PressMeasured` compares time with a count of samples, which several delayed rounds
take in a bunch.  Every round stands for one period, so time and count differ by
lateness only.  `SpanExact` says by how much: the time since the first sample of a
press is a period for each sample after it, and how late the loop is now, less how
late it was then.  `NotOverlooked` says the same, as an inequality, of the age of a
contact that closed between two samples.  `CountersAgree` orders the counters of
`btn_scan`.  Nothing is assumed of the key: it may bounce at will, and a bounce that
a burst of samples meets counts as a press (section 6).

In `I2c` the driver, the peripheral and the chip count the same bytes.  `Phase`
says for each place where the driver waits how they agree: while it writes, the
bytes taken plus those in the two registers are the bytes handed over; while it
reads, the bytes sent less those in the registers are the bytes taken, until the
clock is held for the third to last.  `Underway` adds that the bytes on the way
are those that come next, which survives the end of a call that gave up;
`Requested`, that what an earlier call left on the bus has its STOP; and
`Blamed`, that a bus that cannot move is a fault of the call that waits for it.

In `UsbCdc` the danger is the old packet that the endpoint still holds when
SET_LINE_CODING raises its flag.  `HeldOnce` orders what the accumulator and the
task hold by the order of sending, so that no packet is held twice; hence the
first packet of an executed request is nowhere but, at most, in the endpoint.
`Gone` says that there its length is 0, or that the link is down, or that the
answer is just being sent, when no polite host opens the port.  `Fresh` says the
same of packets older than the enumeration.

That nothing is lost is a statement about the whole way of a request.  `Link` says
where it can be: k packets in the accumulator and the host about to send the next
(`Between`), the k-th packet in the endpoint (`InFlight`), or the frame complete,
in the accumulator, with the task, or answered and not yet read.  Each step of one
of the four actors takes the request from one place to the next, so that it is
never nowhere.  `Shape` gives the lengths.  `PoliteHostAssumption` is what this
needs: a request fits the buffer, and the host's pause is shorter than the silence
timer by the tick that took the packet.  With a pause longer by one the timer cuts
the request in two, as it must.

`modbus_process` is an operator, so most of `ModbusProofs` is about operators: for
each group of function codes, what passes its checks (`Accepted`), how long the
reply is, which registers or coils change and to what.  The byte arithmetic comes
first: a word from its bytes, the number of bytes of q bits, bits of a sum of powers
of two.  Only `ExchangedValuesAgree` needs to know how the table came about:
`LineKept` says each place of the line holds its character, in the swapped order,
and zeros after it; `FloatKept`, that the bytes an access has passed agree on both
sides unless `mixed`.  `TableAssumption` and `LimitAssumption` hold of the code's
numbers (150 registers, limits of 2000, 125 and 123, `tx_data` of 260 bytes), and
ask that the byte count of a write of all coils be a byte; `MasterAssumption` keeps
the master off the display lines.

In `Kernel` three groups of conjuncts carry the proof.  `Queues`, `Homes` and
`Sleepers` say what a list holds, that a task is in one of them, and which of the
two delayed lists a wake time belongs to.  `Control` and `Runner` say where each
task and each handler stands in the code and what that implies of the lists and
of the suspension.  `Periods` counts without wrapping beside the wrapped count,
so that the comparisons of `xTaskDelayUntil` become ordinary ones.  `Idlers` gives
PendSV a task to dispatch: `KernelAssumption` asks for one task that calls nothing
that sleeps, which is the idle task that `vTaskStartScheduler` creates.  It also
asks that a caller be late by less than the count's length (`MaxLate \in 0 ..
MaxTick`), without which the wrapped comparison has no right answer.  The
first `xTaskGetTickCount` of a periodic task maps to `Begin`, the
`vTaskSuspendAll` of a sleeping call to `Ask`, its step that puts the task on a
delayed list, or on none, to `Sleep`, a tick worked off (in `CountTick`, pended or
not) to `Pass`, the choice of the next task to `Dispatch`, every other step to a
stutter.  For `Sleep` the wake time on the list has to be the tick count and the
length asked for, in the delayed list of the right side of the overflow.

In `Lcd` two things are to be shown together: that no half byte is lost and what the
halves add up to.  `LcdIInv` says, beside the types, where the driver is.  Either it
is before one of the 34 steps of `lcd_init` (`Starting(k)`), which gives the panel's
mode, half byte, and the longest it can still be busy.  The reset may have come in
the middle of a byte: at first any mode is possible, each half 3 leaves fewer, the
third leaves the 8-bit interface alone (`k = 9`), and the half 2 then makes it the
4-bit one, in step (`k = 12`).  Or it is before one of the four steps of byte `e` of
the line for row `r` (`Drawing(r, e, x)`): the cells passed show the new text, those
ahead are free, the other row is as it was.  Or it is between two calls (`AtRest`).
No part would do alone: whether the panel is busy depends on the byte it took last,
and that on its having been in step.  All this is `InStep`, with no pulse lost
since the start.  The alternative is `OutOfStep`: a pulse was lost, which is left
only by the next start, and `Covered` is false.  The one way there is the pulse
after the clear (`StartLost`): everywhere else the delays outlast the panel.

What a line is comes before: `lcd_mb_write` runs a loop over the bytes of a text,
and its steps are the concatenation of what its bytes send.  Both are recursive
functions over the naturals.  `Induction` derives their induction step from the
least number of a set (`LeastNumber`), and `Recursion` that such a function exists
and obeys its equation, extended by one number at a time.  From there,
`FlattenSeqSteps`, `FlattenSeqBlocks` and `FlattenSeqFours` say what a
concatenation of blocks holds at each place, `DecoderIs` and `TextDecoded` that
the loop yields one code for each whole symbol whatever the widths of the others,
`InitIs` and `LineIs` which step of a call is which.  `LcdAssumption` is that the
panel has 1 to 40 columns, as two lines of an HD44780 may have, and that a string
ends at its end (a symbol can be cut only there).  `TimingAssumption`
says only that the panel clears in 1.6 ms; how long a preemption lasts is open.

Every safety invariant and every action property that a passing run checks is
stated by a theorem.  Only model-checked is liveness (`LoadAndSaveEnd`,
`AbandonedPanelSettles`, `RequestsDrain`, `LinkRecovers`, `TaskReturns`,
`NobodyStarves`, `UiRecovers`, `CallsEnd`), which is out of the prover's reach.

## 6. Divergences

The three violation runs show one each, listed as findings in `PROJECT.json` with
the lines that say otherwise.  Met while modelling, and not runs of their own:

* One failed I2C transfer at boot makes `settings_load` fail, and `main` then
  writes the defaults over a valid image.
* Stop by key and START by command in the next tick: WORK is up at both samples
  of the edge detector, so the new start has no grace period and the alarm that
  stood is judged at once (`menu.c:882`).  `DelaysKept` leaves out such starts
  (`unseen`).
* BTN_LONG_MS shortened below the hold time of a key that is down: the count has
  passed the new threshold, which is compared by equality, and the long event
  never comes (`buttons.c:176`).
* A round of the UI that a save delayed is followed by the ones it owes at once:
  samples meant to be 10 ms apart are then taken together, so that a bounce or a
  press shorter than the save may be missed or taken for one that was held
  (`PressMeasured` says by how much).
* A request in BTN_CMD, BTN_PR_IR or BTN_LPR_IR that a call finds beside the event
  of a key is cleared and does nothing (`buttons.c:243-246`, said at 218-219), and
  one that the master writes between the read of a register and its clear is lost;
  `buttons.c:211-213` says a non-zero register gives its event exactly once.
* A stalled host starves the panel, as `task_modbus` has priority 3 and `task_ui`
  2; `task_ui.h:11` says 3 and highest, `task_modbus.h` says 1.
* `lcd_hd44780.c:60` wants more than 1.52 ms after a clear.  `delay_ms(2)` ends with
  the second tick from now, after 1 to 2 ms, and with the delay of the pulse the
  driver guarantees 1.1 ms.  A panel that takes 1.6 ms is still in time if nothing
  delays the driver on its way to the sleep, and by about 0.1 ms; with a preemption
  there a half byte is lost and all that follows is shifted, until the controller
  starts again (`Covered`, `PanelKeepsUp`).
* `lcd_hd44780.h:46-48` promises ё, Ё, « and ».  They reach the panel with their
  Windows-1251 codes, as `win1251_to_lcd` begins at 0xC0, where the ROM has и, П, Ч
  and л (`Misdrawn`).  A string cut after two bytes of a dash shows `?` and one raw
  byte.
* `task_modbus.c:45` reckons with some 17 ms for a screen; the driver's own delays
  come to 42 bytes of twice 104 µs, about 9 ms.
* A chip that a reset caught sending keeps SDA low, and no step of `i2c.c` clocks
  it free: until the power is cut every load and save fails, with EE_ER up.
  `wait_reset` asks for no STOP on its time-out; the bus is not ours then.
* `task_ui.c:30-31` expects the watchdog to catch a hanging UI; `task_modbus.c`
  feeds it every millisecond whatever the UI does, and says so in its comment.
  `UiRecovers` states what follows: a hung UI comes back only if the host stops
  reading too.
* `usb_cdc.c`: a request executed before the bus sleeps keeps its length; a port
  opened after the wake-up executes it again.  No document forbids it.
* `menu.c:949`: an alarm acknowledged on its screen that comes back within one
  tick stays silent.  The alarm screen also stays when the cause is gone
  (passport 287-288).
* Standby clears mode bits, not outputs (`menu.h:9`, passport 196-197).  A jump
  by MENU_GOTO into the settings of a unit in standby powers it on when the
  inactivity timeout comes.
* A wrong password keeps the screen twice (passport 323); the code 0000 opens
  zone 1; a short PRG commits to `mb_table` without saving (`settings.h:15-16`).
* E during a boost leaves the output at 100 % until the emergency ends; a value
  the operator or master writes during an override is overwritten by the
  restore.
* NOR manual mode starts from 0 where the passport keeps the last automatic
  value; in an emergency, AUTO_MAN drops the output to 0 for one tick.
* COUNT_MAX is in PASS3 in the code, in PASS4 in `menu.h`.  `modbus.h:11-13`
  speaks of 61 registers, there are 150.  The splash lasts 3 s, not 4 s.
* The map marks registers `R`; `modbus.c` writes them all the same.
* A request of 6 or 7 bytes (one CRC-correct but short) passes `req_len < 6` and
  its CRC bytes become the quantity or the value.
* A NaN from the master passes the editors' four comparisons (`menu.c:678-679`,
  804, 820) and can be saved; `PanelWritesInRange` allows it only where the master
  put one.  SW_CR and SYS_EVR are never looked at.

## 7. Not modelled

* What the menu draws on its screens (wording and layout); PWM, UART, DMA, EXTI
  and LED drivers and the test tasks, which the production firmware does not
  call.
* Of FreeRTOS: queues, notifications, software timers, event groups, stream
  buffers, the heap and the port's assembler.  The firmware creates two tasks,
  delays them and enters critical sections; that much is `Kernel`.  Most of the
  repository's 80 000 lines are this kernel's unused parts, the GD32 peripheral
  library, CMSIS and the USB core: vendored, mostly register access, and not the
  program's own logic.
* The USB core's enumeration and control transfers, except the bus events that
  touch the data path's state.
* Lost updates by `MB_SetBit` and `MB_ClearBit` (a read, a change and a write of
  a byte): `Menu` and `Buttons` take an access as one step.
* In `Modbus`, writes of the master to display lines; the CRC algorithm; and the
  answers to requests of 6 and 7 bytes are modelled but no property is stated.
* In `Settings`, the flags of the I2C peripheral: a transfer is done, or it fails
  with none, some or all bytes delivered; `I2c` has the flags.
* In `Lcd`, the cursor and blink commands and user characters, which no caller
  uses; in `I2c`, reads of one and two bytes, for the same reason.

## 8. Plan

Done, in the order of importance: what is stored (`AtomicStore`, `Settings`),
what is driven (`Menu`), what is heard (`Buttons`, `UsbCdc`, `Modbus`), and what
all of it rests on (`I2c`, `Lcd`, `Kernel` with `Scheduler`, `Runtime`).

Model next:
1. `Table`: `MB_SetBit` and `MB_ClearBit` step by step against the master's
   requests, for SYS_SR, OUT_SR and HW_ER.
2. Composition: a master's request from the host's packet through `UsbCdc` and
   `Modbus` to the tick of `Menu` that serves it; an abstract "command mailbox"
   that it implements.

Prove next:
1. `Table`, when it is modelled: no bit that one task sets is lost to another.
2. Abstract specifications for `UsbCdc` (a channel that delivers a request once or
   reports the link down) and `Buttons` (a mailbox), refined step by step from the
   invariants that are proved.
