# A TLA+ model of the Hubble reference firmware for the Thingy53

The firmware beacons over Bluetooth and, when a satellite passes, gives the one
radio it has to a satellite stack. The radio belongs to the network core of an
nRF5340, which runs one of two stacks and chooses between them when it boots.
The application core decides which, when, and for how long, from several threads
that share flags, semaphores, a mutex and one word of shared memory. This
directory models that arrangement, checks it with TLC and proves its safety
properties with TLAPS. Paths below are relative to `src/`.

## 1. Inventory

| Component | State it keeps | Operations | What makes it correct | Here |
|---|---|---|---|---|
| Radio switch (`app/src/main.c`, `ble.c`, `button.c`) | `radio_mutex`, the shared mark, `ble_off_by_user`, `utc_time`, four semaphores, two timers, three work items, the endpoint | `main()`, `ble_enable`, `ble_disable`, `ble_adv_start`/`stop`, work handlers, timer, connection and button callbacks | both cores agree on the stack; a user's "off" lasts; a beacon is refreshed; one window for one arming; nobody waits for ever | `RadioSwitch` |
| Satellite link (`main.c` `ipc_send`, `sat_board.c` board functions, `cpunet/src/main.c`, `cpunet/src/sat.c`) | `sat_sem`, the two rings, `tx_queue`, `rx_queue`, `sat_pool` | `ipc_send`, `_ep_recv`, `ep_recv`, `sat_tx_thread`, the forwarder | requests in order and once; an answer for its own request; no buffer lost; no deadlock on the pool | `SatLink` |
| Boot of the network core (`cpunet/src/main.c`) | the stack it runs | reads the mark, starts a stack, binds | the mark is written before the core is powered, and stays | `RadioSwitch` |
| Pass schedule (`sat_board.c`, SETEPHEMERIS and SETLOCATION of `ble.c`) | table of passes, cursor, next pass, location, `sat_timer`, `timer_sem` | `sat_pass_add`, `sat_schedule_next_transmission`, `sat_next_transmission_get`, the window loop | the pass armed is to come and the earliest; timer, cursor and window are about one pass; no wait while a pass is left | `PassSchedule` |
| Key store (`main.c` `crypto_key_set`, `_key_get`, `nvs.c`) | key in RAM and in flash, `key_sem` | decode, delete, write, read at boot | a confirmed key survives a reset; no mixture of two keys; `main()` goes on once there is one | `KeyStore` |
| Payload and settings (`shell.c`, `sat_board.c`, `sensor.c`) | payload type, bytes, length, interval | shell commands, the packet of `sat_transmit` | settings of one command; a packet of a known length built from one setting | `SatPayload` |
| HCI bridge (`cpunet/src/main.c`) | buffer pools, `tx_queue`, `rx_queue` | receive callback, `tx_thread`, forwarder | a packet is passed on once and in order, its event comes back, no buffer is lost | `HciBridge` |
| LED, fatal handlers, scripts, build files | - | - | - | not modelled |

How they interact: `main()`, the shell threads and the system work queue call
`ble_enable` and `ble_disable`, which share `radio_mutex`. Timers and the button
run in interrupts and give a semaphore or submit work. Connection callbacks run
on the Bluetooth host's threads and inside `bt_disable`. The two cores share the
mark and, while the satellite stack runs, two rings. The hard behaviour is in the
order of these: what happens between two critical sections, which of two threads
gets the mutex, what is left in a semaphore, what the network core reads when it
boots, which step of a sequence fails.

## 2. Modules

| Module | What it is |
|---|---|
| `RadioSwitch` | the application core's use of the network core |
| `MCRadioSwitch` | instances for TLC |
| `RadioSwitchProofs` | the inductive proof of its safety |
| `SatRequests` | abstract: what the link promises to `main()` |
| `SatLink` | the link with its rings, queues, threads and pool; implements `SatRequests` |
| `MCSatLink` | instances for TLC |
| `SatLinkProofs` | the inductive proof and the refinement |
| `PassWindows` | abstract: what the schedule promises to whoever listens for windows |
| `PassSchedule` | when a window opens, in both builds; implements `PassWindows` |
| `PassScheduleProofs` | the inductive proof, the earliest pass and the refinement |
| `KeyStore` | the key between shell, RAM and flash, with resets |
| `KeyStoreProofs` | the inductive proof of its safety |
| `SatPayload` | from the payload command to the packet |
| `SatPayloadProofs` | the inductive proof of its safety |
| `HciBridge` | the network core as Bluetooth controller |
| `HciBridgeProofs` | sequences of events, the counting of buffers, and the inductive proof |
| `MCPassSchedule`, `MCKeyStore`, `MCSatPayload`, `MCHciBridge` | instances for TLC |

`RadioSwitch` treats a request to the satellite stack as a call that succeeds or
fails (`SatInit`, `SatTx`); `SatLink` treats a window as `OpenLink` to
`CloseLink`. They meet in `_sat_enable` and `_sat_disable`.
The other modules each open one of the boxes `RadioSwitch` and `SatLink` leave
closed. `Sched` and `SatTimerFire` of `RadioSwitch` are the search and the timer of
`PassSchedule`; its `ShellKey` and `WaitKey` are a whole command and the last step
of `KeyStore`; `BuildPacket` of `SatLink` is the action of that name in
`SatPayload`; the state in which the network core runs the controller is
`HciBridge`.

Definitions named `X_Fault` next to a definition `X` are faulty variants (a give
without its limit, a forgotten unlock, the power before the mark). No behaviour
uses them. Each is there because some property fails when it takes the place of
`X`, which shows that the property speaks about that line of the code.

### RadioSwitch and the code

`pc[t]` names the next thing thread `t` does. A label is a point where another
thread can run; a step runs to the next point at which it could matter.

| Labels of `main()` | Code |
|---|---|
| `boot`, `boot_bt`, `boot_wait`, `boot_adv` | `main.c:198-219` |
| `wait_init`, `wait_key`, `sched`, `wait_timer` | `main.c:222-250` |
| `dis_lock` to `dis_bt`, then `sat_lock` | `ble_disable(false)`, and the gap before `main.c:254` |
| `sat_mark`, `sat_open`, `sat_bind`, `sat_init` | `_sat_enable` |
| `sat_tx`, `sat_stop`, `sat_unlock`, `sat_done` | `main.c:261-269` |

Users' threads are the shells (`Shells`) and the work queue (`"workq"`), which
runs one item at a time: the button's, the beacon's (`bw_*`) and the
provisioning item. `en_*` is `ble_enable`, `dis_*` is `ble_disable`; `AfterEnable`
and `AfterDisable` say where the caller goes on. `bt`, `adv` and `conn` are the
Bluetooth host's state as the calls in `src/` rely on it, `net` is the network
core. `work` is the set of submitted items (an item submitted twice before it
runs runs once).

`lapses` is a history variable. The code has windows in which two threads
disagree about the radio; a window is noted when a user's request, or a failure,
falls into it:

| Lapse | Window |
|---|---|
| `boot` | a user's request before `main()` has finished its own start of Bluetooth (`main.c:198-219`) |
| `gap` | a user's `ble_enable` between `main()`'s `ble_disable` and its lock (`main.c:252-254`) |
| `mark` | a user's `ble_enable` between the unlock and the restored mark (`main.c:268-269`) |
| `leak` | a failure that leaves the core powered (`main.c:141-151`, or a failed `bt_enable`) |
| `rearm` | a connection between the arming of the refresh timer and the start of the beacon (`ble.c:92-107`) |

The safety properties say what holds as long as the windows that concern them
were not hit. Three runs below show what happens when they are. `MarkStable` is
about the word the two cores share: outside the lapses it changes only under a core
that is off and that no `ble_enable` under way is about to power. `radio_mutex` alone
does not arrange that, since `main()` writes the mark without it at its start and
after the unlock (`main.c:208, 269`). What the model leaves open is what a button
pressed during a window should do: the worker decides before it waits for the mutex
(`button.c:27`), the model has that stale read, and no property speaks of it.

### SatLink and the code

A request is its number in the window. `at` and `cmd` follow `main()` through
`_sat_enable` (`INIT`), then `sat_transmit` and, for each sending, the board
functions the SDK calls: `ENABLE`, `SEND`, `DISABLE`. `to_net` and `to_app` are
the shared-memory rings, `tx_queue` and `rx_queue` the kernel queues of the
network core, `free` the free buffers of `sat_pool`. `ep_recv` (`ReceiveRequest`)
and `sat_tx_thread` (`AnswerRequest`) both wait for a buffer without limit; the
forwarder releases one. Every answer is the same message, so answers are counted.
`CloseLink` drops everything but `sat_sem`. `timeouts`, `leftover` and `lost` are
history.

### PassSchedule and the code

`prediction` is `CONFIG_APP_USE_PASS_PREDICTION`, chosen once, so that one module
holds both builds. A tick is a part of a second (`Second` of them): the table is in
whole seconds, the clock and the predicted passes in ticks, and the divisions of
`sat_board.c:308, 315, 322` are in the model. `SkipPass` is one turn of the table's
search and `SearchOn` one turn of the other; between their turns no time passes,
since nothing there waits. The companion writes only at `at = "provision"`: once the
time is set, every later beacon is one that cannot be connected to
(`ble.c:107-110`), so the table and the location no longer change. The status command reads
the cursor once to count (`StatusCount`) and once for each entry (`StatusCopy`).

`armed` and `last` are history. `PassWindows` has neither table nor timer: a pass
the device knows is chosen while it is to come, no earlier one after a later one,
and its window opens less than a second before it or after it. The same pass can
be chosen twice only if its window was over before it began, which the prediction
build does: it rounds the timeout down, sends one packet, and finds the pass again.

### KeyStore and the code

`crypto_key_set` is five steps: the first and the last bytes are decoded, the entry
is deleted, written, `key_sem` given. It runs in the shell or, with the key built
in, in `main()`. `Reset` can come between any two steps and leaves only `flash`.
`kept` is history: the key last confirmed. `lapses` names what a key can be lost or
mixed by:

| Lapse | What happened |
|---|---|
| `cut` | a reset between `nvs_delete` and `nvs_write` (`nvs.c:58-59`) |
| `failed` | `nvs_write` failed, and the command reported success (`main.c:169`) |
| `unread` | a start could not read the key, and took the one built in or none (`main.c:198-206`) |
| `short` | a text of 44 characters that decodes to less than 32 bytes (`main.c:163-168`) |
| `overlap` | two threads were in `crypto_key_set`, or one while the key was loaded |
| `retyped` | a command began before `main()` had taken the token of the last |

### SatPayload and the code

`sat_payload_set` is `SetType`, `CopyByte` for each byte, `SetSize`; the shell's
`_mutex` is around it, and `BuildPacket` is not under it. `BuildPacket` is one step:
`main()` has the highest priority of these threads and does not wait between its
reads of the settings. `accepted` is the last command that printed no error.
`spoiled` says the last command did not do what it said: an unknown name prints
"Invalid payload" and changes the type (`shell.c:73-77`), and `custom ""` changes the type and
keeps the old text (`sat_board.c:78`).

### HciBridge and the code

Each kind of packet has its pool; the receive callback takes a buffer or drops the
packet, `tx_thread` passes it to the controller, `main()` sends the events. The
controller queues the event of a command before it releases the command's buffer
(`AnswerCommand`, `ReleaseCommand`), so the host can send the next one first.

`UnderWay` puts together, in the order in which it will come back, all that the host
has sent and has no event for: the ring to it, the event `main()` sends, `rx_queue`,
what is on the air, the packet at the controller, `tx_queue` and the ring from it.
`EachPacketOnce` says of every kind that the numbers in it rise, that they are among
those without an event, and that they are all of those if the kind has `Enough`
buffers and none of it was broken or refused. `BufferBalance` counts the buffers.

## 3. Outside the code in src/

- `nrf53_cpunet_enable` is modelled as a switch: switching on a core that runs
  changes nothing, switching off stops it at once.
- `bt_enable` succeeds when the core runs the Bluetooth controller, and fails when
  told to by `Faults` or when the core runs something else; a failure may leave
  the core powered. `bt_disable` does nothing unless the host is ready, and drops
  the connection, whose callback runs. `bt_le_adv_start` succeeds on a ready host
  that has no advertiser.
- The kernel's mutexes, semaphores, timers and work queue have their documented
  meaning. Priorities are not modelled: every interleaving they allow, and more,
  is explored. The order of submitted items is not modelled either.
- The SDK calls the board functions for one sending in the order enable, send,
  disable. The ring loses nothing by itself; a send into a full ring fails.
- Closing the endpoint and switching the core off empties rings and queues.
  `CloseLink` of `SatLink` is `_sat_disable` when every call in it succeeds. Its two
  early returns (`main.c:141-151`), after which the core stays powered and keeps what
  it has queued, are in `RadioSwitch` alone, as the lapse `leak`: what `SatLink` says
  of a window holds up to the first of them.
- The command SETUTC with the time 0 is left out.
- `hubble_sat_next_pass_get(t)` returns a pass that is not over at `t`, and none that
  begins earlier; this is how the comment at `sat_board.c:298-300` and the loop
  under it use it. The clock is exact: `main()` hands `hubble_init` the time less
  the uptime, and what the SDK makes of that is not in `src/`.
- `base64_decode` looks at the whole text before it writes. NVS keeps an entry whole
  or not at all.
- The Bluetooth host keeps to its credit; the controller answers every packet it
  accepts. An event buffer is waited for.

## 4. Runs

`key_store` and `sat_payload` check deadlock. The runs of `RadioSwitch` do not: `main()` really stops when it exits, and the
lapse `gap` stops it and its users for ever (finding 1); nor does `pass_schedule`,
where `main()` waits for ever after the last pass (`NothingLeft` says it is the
last), nor `hci_bridge`, where the host may have nothing to send. In `SatLink` deadlock
freedom is stated by `PoolNeverStuck`, `AckArrives` and `WindowCloses`.

| Run | Instance | Shows |
|---|---|---|
| `radio_safety` | one shell, every fault, 2.5 million states | `MutexOwner`, `StackAgreement`, `MarkStable`, `UserOffSticks`, `BeaconRefreshed`, `OneWindowPerArm` and the inductive invariant |
| `radio_liveness` | no shell (the button is the user), no fault, 391 thousand states | `BindReturns`, `WindowEnds`, `UserServed`, `BeaconResumes`, `NoUnexplainedExit` |
| `link_order` | 2 buffers, ring of 2, 3 sendings, every fault, 215 thousand states | `InOrder`, `BufferBalance`, `InFlightBound`, `PoolNeverStuck`, `AckIsOwn`, `AckArrives`, `WindowCloses`, refinement of `SatRequests` |
| `pass_schedule` | 2 ticks a second, table of 3, 4 overlapping passes, 209 thousand states | `OnePassThroughout`, `EarliestArmed`, `NothingLeft`, `StatusInTable`, `PassServed`, refinement of `PassWindows` |
| `key_store` | one shell and the key built in, 2 keys, every fault, 1.3 million states | `KeySurvives`, `KeyWhole`, `WaitEnds` |
| `sat_payload` | two shells, texts of 0, 1, 12 and 13 characters, 1.5 million states | `SettingsApplied`, `PacketMatchesSetting` |
| `hci_bridge` | commands with 2 buffers for 1 credit, data with 2 for 2 and with 1 for 2, 2 event buffers, rings of 1, 393 thousand states | `NothingLost`, `PacketAnswered` |
| `radio_bind_gap`, `radio_mark_race`, `radio_power_leak`, `link_stale_ack`, `link_led_stuck` | | the findings below |

Bounds. `LapseBound` (`MaxLapses`) stops the exploration of a behaviour once two
kinds of lapse have met; everything before, and every first kind, is complete.
One shell thread beside the work queue gives two users and `main()`, so that two
threads wait for the mutex a third one owns; more shells add symmetric waiters,
and the proofs cover any number. `MaxPackets` stands for the duration of a window:
3 sendings are 10 requests, more than enough to fill a pool of `PoolSize` = 2 and
a ring of `RingSize` = 2, to stop the pool (which needs 2 time-outs and a third
request) and to leave a token to the next window. The real pool has 8 buffers;
the properties name `PoolSize`, and the proofs hold for every value.
Two ticks are enough for a fraction of a second: rounding up, rounding down and an
exact second are then different. The entries of `MCListed` come in every order and twice,
and fill the table; the passes of `MCOrbit` are one under way that contains another,
one that overlaps it and one after it. `Horizon` lies after the last of them, so no
timer outlives the clock. Lengths and intervals of `sat_payload` are those at the
edges in the code, at their real size. `hci_bridge` has a kind with fewer buffers
than credit so that packets are really dropped, and the properties say which kinds they are
about (`Enough`).

Fairness. `RadioSwitch`: each thread takes its steps when it can, strongly fair,
because the kernel hands a mutex to its waiters in an order, so a waiter is not
passed over for ever; a powered core boots and binds. No user, companion or timer
is forced to act: `timer_sem = 1` and `pc[t] # "idle"` are where the properties
start. `SatLink`: `main()`, the receive callbacks and the forwarder are weakly
fair, the two that wait in the queue of the pool strongly fair. Fairness of the
time-out is not part of the specification, because with it `AckArrives` would hold
even if nothing was ever answered; `WindowCloses` assumes it as its hypothesis.
`PassSchedule`: `main()`, the timer's function and the clock; `KeyStore`: a thread
goes on when it can, and no key is ever typed by necessity; `HciBridge`: the
callback and the threads, and the host reads its ring; those who wait for an event buffer are
strongly fair because the pool serves its waiters in turn. `SatPayload` has no
fairness: nothing there has to happen.

## 5. Findings

1. **The binding has no time limit** (`main.c:132`; `README.md:239` says three
   seconds). A `bluetooth enable` in the gap between `main.c:252` and `254` leaves
   `main()` waiting for ever with the mutex held. Run `radio_bind_gap`.
2. **The mark is restored too late** (`main.c:268-269`; comment at 51-57). A
   request that waited for the mutex boots the satellite stack under the Bluetooth
   host. Run `radio_mark_race`.
3. **The core stays powered** when `_sat_enable` fails early (`main.c:141-145`;
   `README.md:261`). Run `radio_power_leak`.
4. **A late acknowledgement counts for another request**, also in the next window
   (`main.c:84`; `app/common/sat_ipc.h:44`). Run `link_stale_ack`.
5. **LED and `_transmitting` stay on** after a failed sending
   (`sat_board.c:249-251`, `256-258`; `app/src/sat.h:98`, `README.md:316`). Run
   `link_led_stuck`.

Seen on the way, without a run of their own: a reset between `nvs.c:58` and `59` loses
the key of which `README.md:97` says that it survives reboots (the lapse `cut`); after a search that
found nothing, `status` goes on showing the last pass found, against
`app/src/sat.h:112`; the loop of `status` can run past the entries it counted when
`main()` moves the cursor under it (`StatusInTable` says only then); a table sent out
of order loses entries without notice (`EarliestArmed` assumes the order); values
from 256 to 266 pass for an interval (`shell.c:38-39`); the key of the example at `README.md:343` has 40 characters and
is refused, a key of 32 bytes has 44; `ipc_ept_ready` (`cpunet/src/main.c:58`) is
never set, so a fatal error handler would not send its event.

## 6. Proofs

Each proof module shows `Spec => []IndInv` (its theorem `Invariance`) and derives the
properties from it. Every safety invariant and every action property that a run
checks is a theorem, for every value of the constants, and so are the two
refinements. The assumptions are those the modules state about their constants and
TLC evaluates in every run: sizes and lengths are natural numbers (a pool or ring
that must hold something is not empty, a second has a tick), the names of the shells
are not those of the other threads nor of the free mutex, the blank key is not a key,
entries and passes have natural starts and durations, faults are of the kinds named. The
inductive invariants of `RadioSwitch` and `SatLink` are properties of the runs
`radio_safety` and `link_order`; those of the other four modules are in their proof
modules, and TLC has checked each of them on the instance of the module's run (for
`KeyStore` with two shells, for `SatPayload` with texts of 0, 1, 3 and 13 characters).

| Property | Theorem |
|---|---|
| `RadioSwitch`: `TypeOK`, `MutexOwner`, `StackAgreement`, `UserOffSticks`, `BeaconRefreshed`, `OneWindowPerArm`, `NoUnexplainedExit`, `MarkStable` | `TypeCorrect`, `MutexCorrect`, `StackCorrect`, `UserOffCorrect`, `BeaconCorrect`, `WindowCorrect`, `ExitCorrect`, `MarkCorrect` |
| `SatLink`: `TypeOK`, `InOrder`, `BufferBalance`, `InFlightBound`, `PoolNeverStuck`, `AckIsOwn`, `LinkRefines` | `TypeCorrect`, `OrderCorrect`, `BalanceCorrect`, `BoundCorrect`, `PoolCorrect`, `AckCorrect`, `Refinement` |
| `PassSchedule`: `TypeOK`, `OnePassThroughout`, `NothingLeft`, `StatusInTable`, `EarliestArmed`, `ScheduleRefines` | `TypeCorrect`, `OnePassCorrect`, `NothingLeftCorrect`, `StatusCorrect`, `EarliestCorrect`, `Refinement` |
| `KeyStore`: `TypeOK`, `KeySurvives`, `KeyWhole` | `TypeCorrect`, `SurvivalCorrect`, `WholeCorrect` |
| `SatPayload`: `TypeOK`, `SettingsApplied`, `PacketMatchesSetting` | `TypeCorrect`, `SettingsCorrect`, `PacketCorrect` |
| `HciBridge`: `TypeOK`, `NothingLost`, and that no packet is dropped | `TypeCorrect`, `NothingLostCorrect`, `NoneDroppedCorrect` |

`RadioSwitchProofs`, for any set of shells and of faults. `StackAgreement` alone is not
inductive: that the core runs the satellite stack only for `main()` rests on who
owns the mutex (`MutexOwner`), on what the mark says at each place of `main()`
(`MarkState`), on whose binding a token is (`BindState`), and on the network core
being off whenever the host is (`StackState`). `MarkStable` follows from these at the
three steps that write the mark (`MarkWriters`): at the start of `main()` because
nothing else has run (`BootQuiet`), around a window because Bluetooth is off and no
user has entered (`StackState`). `BeaconRefreshed` needs to know what holds
between arming and starting (`RefreshState`). Each named part has a lemma, with a
case for each action, and `StackStep`, `ExitStep` and `MarkWriters` combine them.

`SatLinkProofs`, for any pool, ring, number of sendings and set of faults. The core is a count, `InFlightBound`: whatever has been asked and
has not given the semaphore is paid for by the wait in progress, by a wait given
up, or by a token left over. With the count, `PoolNeverStuck` follows because a
stopped pool is full of requests and one more waits to be answered, and
`AckIsOwn` because a token leaves no room for anything else in flight.

`PassScheduleProofs`, for both builds, any table size, length of a second, entries of
the companion and orbits. What the properties say of a pass that is armed or served
rests on when one is chosen at all (`ChosenServed`) and on the pass having begun, or
beginning within the second, once the timer has expired (`ChosenDue`). That nothing
is left rests on what the search and the cursor have gone past: an entry behind the cursor has
begun (`CursorBehind`), and a predicted pass that is to come but behind the search is
over before one under way is (`SearchBehind`, `LastBehind`). `EarliestArmed` follows
from these at the two steps that arm the timer. The search takes several steps in
which the clock stands still, and what it has passed has to be kept in the
invariant. `Refinement` maps each step to one of `PassWindows` or a stutter; the order
of the choices there is `LastBehind` and `ChosenServed`.
The lemmas about division (`sat_board.c:308, 315, 322`) say how much a time loses
when it is cut down to seconds.

`KeyStoreProofs`, for any shells, keys and faults, with a reset between any two steps.
`KeySurvives` and `KeyWhole` need that one thread at a time is in `crypto_key_set`
unless an overlap was noted (`OneWriter`), that its text decodes (`TextHeld`), that
the key in RAM is that of its text from the decoding on (`RamFollows`), and that
nobody writes while the token of a finished command waits for `main()`
(`TokenQuiet`). The invariant says "at most one" where `TypeOK` counts
(`AtMostOneCounted` links the two).

`SatPayloadProofs`, for any shells, texts and intervals: the shell within a payload
command owns the mutex (`OneCommand`), and what it has written so far is its own
(`HalfApplied`), byte by byte. The packet fits even half way through a command, because
the length it reads is that of the old text or of the new.

`HciBridgeProofs`, for any kinds, pools, credits, rings and faults. The invariant adds to
`NothingLost` that the controller has one packet and `main()` one event at a time,
that only data is on the air (`OneAtATime`), and that the host keeps to its credit
(`WithinCredit`). A step keeps the order if it moves the last of one part of
`UnderWay` to the beginning of the next (`Shift`, `PathKept`); only the event of a
command overtakes what is on the air, which is of other kinds (`OvertakeKept`). That
none is missing is a count (`BufferAtHand`): the packets in the queue, the one at the
controller and the one in the ring have different numbers, all without an event, so they
are at most the credit; the only buffer held beyond them is that of a command
whose event has left. Hence a buffer is free if there is one more than the credit for
commands, and as many as the credit for data, and the drop of `cpunet/src/main.c:80`
is not taken for these kinds.

Only model-checked: everything under fairness (`BindReturns`, `WindowEnds`,
`UserServed`, `BeaconResumes`, `AckArrives`, `WindowCloses`, `PassServed`, `WaitEnds`,
`PacketAnswered`), which the prover does not handle, and the five findings, which are
counterexamples.

## 7. Not modelled

The fatal error handlers (no configuration of the repository enables them), the
blinking of the LED (a timer that toggles a pin), the sensor driver beyond success
and failure, the wording of the shell's output, the transmit power (nothing calls
its setter), the host scripts and the build. The modules are not composed into one
state machine: their common points are the actions named in section 2, and the
product is out of TLC's reach.

## 8. Plan

1. `RadioOwner`, an abstract owner of the radio (host, satellite stack or nobody),
   implemented by `RadioSwitch` outside the lapses, and the proof of the refinement.
2. An abstract register that keeps the last confirmed key through resets, implemented
   by `KeyStore` outside the lapses.
