# Verification of the ESP32 HID gamepad bridge

TLA+ modules, TLC configurations and TLAPS proofs for the firmware in
`src/firmware/main`. The bridge reads a keyboard and a mouse and presents itself
to a PC as a gamepad. It exists in two builds:

* **USB split**: an *input chip* is USB host to the keyboard and the mouse and
  sends their reports over a UART; a *pad chip* receives them and is a USB
  XInput pad, or, at the press of a hotkey, a plain USB keyboard and mouse.
* **BLE**: one chip is BLE central to the keyboard and mouse and BLE peripheral
  (gamepad) to the PC; optionally a second chip serves the mouse and forwards it
  over the same UART link.

## 1. Inventory

| Component | State | Operations | Talks to |
|---|---|---|---|
| `input_state.c` | one record of held keys, buttons, presence and motion sums, under a spinlock | `take`, `set_keyboard`, `accum_mouse`, `set_*_present` | written by the USB host or the link receiver, read by the mapper and the heartbeat |
| `usb_hid_host.c` | table of 8 interfaces, edge detector of the hotkey | connect, disconnect and report callbacks of the HID driver's task | `input_state`, `chip_link` |
| `chip_link.c` sender | event queue (16), presence byte, mode byte | `send_keyboard`, `send_mouse`, `set_presence`, `set_mode`; `sender_task` | queue and bytes shared with the HID callbacks; UART |
| `chip_link.c` receiver | parser state, time of last frame, peer presence | `receiver_task`: parse, `handle_frame`, watchdog | `input_state`, `usb_pad` |
| `usb_pad.c` | requested and current mode, last report sent, carried passthrough motion, mount flag | `request_mode`, `service_mode`, `send`, `send_passthrough`, driver callbacks | link task (request), mapper task (the rest), TinyUSB task |
| `input_mapper.c` | smoothing filter, opening window | one tick: take, service mode, map, send | `input_state`, `usb_pad` or `ble_hid_host`, `ble_gamepad` |
| `app_main.c` | none | start order, heartbeat every 5 s | everything |
| `ble_hid_host.c` | device table, dead list, candidates, scan schedule; the input record (held keys and buttons, motion, two presence flags) and the flag of the other chip's mouse | esp_hidh events, GAP listener, advertising reports, scan and open tasks; `take_state`, `accum_remote_mouse`, `set_remote_mouse` | NimBLE, `esp_hid`, `input_mapper`, `chip_link` |
| `ble_gamepad.c` | connection, subscription, last report, state of the interval ladder | GAP events in the host task, `send` in the mapper task, advertising and the ladder in its own task; GATT callbacks | NimBLE, `input_mapper`, the PC |
| `ble_stack.c` | `ble_hs_cfg`, the event group | init, start, `on_sync`, `on_reset` | NimBLE, `esp_hid`; everyone waits for `EV_SYNCED` |
| `esp_hid` | vendored component with local patches: the list of devices, one semaphore, the report map parser's statics, each device's table of reports | open, GAP callback, events, report map parsing, `device_usage_mask()` | NimBLE, `ble_hid_host` |
| `fake_keyboard.c` | test peripheral | advertises and types | nothing of the bridge |
| `scripts/` | tooling | build, flash, measure | - |

What is hard here: reports pass five tasks on two chips with no acknowledgement;
queues drop instead of blocking; presence and mode overtake queued reports; either
chip may restart alone; held keys and buttons must never outlive the device that
held them, while motion must be neither lost nor doubled; and the identity switch
takes the USB stack down while requests keep coming. `PROJECT.json` lists every
hazard with its line.

What makes each part correct:

* accumulator and link: motion is delivered at most once and in order; held state
  converges; a class that is gone, or a chip that is dead, holds nothing;
* mode: both chips agree in the end, nothing switches that nobody asked for;
* USB pad: the host's view converges to the state of the mapper;
* BLE host: every device in the table has a live connection, every dead one is
  released, one open at a time, scanning goes on while something is missing; the
  input record holds nothing of a class that is gone, and keys survive the comings
  and goings of other devices;
* report maps: read as the HID specification has them, whatever was parsed before;
  a device has the classes its own descriptors declare, and no others;
* BLE gamepad: advertising while not connected, a new connection starts from a
  report of its own, what is held reaches a PC that listens, the PC is asked for a
  shorter interval once and not before it is ready;
* bring-up: the tasks that wait for the stack hear of it, although the order of the
  start decides whose callback is called;
* mapper: bounded, the same over both transports, steady under a steady mouse,
  back to centre.

## 2. Modules

```
InputState <- LinkWire <- LinkSender <- UsbHidHost <-+
                      <- LinkReceiver <--------------+- UsbSplit <- MCUsbSplit
             UsbIdentity <-+                          |     ^
                           |            MotionChannel-+     +- UsbSplitProofs
                           |
                           +- UsbPad <- MCUsbPad          LinkFramer <- MCLinkFramer -> LinkCrc
                                ^                             ^
                                +- UsbPadProofs               +- LinkFramerProofs

EspHidh <- BleHost <- MCBleHost                 BleStack <- BleGamepad <- MCBleGamepad
              ^                                                  ^
              +- BleHostProofs                                   +- BleGamepadProofs

ReportParser <- ReportTable <- MCReportTable    PadReports <- Mapper <- MCMapper
                    ^                                            ^
                    +- ReportTableProofs                         +- MapperProofs

BleInput <- MCBleInput
    ^
    +- BleInputProofs
```

| Module | Models | State and actions |
|---|---|---|
| `InputState` | `input_state.c` | one operator per function, from record to record |
| `LinkWire` | the UART and the frames of `chip_link.c` | `wire`: frames written and not yet parsed; noise removes one |
| `LinkSender` | `chip_link.c` 105-285 | `txq`, `presence`, `mode`, and `txpc`, the three points of `sender_task` between which a callback may run |
| `LinkReceiver` | `chip_link.c` 291-558 | `pad` (the accumulator of the pad chip), `peerPresent`, `alive`, `silent`; one action per frame, one for the watchdog |
| `UsbIdentity` | `usb_pad.c` 504-593 | `want`, `passthrough`, `target`, `identity`; seeing that the request differs, reading it again for the target, and the result of the USB calls are three steps |
| `UsbHidHost` | `usb_hid_host.c` | `running`, `tracked`, `wasDown`, `local`; one action per callback and outcome; `held` is the physical world |
| `UsbSplit` | both chips together, `app_main.c`, the tick of `mapper_task` | one action per task step, per restart, per loss, and the clock |
| `MotionChannel` | what the bridge promises about motion | the abstract specification |
| `UsbPad` | `usb_pad.c` below the identity: `usb_pad_send`, `usb_pad_send_passthrough`, the driver callbacks, and the PC | `report` (`s_report`), `carry` and the other passthrough statics, `inFlight` (the one transfer of the endpoint), `host` (what the PC believes); the readiness check and the submission are two steps, since the TinyUSB task runs between them |
| `LinkFramer` | the byte level of `chip_link.c`: payloads, `frame_send`, the parser of `receiver_task`, over any checksum `Crc` of a byte | `parser`; one action per frame and per disturbance, each fed to the parser byte by byte |
| `LinkCrc` | `crc8` of `chip_link.c`, which TLC puts for `Crc` | none: the polynomial, bit by bit |
| `EspHidh` | the NimBLE half of `esp_hid` with its patches: `esp_hidh_dev_open()`, the callback of a connection, the list of devices; NimBLE as far as it is used | `openPc`, the points of the opener between which a callback may run; `token`, the one semaphore; `list`, `conn` (`conn_id` set); `link`, `dialing`, `procs`, `torn` are NimBLE's |
| `BleHost` | `ble_hid_host.c`: `hid_scan`, the guarded open, advertisements, the disconnect listener | `table` (`s_devs`), `dead` (`s_dead`), candidates and cooldowns, `scanPc`; one action per step of a task and per event of the NimBLE host task |
| `BleInput` | the input record of `ble_hid_host.c` and `esp_hid`'s event loop: reports, registration, disconnects, the mouse of the other chip, `take_state` | `table`, `queue` (INPUT events not yet handled), `remote` (`s_remote_mouse`), the fields of `s_state`; one action per task step |
| `ReportParser` | `esp_hid_common.c`: `parse_cmd()`, `handle_cmd()`, `handle_report()`, the classes | one record, the parser's static variables; operators from record to record, one item at a time |
| `ReportTable` | `nimble_hidh.c`: report characteristics, merging each service's map into the table; `device_usage_mask()` | `parser` outlives an open; one action per item of a map, per merge, per open, per restart |
| `PadReports` | `build_report()` of `ble_gamepad.c`, the report of `usb_pad_send()` | none: two functions of a pad state and what it means that they agree |
| `Mapper` | `input_mapper.c`: the filter, the sticks, the button table, the tick | `ema`, `pad`; the mouse's speed and phase and the controls held are the world |
| `BleStack` | `ble_stack.c`, the bring-up of `app_main()`, `esp_hidh_init()`'s callback | `boot`, `sync_cb`, `synced`, `EV_SYNCED` |
| `BleGamepad` | `ble_gamepad.c` with the mapper's opening window, NimBLE and the PC as far as they are used | `connected`, `subscribed`, `haveLast`, `last` (the statics of the file); `pc` and `task`, the points of the mapper task and the gamepad task between which others run; `event`, the callback the host task has before it |
| `MCUsbSplit`, `MCUsbPad`, `MCLinkFramer`, `MCBleHost`, `MCBleInput`, `MCReportTable`, `MCMapper`, `MCBleGamepad` | constants for TLC; `MCReportTable` also writes out the report maps | |
| `UsbSplitProofs`, `UsbPadProofs`, `LinkFramerProofs`, `ReportTableProofs`, `BleHostProofs`, `BleInputProofs`, `MapperProofs`, `BleGamepadProofs` | theorems | |

**Abstractions.** A keyboard state (modifiers and six keycodes) is a member of
`Keys`, a button bitmap one of `Buttons`; the combination of the hotkey is the
member `Combo`, and `ModsOf` gives the state of the modifiers alone. A mouse
report's motion is the number of the report, and the accumulated sums are sets of
such numbers, so a delta that is lost, doubled or overtaken shows. Time is counted
in keepalive periods of 250 ms; the peer timeout of the pad chip, 500 ms, is two.
The HID callbacks all run in the driver's one task, hence one action each; the
sender task shares with them only the queue and two bytes, each accessed once per
step. `usb_pad_service_mode()` is split between its two reads of the request, which the
receiver task writes, and where it waits for the USB stack. `interrupted` is history: the
keyboards that hold the combination and between whose reports one without it came. In
`UsbPad` one axis of the motion is an integer and the report of the gamepad is
determined by what is held; rumble and LED packets reach a log line only and are
left out. In `LinkFramer` bytes are bytes; the CRC is a parameter, any function to
a byte, for which the run puts that of the code. `LinkWire` takes from it that a frame
arrives whole or not at all.

In the BLE modules a device is named by its address, since esp_hid refuses to open an
address that is in its list, and a report map is the set of classes it declares. The dozens
of GATT procedures of an open are one reading and one write: what matters is that each is
waited for on the same semaphore. The time limits of an open (25 s, or 2 s after its link
went down) run out at the moment when nothing under way can wake the opener any more, or at
any moment once a peer was `slow` to answer (`LateAnswer`): NimBLE waits 30 s for an answer,
so the guard is then the first to give up, unless the answer still comes. The freshness of a
candidate (8 s) lets a walk over the candidates end after any open, and before one if those
left were not `heard` in this round. The three tasks interleave freely: the scanner and the
opener have priority 4, the NimBLE host task preempts them, and the S3 has two cores.
`early`, `lost` and `disturbed` are history, which the properties need to say what went
before. The restart of the chip gives every variable its initial value.

In `BleInput` a device is its address and the classes its reports declare; a report says
what is held, whether some place has an error code instead (`rollover`) and whether the
first place has a key, which is what the code looks at before it drops a report; motion is
only whether there is any. The event loop's queue is where a report waits while its device
may leave the table. `late` is history: a class that a device outside the table reported.

In `ReportParser` an item is a command and a value; the values keep the widths of the C
variables, and items the parser skips are commands it does not name: `PUSH`, `POP`, and
`OTHER` for the rest. The statics of the parser are one record, so that what one map leaves
behind is there when the next one begins. In `ReportTable` a device is what it supplies: the
maps of its services and its report characteristics. `MapsAreReadAsDeclared` compares the
parser, which works item by item, with `Declared`, which reads a map as the HID
specification has it: a field is a main item, with the global items that hold there,
whichever collection stated them; a report is the fields of one kind and one id in the whole
map, and is of the application whose collection it is in. What a table leaves out on purpose
(a keyboard's feature reports, a mouse's output reports) and adds (the boot reports of both)
is `Listed` and `Modes`. The parser departs from that, and `WellFormed` leaves out the maps
where it does. A map is `Orderly` if it is laid out as the parser wants it: values that fit
its variables, collections headed by page, usage and application, none within another, no
Push and Pop (which the parser skips), reports of whole bytes, each declared in one stretch,
and not more than there is room for. It is `Restated` if no field relies on a size, a count
or an id of an earlier collection, which the parser forgets, and `ClassesStay` if, where a
collection goes on to a further id, the usage named last is of the collection's own class,
which the parser takes it for. Items with a long prefix are not modelled. `MaskIsDeclared`
compares what the table tells of a device with `Declared`, for a device that is `Proper`:
well-formed maps, at one with its characteristics. Section 3 says what the code does with
others. A map that completes a collection without any report is handed on as `NULL`
(`Handed`), since `calloc(1, 0)` of ESP-IDF is one.

In `Mapper` one axis of the mouse stands for both, which the code treats alike; integers
are exact and divisions truncate as C's do. The controls of `s_buttons` and the left stick
are held in any combination up to a bound, the mouse keeps a speed until the stick has
settled. In `PadReports` bytes are the fields a PC reads in them.

In `BleGamepad` a report is a model value, the handle of the connection is whether there is
one (the controller hands the next link the same number), and the PC may do anything:
connect, fail to, enable notifications or not, disable them again, answer a request with the
value asked for, with its own, or by refusing it, leave it unanswered for as long as it
likes, vanish. A request made while one is unanswered is refused by NimBLE (`EALREADY`), at
no cost of the bound on refusals. NimBLE reports the end of a subscription before the end of
its link. `lapped`, `served` and `muted` (the PC of this link has disabled notifications at
some time) are history. Two things are assumed of time: a PC that was lost takes longer to
come back than the mapper takes for one report, and than the gamepad task takes for a round
of its loop while it is idle. In the middle of the ladder, which takes seconds, nothing is
assumed.

**Faults.** Noise destroys a frame (the CRC makes it vanish); a full queue drops the newest
event; either chip restarts with initial RAM (`InputChipDown`, `PadChipRestarts`);
`tinyusb_driver_uninstall()` and the installs may fail; a keyboard may report ErrorRollOver;
the ninth interface gets no slot; the PC resets the bus at any time, between the readiness
check and the submission too; stray bytes and halves of frames reach the parser. On the BLE
side a peer does not answer, answers under another address, declares no reports, answers
late, refuses a procedure or drops its link at any time, and the opener cannot be created. A
peripheral's report map is unreadable, empty, cut anywhere, ragged or ends inside a
collection. NimBLE refuses a notification, a start of advertising or a request for an
interval, and the NimBLE host resets; a run of `BleGamepad` has one kind of these or the
other, so that a property can say which it excuses.

## 3. Runs

Every bound is a constant in the `.cfg`: reports, plugs, unplugs, presses, losses,
crashes, beats, faults. The queue and the wire have two places, enough for overflow, for a
keepalive overtaking a queued report and for frames on the wire behind each other (one on the
wire in `mode`); the
interface table has two slots, enough to overflow with three devices.

| Run | Bounds | Shows |
|---|---|---|
| `motion` | one mouse, plugged in twice, two reports, a press, one of every fault | under every fault motion is never doubled, invented or reordered, disappears only where a fault or the pad chip's heartbeat took it, and the bridge implements `MotionChannel` |
| `release` | two keyboards and a mouse over two slots, two unplugs, a crash, rollover reports | the input chip holds nothing of a class that is gone; an announced device that goes away idle is released on the pad chip, and so is everything when the input chip dies; no live peer is declared dead |
| `mode` | two keyboards, three reports, rollover reports, two presses, a lost frame, two USB faults, a crash | the mode changes only when a keyboard completes the combination, or repeats it after a report without it came between; no switch that nobody asked for, reports always fit the identity on the bus, and in the end the two chips agree on the mode and on what is held |
| `pad` | two changes of what is held, three requests (there, back and there again), a movement that needs two reports, two failing stack calls, a bus reset | motion is conserved, nothing skipped is unknown to the PC until a reset, what is held gets through, nothing stays pressed |
| `framer` | frames with the extremes of every field and the sync bytes inside, two disturbances in a row | a frame that begins while the parser is between frames is received as it was meant; after a disturbance at most two frames are missed |
| `host` | one place in the table and one in the dead list, so that both overflow; two input devices and a beacon, one lost link besides those the chip ends, one failed step or slow peer | every record of a device has one owner, no entry outlives its link, the chip restarts itself only if a link went down during an open, a procedure was refused or a peer was slow |
| `served` | the two places of the code, two lost links, one failed step | a device that falls asleep, or whose open fails, is found and opened again |
| `reportmap` | twenty-two devices, three opens in any order, restarts; room for six reports | well-formed maps are read as the HID specification has them; an earlier map leaves a trace only if it ended inside a collection; the mask of a device is what its descriptors declare |
| `input` | a keyboard that also declares mouse reports, a mouse, a mouse on the other chip; three opens, a queue of two | the flags are those of the table and the link together, a class that is gone holds nothing, keys are kept while other devices come and go |
| `mapper` | 100 Hz, a mouse that reports on every fourth tick at five speeds, up to four controls held, four turns | the reports of both transports agree, a steady mouse holds the stick, the filter never stalls |
| `gamepad` | two links, one open of an input device, an input that changes once, two rungs of two tries, and one refusal or one reset | the report skipped as unchanged is known to the PC, the pad stays findable, an open leaves the PC at rest, what is held gets through, no PC is asked before it is ready, each is asked in the end, and the tasks hear of the stack |
| `steady` (violation) | 1 kHz, a mouse that reports 125 times a second | the stick is not held: each tick without a report may reset the filter |

`gamepad` needs two links to have a last report that belongs to the one before, and a link
that replaces another in the middle of the ladder. An opening window makes a second change
of the report beside the one of the input. In `mode` one keyboard can complete the
combination, be interrupted by a rollover or by the other keyboard, and repeat it. `mapper`
waits for 40 ticks, five of the filter's time constants, before it calls the stick settled;
the theorem has 64 and more, for any speeds. `reportmap` has three opens because what one
map leaves behind has to reach the next and then to be gone again.

**Fairness** (`FairSpec`): weak fairness of the sender, the receiver, the mapper and
the clock, each a FreeRTOS task or timer that is always scheduled again. Nobody is
assumed to touch a device, and no fault is assumed to happen or not to happen beyond
the bounds. `Prompt` adds that no task is starved for a whole keepalive period (and
that a device takes longer to enumerate than the rest of the boot takes); the
properties about deadlines need it, the ones about motion are checked without it.
In `UsbPad`, weak fairness of the mapper's tick, and of the PC configuring a device
that is there and polling an endpoint with a transfer on it, which a USB host does.
`UsbPad` assumes nothing of the order between a tick and a poll. `ModeAgreement` is about a
pad chip that has an identity: after two installs in a row have failed it never has one again.
In `BleHost`, weak fairness of the tasks, of the answers or time limits of the
controller, of the ends of scans and cooldowns and of links the chip has terminated; and
strong fairness of hearing a device that goes on advertising, since the scanner listens
only now and then. `served` is about a board that wants both classes: a chip that turns a
keyboard away could, if advertisements fell that way, open that keyboard again in every
round before the mouse has its turn, and only the timing (a cooldown of 5 s, adverts
several times a second) speaks against it.

In `BleGamepad`, weak fairness of the three tasks, of the rest of the bring-up, of the
supervision timeout that ends a dead link, and of the end of an open (25 s at the latest).
Nothing is assumed of the PC: the liveness properties speak of one that stays and listens.
They hold from any point on because refusals and resets are finitely many, and
`AskedInTheEnd` excuses a refused request, after which the code goes on to the next value
and, at the end of the ladder, gives up until the next connection.
`BleInput`, `Mapper` and `ReportTable` have safety properties only.

**Findings.** The run `steady` ends in a violation of `HoldsSteady`: at 1 kHz a tick without a
report resets the filter, so a steady mouse that reports 125 times a second does not hold the
stick (`input_mapper.c:204` against `:159` and `:166`).

Four more statements of comments and messages are not what the code does. The properties name
each case instead of passing it over:

* The heartbeat of the pad chip takes the shared state for its log line (`app_main.c:261`), and
  with it the motion since the mapper's last tick, against "every delta ends up in exactly one
  gamepad report" (`input_state.h:44`, `input_mapper.c:329`). `NothingVanishes` and
  `MotionChannel` count that motion as lost and `NothingVanishes` lists the heartbeat among the
  causes.
* `was_down` is one static that every report of every keyboard overwrites
  (`usb_hid_host.c:144`): a rollover report, or any report of a second keyboard, lets a
  combination that is held toggle again, against "a held combination must not toggle repeatedly"
  (`:122`). `ToggleNeedsPress` allows for the first repetition after such a report and for no
  other.
* The guard of an open runs out after 25 s (`ble_hid_host.c:926`), NimBLE's wait for one answer
  after 30 s: a slow peer on a live link restarts the chip and drops every device, with an answer
  still to come, although the message says that "the task is stuck inside IDF" (`:955`).
  `RestartsOnlyIfDisturbed` lists it as `slow`.
* The parser forgets Report Size, Count and ID at the head of each collection
  (`esp_hid_common.c:227-230`), which by the HID specification persist: reports that rely on an
  earlier collection's are not listed, against "driven by the devices' own HID report maps"
  (`README.md:119-120`). `Restated` leaves such maps out.

**Behaviours the model exhibits beside the findings.** None of these is checked by a
run; each is a few steps in the model.

* The report that completes the hotkey is dropped (`usb_hid_host.c:202-207`), the
  repetitions of it while the keys are held are forwarded.
* The rollover filter of the USB host applies only when no modifier is down (`usb_hid_host.c:96`);
  with one down the keys are overwritten with zeros.
* Of two keyboards, one pulled out with a key down leaves the key held until the
  other reports (`usb_hid_host.c:243`).
* When the fallback install fails too, the next tick finds nothing to uninstall, takes that
  for a failure and overwrites the request (`usb_pad.c:561-567`): nothing is installed again
  before a restart, although "both identities must not be down" (`usb_pad.c:572`).
* A request withdrawn between its two reads (`usb_pad.c:548` and `:552`) takes the USB stack
  down and installs the identity it had.
* A report still queued when a keepalive says that its class is gone follows it
  (`chip_link.c:262`) and sets what it holds again on the pad chip, with the class absent from
  the mask, so that no edge releases it. `DrainedInSync` and `IdleUnplugIsNoticed` leave such
  reports out.
* The ninth interface has no slot: when the last one with a slot leaves, its class is declared
  gone although this one goes on reporting.
* `last_buttons` in passthrough is a static that a switch does not reset
  (`usb_pad.c:638`): a button held across a switch away and back is not reported to
  the PC until the mouse's buttons change or it moves. `HeldReachesHost` therefore
  speaks of the buttons of the HID identity from its first mouse report on.
* The keyboard is marked clean before the result of its report is known
  (`usb_pad.c:634`). The only refusal left after `tud_hid_ready()` is a bus reset in
  between, after which the PC starts from a released keyboard, so nothing stays
  pressed; a key still held is missing until the next change.
* A disconnect of any device wakes an opener that waits for its connection
  (`nimble_hidh.c:807` and `:834`; "this disconnect is the answer to it",
  `:802-805`, holds only if the device is the one being opened). The open fails, its
  record is freed, the connection still comes up and is unknown to esp_hid, and its
  `SEND_CB()` is a token that the next open takes for its own answer: that open fails
  likewise and leaves a link nobody owns. A disconnect just after the end of the wait,
  with `s_open_waiting` still set, leaves a token too. `disturbed` records both.
* A link lost during the last write of an open, or between its result and
  `device_register()`, leaves an entry without a link in the table
  (`ble_hid_host.c:229`): the listener ran before there was an entry. This is the state
  that the comment at `ble_hid_host.c:706-712` describes. `early` records it.
* `s_dead` has as many places as the table and is emptied only when a round begins: a
  walk that turns devices away while others drop can fill it. The record that finds
  no place stays in esp_hid's list, which refuses its address (`esp_hidh.c:197`) until
  the chip restarts. `lost` records it.
* A device without input reports is marked dead without ending its link
  (`ble_hid_host.c:1386-1413`, unlike `:1448`): it stays connected and does not
  advertise.
* A failed read gives no semaphore (`nimble_hidh.c:121-137`), and the discovery asserts
  that it succeeded (`:369`): a peer that refuses a procedure restarts the chip.
* CRC-8 lets one damaged frame in 256 through: with two cut frames in a row and one
  whole frame TLC finds a mode frame whose bytes complete a cut keyboard report with a
  matching CRC. "Nothing but what was sent is ever received" is thus not a property of
  this protocol, and `LinkWire`, where a damaged frame vanishes, leaves that out.
* The heartbeat on BLE takes the shared state for its log line too (`app_main.c:285`).
* A device that came and went between two keepalives was never in the presence mask, so
  no edge releases it on the pad chip (`chip_link.c:373`, `:381-382`): a key whose release
  was dropped by a full queue stays held until the chip is silent. `IdleUnplugIsNoticed`
  speaks of announced devices that go away idle.
* After a bus reset the pad skips a report as unchanged that the PC no longer knows
  (`usb_pad.c:395-396`, against `usb_pad.h:42`). `SkippedIsKnownUnlessReset` stops there.
* A report still in the event loop's queue when its device leaves the table sets keys again
  (`ble_hid_host.c:654`), with `keyboard_connected` false; one handled before
  `device_register()` is wiped if another device leaves in between. `late` records both.
* A combo device's mask has the mouse bit, so the buttons of a local mouse that leaves
  stay held while such a keyboard is there (`ble_hid_host.c:218-219`); and
  `set_remote_mouse(false)` clears the buttons of a local mouse in the same way. The
  property speaks of classes, not devices.
* `ESP_HIDH_CLOSE_EVENT` never comes on this path, as the comment in its handler says
  (`ble_hid_host.c:675-680`): a device leaves the table through `gap_disconnect_listener()`
  alone, which is why a link lost before its registration is missed.
* A map that ends inside a collection leaves the parser there (`esp_hid_common.c:48`): the
  maps that follow, of any device, are read as its continuation until a collection ends.
  `misled` records it, and only a restart of the chip is sure to end it.
* A usage keeps 16 bits of its value and a report id 8 (`esp_hid_common.c:233`, `:287`), and
  the depth of nesting wraps at 256: a usage given in four bytes loses its page, and an id 0
  counts as none. `WithinWidths` leaves such maps out.
* A map that ends without having completed a collection leaves `s_temp_hid_report_map` NULL
  where it is dereferenced (`esp_hid_common.c:366`): the chip restarts. A collection whose bits
  are not whole bytes is logged and left out.
* The class of a further id of a collection is read off the usage named last in it
  (`esp_hid_common.c:283-284`), the application's own only by the habit of report maps:
  a mouse whose second id follows a usage of another class loses that report.
* Push, Pop and the prefix of a long item are skipped like any item the parser does not name;
  `NoStack` leaves maps with the first two out.
* In the BLE host a report whose first place has an error code or nothing, with no modifier,
  is dropped as a rollover also if another place holds a key (`ble_hid_host.c:515-531`).
* While a request for an interval is unanswered, NimBLE refuses every other (`EALREADY`), and the
  ladder runs through its remaining rungs at once (`ble_gamepad.c:916-922`): a PC that takes more
  than 2.5 s to answer is asked for none of them.
* A boot characteristic keeps id 0 until a map of its service is merged; one service's id
  may then match the other's input. `MaskIsDeclared` is about the classes, not the ids.
* Beside reports without an id, that 0 is a match: a boot characteristic takes the class of
  an unnumbered report of the other class in its service (`nimble_hidh.c:573-591`), so that a
  mouse that also has a boot keyboard characteristic is never a keyboard. `Consistent` leaves
  such devices out, and those that give a boot characteristic a Report Reference.
* A switch to passthrough leaves the filter as it was (`input_mapper.c`, `PassedOn`): back
  as a pad the stick moves on from the old average for a few ticks.
* A start of advertising that fails is logged and not repeated (`ble_gamepad.c:550`), and
  nothing advertises again after a reset of the NimBLE host: the pad cannot be found until
  the chip restarts. `FoundUnlessRefused` names both.
* A neutral report that is refused at the start of an opening window is not repeated
  (`input_mapper.c:377`), since `was_opening` is set all the same.
* The ladder looks its connection up by handle after each wait: a link that replaced the
  one it began with is asked in its stead, before its PC has finished its own procedures,
  and, having been asked, does not get a ladder of its own. `lapped` records it.
* `request_fast_interval()` of the BLE host reads the link's interval once, before the first
  value (`ble_hid_host.c:1570-1672`): a peer that shortens its interval by itself during the
  waits is then asked for a longer one, which `:1612` says makes no sense.

## 4. Proofs

| Module | Theorems |
|---|---|
| `UsbSplitProofs` | for any devices, buffer sizes and fault bounds: `TypeCorrect`, `GoneClassesAreReleased`, `ReportsAlwaysFit`, `LivePeersAreHeard`, `DrainedStaysInSync`, `TogglesNeedPresses`; `NoSpuriousSwitchAlways`; and of motion `MotionStaysInOrder`, `MotionIsNeverTwice`, `OnlyFaultsLoseMotion`, `BridgeImplementsChannel` |
| `UsbPadProofs` | `PadTypeCorrect`, `MotionConserved`, `SkippedReportsAreKnown` |
| `BleHostProofs` | `RecordsHaveOneOwner`, `TableEntriesAreConnected`, `RestartsNeedADisturbance` |
| `BleInputProofs` | `InputTypeCorrect`, `FlagsStayCurrent`, `GoneClassesAreCleared`, `KeysAreAlwaysKept` |
| `LinkFramerProofs` | for any checksum and any events: `CleanFrameIsReceivedAlways`, `BackInStepAlways` |
| `ReportTableProofs` | for any peripherals and any report maps: `EarlierMapsLeaveNoTraceAlways`, `MapsAreReadAsDeclaredAlways`, `MaskIsDeclaredAlways` |
| `MapperProofs` | `MapperTypeCorrect`, `FilterNeverStalls`, `TransportsAlwaysAgree`; at 100 Hz, from 64 ticks on, `HoldsSteadyAlways` |
| `BleGamepadProofs` | `GamepadTypeCorrect`, `LastStaysKnown`, `NeutralThroughOpening`, `AlwaysFoundUnlessRefused`, `PcIsAskedWhenReady` |

The argument: motion passes four places in a row (queue, wire, accumulator, taken). Each
place in order is not inductive, since a delta moves from one to the next; the invariant
`MotionInv` says that everything in a later place is older than everything in an earlier one
(`MotionChain`), that each queue is in order, and that the two readers share nothing.
Uniqueness follows: two places in order are disjoint (`ChainDisjoint`). Each task's effect
is first reduced to sets (`CallbackMotion`, `SenderMotion`, `ReceiverMotion`), then to one
of five facts about chains (`ChainReport`, `ChainSend`, `ChainReceive`, `ChainTake`,
`ChainLose`). `OnlyFaultsLoseMotion` needs one thing more, that a mouse the pad chip does
not see has no motion there (`MouseHasMotion`), so that clearing a class takes motion only
with a mouse that was there; then each task moves motion from one place to the next and
leaves the union of the places alone (`StepKeeps`). For the refinement every step either
reports one delta, takes all that arrived, or loses some (`MotionFlow`), and each is a step
of `MotionChannel`.

What the two chips hold: `LivePeersAreHeard` needs to know why the watchdog is in time.
`HeardInv` says that, until a fault, the peer was heard of in this period, or the keepalive
that says so is due or on the wire. `DrainedStaysInSync` says something only of empty queues;
`Synced` says at every moment what they will settle to: the last report of a class in the
queue, else on the wire, else what the pad chip holds, is what the input chip holds
(`Settles`, with one lemma each for posting, moving, writing and receiving). It also needs
that nothing clears a class in between: the presence mask only grows along
the way to the pad chip (`OnlyGrows`), the watchdog is quiet (`HeardInv`), and the queue has
room for the next report, since it never holds more than were made. Both assume `Prompt`, that
is a task that runs once a period, and a peer timeout of more than one period, as in the code
(500 ms against 250 ms). `TogglesNeedPresses` holds for any keyboards
and any rollovers: its invariant says that a keyboard which holds the combination, uninterrupted,
has the edge detector set, since every report that resets it also puts the keyboards that hold
the combination into `interrupted`.

`NoSpuriousSwitchAlways` counts. `unspent` is the number of times the mode changed on the
input chip, and one for each restart of the pad chip, less the changes of identity there;
the invariant `SwitchInv` says that it covers all that can still happen. `Owed` walks along
the wire and then the queue, from the mode the pad chip is asked for to the mode the input
chip has, and counts the mode frames that differ from the one before; `Left` takes from
`unspent` what the switch under way has taken up (`TakenUp`: one change of the mode, or two
if the request was withdrawn before it was read again). A change of mode adds one to both
sides, a frame that arrives moves its cost from the walk to the switch, and a frame that is
lost or dropped cannot make the walk longer (`DifferTriangle`, `WalkInserted`). The
difficulty is the keepalive, which repeats the mode byte ahead of mode events still queued:
the mode would go there and back. Each mode event in the queue is therefore priced with a
repetition in front of it while one is due (`IsDue`), and `Prompt` is what keeps it at one:
were a task starved for two keepalive periods, the same stale events would be paid for
twice, and the statement is false. The walks are functions of the number of frames, so the
lemmas about them are inductions over the naturals (`Induction`).

For `UsbPad`, `MotionIsConserved` is inductive beside the types: every action moves a
count from one place to another, and the one that splits it, the clamp, is handled by
`ClampRange`. `SkippedIsKnownUnlessReset` is not: it says something only at the moment
of the submission. `PadInv` strengthens it to every moment: until the first reset the
PC has, or is about to read, `s_report` while the pad is on the bus, a transfer is one
of the identity on the bus, no identity changes between the readiness check and the
submission, and what the check found stays true until then. 
For the byte level, `FramerInv` joins the shape of the parser (`ParserInv`) to the first
property: a frame that finds the parser between frames is received. Its proof follows the
bytes of one frame through the parser (`Preamble`, `Collected`, `CleanFrame`), the loop of
`receiver_task()` being a function of the number of bytes read. The checksum matters only in
that both ends compute the same one, which is why it is a parameter; the payload must fit
the buffer (`PayloadMax >= 7`, 8 in the code). `BackInStepAlways` is about a frame that
meets the parser inside what it takes for a frame: unless a sync word lies in the frame
itself (`decoy`), it only uses up bytes the parser still wants (`Resync`), and a frame has at
least six. The parser never wants more than `PayloadMax + 3` (`Rem`), so `PayloadMax - 3`
after one missed frame and none after two (`CatchesUp`). That needs `PayloadMax <= 9`; with
a longer buffer a third frame of six bytes could be missed.

`EarlierMapsLeaveNoTraceAlways` compares the parser in hand with one just powered on that
reads the same map (`Shadow`, the parser after each item). `Alike` is the relation that
every item preserves (`ItemAlike`): between collections nothing but the step and
the collected map matters; inside one, every variable but the collected map does; and the
collected map is the same once the first report is listed, before which the parser in hand
may hold leftovers that `s_new_map` makes it drop. A map that is rejected early is rejected
by the other parser at the same item, and a parser that stopped stays stopped
(`StoppedStays`).

`MapsAreReadAsDeclaredAlways` is about a definition that counts: nesting is a difference of
cardinalities, the value that holds at an item is that of a maximal position, a length is a
sum over the map. The invariant `ReadInv` says what the parser holds before each item of a
well-formed map. In the head of a collection that is the step; past it, that every variable
has the value `OwnValue` gives (the last in the same collection), the depth is `Nesting`,
and each of the three lengths is the sum over the fields since the last mark. Marks are the
ends of the top-level collections and the items where a collection goes on to a further id,
the places where the parser lists reports; between two marks the collection, the class and
the id of the fields do not change (`SameCollection`, `MarkClass`, `OneId`), and no field of
the same report lies beyond them (`FieldsAfter`, `FieldsUpTo`, the two that need an id to be
used in one place only). `MarkDeclares` concludes that what is declared between two marks is
what the parser then lists (`ReportsLists`), that it is new, and that what is `Kept` is
therefore always what is declared up to the last mark. Each item preserves this: one of a
head (`HeadStep`), one that sets a value or adds a field (`PlainStep`), one at a mark
(`ChangeStep`, `EndStep`). That no report is refused for want of space is a fact about
cardinalities (`Room`). A map that is rejected leaves the parser between collections
(`ErrorStep`), so that only one that ends inside a collection, `misled`, spoils the next.
All of this is about what the parser takes for declared (`OwnDeclared`, with values and
classes of the collection's own, for a map that is `OwnWellFormed`). `AsDeclared` closes the
gap: in a `WellFormed` map the values the HID specification has are the collection's own, so
the sums are the same (`SameBits`), and so is the class, which only the last of the
collection's further ids decides (`SameClass`).

`MaskIsDeclaredAlways` adds the table: an entry is what discovery made of its characteristic
until the map of its service has been merged, and tells the declared class from then on
(`TableInv`). The merge goes through all reports of a map and the last match wins; it does
not matter which, because two reports of one id have one class (`OneClass`), and because
what exists in boot protocol exists in report protocol (`InReportMode`). A boot
characteristic keeps its class, though each match gives it an id that a later report might
share: that report has the same class (`BootCompleted`).

For `BleHost`, `OneOwner` needs to know that the opener and the scanner fit together
(`Phases`: there is an opener exactly while the scanner waits for it, and its result is its
target or nothing). `TableIsConnected` needs `Connections`: a device with a `conn_id` is in
the list and has a link, or one whose end the callback has yet to hear of; and a device past
its connection has a link, or lost it during the open. The step that makes this inductive is
that a fresh record has no `conn_id`, because its address was not in the list.
`RestartsOnlyIfDisturbed` is about the one semaphore all waits share. `Owed` says that in an
open nothing disturbs it is given exactly once per wait: while the opener waits, either it
can be taken, or the connection or the one procedure that will give it is under way, and at
no other time can it be taken. So the guard cannot run out with nothing under way, and if it
runs out at all the peer was `slow`; what a slow peer changes is only who gives up first. A
stray give would end the next wait early and is ruled out with it. The connection invariant
is used once, for a procedure that begins: its link is up, so it does begin.

For `BleInput` the flags and the cleared classes are inductive together with the types
(`InputInv`), because every change of the table or of `remote` ends in
`refresh_connected_flags_locked()`; a report that arrives for a class nobody serves is what
`late` is for.

For `Mapper`, `NeverStalls` is arithmetic: the increment truncates to zero only when the
average is below the filter's number of ticks, which is below `EMA_FRAC`, where the snap
takes over; this needs the rate to be at most 1000 Hz, as the Kconfig has it.
`TransportsAgree` holds of every pad state and not only of those that are reached: the
axes by monotone scaling, the buttons table by table, the d-pad over its sixteen sets.

`HoldsSteadyAlways` is proved from `Steady`: 100 Hz (the Kconfig's default, and the rate the
comment at `input_mapper.c:151` speaks of), a divisor of 24 (the default) or more, a report
on every fifth tick or more often (the comment has 20 to 25 a second), up to 400 counts in a
report (the Kconfig's help has 355), a deflection above six, and 64 ticks at one speed. The
run `steady` shows that the rate cannot be left out. `HoldsSteady` says nothing of the ticks
before the stick has settled; `SteadyInv` does, by two tables of numbers. `Rest` has, for
each tick since the mouse turned, how much of the motion before may still stand against it:
seven eighths of the row before, the remainder rounded against the mouse, from the most that
any mouse brings the filter to (`FilterBounded`). In its last two rows the snap takes over,
so after 47 ticks nothing is left. From there `Least` has, for every period and every tick
between two reports, what each count has brought at least: a report adds an eighth of
`EMA_FRAC`, a tick without one keeps seven eighths (`LeastReportTick`, `LeastTick`). The snap
must not undo that, and does not, since a mouse that matters brings more than five counts for
every tick of its period (`LeastCount`). At most 15 ticks more and the average is 2341 / 4096
of the exact one, and that shows half of the deflection after both truncations as soon as
the deflection is seven or more (`HalfShown`). The invariant speaks of the average in the
direction of the mouse (`Along`); that the directions are alike is `FilterStep` and
`StickMirrored`. TLC checked it with 22 speeds for each of the five periods before it was
proved.

For `BleGamepad` the invariant has four parts beside the types. `LinkInv` says how far the
flags of `ble_gamepad.c` may lag behind the link: by the callback that is under way, and no
more; a ladder under way over a link that is not `lapped` has a PC that subscribed, or that
did before it was `muted`. `SentInv` follows a report through `ble_gamepad_send()`: while
the PC is there, what is being remembered is what it has, because a new link forgets what
was remembered before. The properties alone are not inductive, since between `notify` and
`remember` the PC already has the report and the pad still compares with the one before.
`FoundInv` adds that nothing happens on the air before the host has synced, so a start of
advertising that was neither refused nor after a reset succeeds. `TaskTypes` keeps the
ladder's index in step with the points of the task, which is why it is never read past its
end.

Assumptions used, all named in the modules: sizes are positive, no device is called `none`,
`Released` is a key and a button state, the checksum of a frame is a byte, a peripheral
supplies a sequence of maps, each a sequence of items, and characteristics that lie in one
of its services, `NULL` is not a parsed map, `ModsOf` maps key states to
key states, a report is neither `blank` nor `NULL`, the ladder is a sequence of numbers, the
mapper's rate is a multiple of 100 up to 1000 (the Kconfig has any from 10 to 1000).

Induction. The provers cannot instantiate an induction rule that takes a predicate, but one
whose property is a set of numbers they can: `Induction` is proved from the library's facts
on well-founded relations and cited with the set at hand. It reaches what is defined as a
recursive function of a number (`Parsed`, `ParserAfter`, walks along a queue, `Bits`,
`Complete`), whose defining equation is proved first (`ParsedStep`, `AfterStep`, `BitsAre`,
`CompleteIs`). A fold from the library cannot be unfolded this way, which is why the last
two are not folds.

Only model-checked:

* liveness (`ModeAgreement`, `IdleUnplugIsNoticed`, `DeadPeerIsReleased`,
  `HeldReachesHost`, `ReleaseReachesHost`, `ServedInTheEnd`, `HeldReachesPc`,
  `AskedInTheEnd`, `TasksHearOfSync`), which depends on fairness and is out of the prover's
  reach;
* what `HoldsSteady` says of five particular speeds between the fortieth tick and the 64th.

## 5. Not modelled

* `ble_gamepad.c`: the GATT server's read and write callbacks (report map, protocol mode,
  rumble, battery, device information) answer from constants or log; the generic profile is
  another build of the same report, the selftest a replacement of the mapper. What a PC
  reads from `s_rpt_input` is the report last prepared, which may be one that was refused.
* `ble_hid_host.c`: the interval requests change a link's parameters and nothing the modules
  speak of (see the last of the behaviours above); the logs of bonds and peers. A late result
  of an open that was given up (`ble_hid_host.c:882-889`) cannot occur, since giving up
  restarts the chip.
* `usb_pad.c`: rumble and LED packets reach a log line only.
* `chip_link.c`: the BLE split's macros are the same sender and receiver with a mouse only,
  whose effect on the BLE side is `BleInput`'s `remote`; the RX probe build.
* `esp_hid`: the device role, the Bluedroid half and the classic transport are not built.
* `fake_keyboard.c` is a test peripheral, `scripts/` are tools.

What would be worth adding: the interval requests of the host with their retries as a
module of their own; the GATT callbacks with the two reports they choose between; and two
keyboards on the shared accumulator, whose joint state the code does not define.
