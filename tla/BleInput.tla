-------------------------------- MODULE BleInput --------------------------------
(***************************************************************************)
(* What the BLE input devices, and a mouse on the other chip, make of the  *)
(* input state the mapper takes.  Five tasks meet in it:                   *)
(*   the opener and hid_scan   open a device and, later, register it       *)
(*   the NimBLE host task      notifications and disconnects               *)
(*   the event loop of esp_hid handles the reports, one after the other    *)
(*   the link's receiver       reports and comings and goings of the       *)
(*                             other chip's mouse                          *)
(*   the mapper, the heartbeat take the state                              *)
(* A report says what is held; each of a keyboard's six places may have an *)
(* error code instead of a key.  Motion is only whether there is any.      *)
(***************************************************************************)
EXTENDS Sequences, FiniteSets, Naturals

CONSTANTS
  Peers,       \* the addresses of input devices
  Usage,       \* Usage[p]: the classes among the input reports of p
  Holdable,    \* keys, or mouse buttons, that can be held at once
  nothing,     \* ... or none of them
  QueueSize,   \* of the event loop
  MaxOpens     \* bound on opens

Classes == {"keyboard", "mouse"}

ASSUME BleInputAssumption ==
  /\ Usage \in [Peers -> SUBSET Classes]
  /\ nothing \notin Holdable
  /\ QueueSize \in Nat \ {0} /\ MaxOpens \in Nat

VARIABLES
  conn,       \* the devices esp_hid knows the connection of
  opened,     \* open, and not yet in the table
  table,      \* s_devs
  queue,      \* of the event loop: the INPUT events
  remote,     \* s_remote_mouse
  \* s_state
  keyboard_connected, mouse_connected,
  modifiers,  \* whether there are any
  keys, mouse_buttons,
  moved,      \* mouse_dx, mouse_dy, mouse_wheel are not all zero
  \* history and bound
  late,       \* classes reported by a device that no longer, or not yet, counts
  opens

inputs  == <<modifiers, keys, mouse_buttons>>
flags   == <<keyboard_connected, mouse_connected>>
s_state == <<flags, inputs, moved>>
devices == <<conn, opened, table, opens>>
vars    == <<devices, queue, remote, s_state, late>>

States == Holdable \union {nothing}

\* held: the keys, those places left out that have an error code; first: whether there is one in
\* the first place; rollover: whether any place has an error code.
KeyboardReports(p) ==
  {r \in [dev : {p}, class : {"keyboard"}, mods : BOOLEAN, held : States, first : BOOLEAN,
          rollover : BOOLEAN] :
     r.first => r.held # nothing}

MouseReports(p) == [dev : {p}, class : {"mouse"}, held : States]

Reports(p) ==
  {r \in KeyboardReports(p) \union MouseReports(p) : r.class \in Usage[p]}

Init ==
  /\ conn = {} /\ opened = {} /\ table = {} /\ opens = 0
  /\ queue = <<>> /\ remote = FALSE
  /\ keyboard_connected = FALSE /\ mouse_connected = FALSE
  /\ modifiers = FALSE /\ keys = nothing /\ mouse_buttons = nothing /\ moved = FALSE
  /\ late = {}

---------------------------------------------------------------------------------
\* usage_mask of the devices in the table.
Served(devs) == UNION {Usage[p] : p \in devs}

KeyboardServed(devs) == "keyboard" \in Served(devs)
MouseServed(devs)    == "mouse" \in Served(devs)

\* Mutant: the mouse on the other chip is forgotten.
AnyMouseLocal(devs, there) == MouseServed(devs)

AnyMouse(devs, there) == MouseServed(devs) \/ there

\* Mutant: only the flags are kept up.
refresh_connected_flags_only(devs, there, buttons) ==
  /\ keyboard_connected' = KeyboardServed(devs)
  /\ mouse_connected' = AnyMouse(devs, there)
  /\ mouse_buttons' = buttons
  /\ UNCHANGED <<modifiers, keys>>

\* Mutant: the keyboard's inputs go with any change of the devices.
refresh_connected_flags_clearing(devs, there, buttons) ==
  /\ keyboard_connected' = KeyboardServed(devs)
  /\ mouse_connected' = AnyMouse(devs, there)
  /\ modifiers' = FALSE /\ keys' = nothing /\ mouse_buttons' = buttons

\* From the devices in the table, and whether there is a mouse on the other chip: a class that is
\* gone holds nothing.
refresh_connected_flags_locked(devs, there, buttons) ==
  /\ keyboard_connected' = KeyboardServed(devs)
  /\ mouse_connected' = AnyMouse(devs, there)
  /\ IF KeyboardServed(devs)
       THEN UNCHANGED <<modifiers, keys>>
       ELSE modifiers' = FALSE /\ keys' = nothing
  /\ mouse_buttons' = IF AnyMouse(devs, there) THEN buttons ELSE nothing

\* What a class has late is cleared unless the class counts.
StillLate ==
  late' = {c \in late : IF c = "keyboard" THEN keyboard_connected' ELSE mouse_connected'}

---------------------------------------------------------------------------------
\* The opener has subscribed to the device's reports.
Open(p) ==
  /\ p \notin conn \union opened \union table /\ opens < MaxOpens
  /\ conn' = conn \union {p} /\ opened' = opened \union {p} /\ opens' = opens + 1
  /\ UNCHANGED <<table, queue, remote, s_state, late>>

\* hid_scan, with what the opener returned.
device_register(p) ==
  /\ p \in opened
  /\ opened' = opened \ {p} /\ table' = table \union {p}
  /\ refresh_connected_flags_locked(table', remote, mouse_buttons)
  /\ StillLate
  /\ UNCHANGED <<conn, opens, queue, remote, moved>>

\* gap_disconnect_listener(), and the callback that clears the connection: the device leaves the
\* table, in which it may not yet be; the events it has in the queue stay there.
Disconnect(p) ==
  /\ p \in conn
  /\ conn' = conn \ {p} /\ table' = table \ {p}
  /\ refresh_connected_flags_locked(table', remote, mouse_buttons)
  /\ StillLate
  /\ UNCHANGED <<opened, opens, queue, remote, moved>>

\* BLE_GAP_EVENT_NOTIFY_RX: an event with a copy of the report.  The host task waits for a place
\* in the queue.
Notify(p, r) ==
  /\ p \in conn /\ Len(queue) < QueueSize
  /\ queue' = Append(queue, r)
  /\ UNCHANGED <<devices, remote, s_state, late>>

\* "A report consisting solely of error codes is ignored entirely": so is one that has an error
\* code, no key in the first place and no modifier, whatever keys it has in the other places.
OnlyErrors(r) == r.rollover /\ ~r.first /\ ~r.mods

handle_keyboard_report(r) ==
  /\ IF OnlyErrors(r)
       THEN UNCHANGED <<modifiers, keys>>
       ELSE modifiers' = r.mods /\ keys' = r.held
  /\ UNCHANGED <<mouse_buttons, moved>>

handle_mouse_report(r) ==
  /\ mouse_buttons' = r.held
  /\ moved' \in {moved, TRUE}
  /\ UNCHANGED <<modifiers, keys>>

\* hidh_callback(), ESP_HIDH_INPUT_EVENT: whose report it was is not asked.
InputEvent ==
  /\ queue # <<>>
  /\ queue' = Tail(queue)
  /\ LET r == Head(queue)
     IN  /\ IF r.class = "keyboard" THEN handle_keyboard_report(r) ELSE handle_mouse_report(r)
         /\ late' = IF r.dev \in table THEN late ELSE late \union {r.class}
  /\ UNCHANGED <<devices, remote, flags>>

---------------------------------------------------------------------------------
\* The receiver of the link.
ble_hid_host_inject_mouse(held) ==
  /\ remote' = TRUE /\ mouse_connected' = TRUE
  /\ mouse_buttons' = held
  /\ moved' \in {moved, TRUE}
  /\ UNCHANGED <<devices, queue, keyboard_connected, modifiers, keys, late>>

\* With connected = FALSE, the only call there is: the buttons are cleared even if a device of the
\* table counts as a mouse.
ble_hid_host_set_remote_mouse ==
  /\ remote' = FALSE
  /\ refresh_connected_flags_locked(table, FALSE, nothing)
  /\ moved' = FALSE
  /\ late' = {c \in late : c = "keyboard" /\ keyboard_connected'}
  /\ UNCHANGED <<devices, queue>>

\* The mapper and the heartbeat.
ble_hid_host_take_state ==
  /\ moved' = FALSE
  /\ UNCHANGED <<devices, queue, remote, flags, inputs, late>>

Next ==
  \/ \E p \in Peers :
       \/ Open(p) \/ device_register(p) \/ Disconnect(p)
       \/ \E r \in Reports(p) : Notify(p, r)
  \/ InputEvent
  \/ \E held \in States : ble_hid_host_inject_mouse(held)
  \/ ble_hid_host_set_remote_mouse
  \/ ble_hid_host_take_state

Spec == Init /\ [][Next]_vars

---------------------------------------------------------------------------------
InputTypeOK ==
  /\ conn \subseteq Peers /\ opened \subseteq Peers /\ table \subseteq Peers
  /\ opens \in 0 .. MaxOpens
  /\ queue \in Seq(UNION {Reports(p) : p \in Peers}) /\ Len(queue) <= QueueSize
  /\ remote \in BOOLEAN /\ keyboard_connected \in BOOLEAN /\ mouse_connected \in BOOLEAN
  /\ modifiers \in BOOLEAN /\ moved \in BOOLEAN
  /\ keys \in States /\ mouse_buttons \in States
  /\ late \subseteq Classes

\* Who comes and goes on this chip does not hide the mouse of the other one, and the other way
\* round: the flags the mapper gets are those of the table and the link together.
FlagsAreCurrent ==
  /\ keyboard_connected = KeyboardServed(table)
  /\ mouse_connected = (MouseServed(table) \/ remote)

\* "The device dropped out -> clear its inputs, otherwise the pad would be left with a key or mouse
\* button held down forever": a class nobody serves holds nothing, unless a report of a device
\* outside the table was handled after it was last cleared.
GoneClassIsCleared ==
  /\ ~keyboard_connected /\ "keyboard" \notin late => keys = nothing /\ ~modifiers
  /\ ~mouse_connected /\ "mouse" \notin late => mouse_buttons = nothing

\* A key that is held stays held while other devices come and go: as long as the table has a
\* keyboard, only the report of a keyboard changes the keys.
KeysAreKept ==
  [][KeyboardServed(table) /\ KeyboardServed(table') /\ keys' # keys =>
       queue # <<>> /\ Head(queue).class = "keyboard" /\ queue' = Tail(queue)]_vars
================================================================================
