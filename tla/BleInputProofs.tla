----------------------------- MODULE BleInputProofs -----------------------------
(***************************************************************************)
(* What BleInput keeps true for any number of devices, keys and opens.     *)
(***************************************************************************)
EXTENDS BleInput, SequenceTheorems, TLAPS

Events == UNION {Reports(p) : p \in Peers}

\* An event has the fields of its class.
LEMMA EventFields ==
  ASSUME NEW r \in Events
  PROVE  /\ r.class \in Classes /\ r.held \in States
         /\ r.class = "keyboard" => r.mods \in BOOLEAN
<1>1. PICK p \in Peers : r \in Reports(p)
  BY DEF Events
<1>2. CASE r \in KeyboardReports(p)
  BY <1>2 DEF KeyboardReports, Classes, States
<1>3. CASE r \in MouseReports(p)
  BY <1>3 DEF MouseReports, Classes
<1> QED
  BY <1>1, <1>2, <1>3 DEF Reports

LEMMA TypeInit == Init => InputTypeOK
<1> SUFFICES ASSUME Init PROVE InputTypeOK
  OBVIOUS
<1>1. queue \in Seq(UNION {Reports(p) : p \in Peers}) /\ Len(queue) <= QueueSize
  BY BleInputAssumption, EmptySeq DEF Init
<1>2. conn \subseteq Peers /\ opened \subseteq Peers /\ table \subseteq Peers /\ late \subseteq Classes
  BY DEF Init
<1>3. opens \in 0 .. MaxOpens
  BY BleInputAssumption DEF Init
<1>4. keys \in States /\ mouse_buttons \in States
  BY DEF Init, States
<1>5. /\ remote \in BOOLEAN /\ keyboard_connected \in BOOLEAN /\ mouse_connected \in BOOLEAN
      /\ modifiers \in BOOLEAN /\ moved \in BOOLEAN
  BY DEF Init
<1> QED
  BY <1>1, <1>2, <1>3, <1>4, <1>5 DEF InputTypeOK

---------------------------------------------------------------------------------
\* The events of the loop, while the queue moves on.
LEMMA QueueStep ==
  ASSUME queue \in Seq(Events), queue # <<>>
  PROVE  /\ Head(queue) \in Events /\ Tail(queue) \in Seq(Events)
         /\ Len(Tail(queue)) <= Len(queue)
BY HeadTailProperties

\* The recomputation of the flags and of what the classes hold.
LEMMA RefreshType ==
  ASSUME NEW devs, NEW there \in BOOLEAN, NEW buttons \in States, InputTypeOK,
         refresh_connected_flags_locked(devs, there, buttons)
  PROVE  /\ keyboard_connected' \in BOOLEAN /\ mouse_connected' \in BOOLEAN
         /\ modifiers' \in BOOLEAN /\ keys' \in States /\ mouse_buttons' \in States
<1>1. keyboard_connected' \in BOOLEAN /\ mouse_connected' \in BOOLEAN
  BY DEF refresh_connected_flags_locked, KeyboardServed, AnyMouse, MouseServed
<1>2. modifiers' \in BOOLEAN /\ keys' \in States
  BY DEF refresh_connected_flags_locked, InputTypeOK, States
<1>3. mouse_buttons' \in States
  BY DEF refresh_connected_flags_locked, States
<1> QED
  BY <1>1, <1>2, <1>3

\* The flags are those of the table and the link.
LEMMA RefreshFlags ==
  ASSUME NEW devs, NEW there \in BOOLEAN, NEW buttons,
         refresh_connected_flags_locked(devs, there, buttons)
  PROVE  /\ keyboard_connected' = KeyboardServed(devs)
         /\ mouse_connected' = AnyMouse(devs, there)
         /\ ~keyboard_connected' => keys' = nothing /\ ~modifiers'
         /\ ~mouse_connected' => mouse_buttons' = nothing
<1>1. keyboard_connected' = KeyboardServed(devs) /\ mouse_connected' = AnyMouse(devs, there)
  BY DEF refresh_connected_flags_locked
<1>2. ~keyboard_connected' => keys' = nothing /\ ~modifiers'
  BY <1>1 DEF refresh_connected_flags_locked
<1>3. ~mouse_connected' => mouse_buttons' = nothing
  BY <1>1 DEF refresh_connected_flags_locked
<1> QED
  BY <1>1, <1>2, <1>3

---------------------------------------------------------------------------------
LEMMA TypeNext == InputTypeOK /\ [Next]_vars => InputTypeOK'
<1> SUFFICES ASSUME InputTypeOK, [Next]_vars PROVE InputTypeOK'
  OBVIOUS
<1> USE DEF States
<1>1. CASE UNCHANGED vars
  BY <1>1 DEF InputTypeOK, vars, devices, s_state, flags, inputs
<1>2. ASSUME NEW p \in Peers, Open(p) PROVE InputTypeOK'
  BY <1>2, BleInputAssumption DEF InputTypeOK, Open, s_state, flags, inputs
<1>3. ASSUME NEW p \in Peers, device_register(p) PROVE InputTypeOK'
  <2>1. /\ keyboard_connected' \in BOOLEAN /\ mouse_connected' \in BOOLEAN
        /\ modifiers' \in BOOLEAN /\ keys' \in States /\ mouse_buttons' \in States
    BY <1>3, RefreshType DEF device_register, InputTypeOK
  <2>2. late' \subseteq Classes
    BY <1>3 DEF device_register, StillLate, InputTypeOK
  <2>3. conn' \subseteq Peers /\ opened' \subseteq Peers /\ table' \subseteq Peers
    BY <1>3 DEF device_register, InputTypeOK
  <2> QED
    BY <1>3, <2>1, <2>2, <2>3 DEF device_register, InputTypeOK
<1>4. ASSUME NEW p \in Peers, Disconnect(p) PROVE InputTypeOK'
  <2>1. /\ keyboard_connected' \in BOOLEAN /\ mouse_connected' \in BOOLEAN
        /\ modifiers' \in BOOLEAN /\ keys' \in States /\ mouse_buttons' \in States
    BY <1>4, RefreshType DEF Disconnect, InputTypeOK
  <2>2. late' \subseteq Classes
    BY <1>4 DEF Disconnect, StillLate, InputTypeOK
  <2>3. conn' \subseteq Peers /\ opened' \subseteq Peers /\ table' \subseteq Peers
    BY <1>4 DEF Disconnect, InputTypeOK
  <2> QED
    BY <1>4, <2>1, <2>2, <2>3 DEF Disconnect, InputTypeOK
<1>5. ASSUME NEW p \in Peers, NEW r \in Reports(p), Notify(p, r) PROVE InputTypeOK'
  <2>1. queue' \in Seq(Events) /\ Len(queue') = Len(queue) + 1
    BY <1>5, AppendProperties DEF Notify, InputTypeOK, Events
  <2>2. Len(queue') <= QueueSize
    BY <1>5, <2>1, BleInputAssumption, LenProperties DEF Notify, InputTypeOK, Events
  <2> QED
    BY <1>5, <2>1, <2>2 DEF Notify, InputTypeOK, devices, s_state, flags, inputs, Events
<1>6. CASE InputEvent
  <2> DEFINE r == Head(queue)
  <2>1. /\ r \in Events /\ Tail(queue) \in Seq(Events) /\ Len(Tail(queue)) <= Len(queue)
    BY <1>6, QueueStep DEF InputEvent, InputTypeOK, Events
  <2>2. /\ r.class \in Classes /\ r.held \in States
        /\ r.class = "keyboard" => r.mods \in BOOLEAN
    BY <2>1, EventFields
  <2>3. queue' \in Seq(Events) /\ Len(queue') <= QueueSize
    BY <1>6, <2>1, BleInputAssumption, LenProperties DEF InputEvent, InputTypeOK, Events
  <2>4. modifiers' \in BOOLEAN /\ keys' \in States /\ mouse_buttons' \in States /\ moved' \in BOOLEAN
    <3>1. CASE r.class = "keyboard"
      BY <1>6, <2>2, <3>1 DEF InputEvent, handle_keyboard_report, InputTypeOK
    <3>2. CASE r.class # "keyboard"
      BY <1>6, <2>2, <3>2 DEF InputEvent, handle_mouse_report, InputTypeOK
    <3> QED
      BY <3>1, <3>2
  <2>5. late' \subseteq Classes
    BY <1>6, <2>2 DEF InputEvent, InputTypeOK
  <2> QED
    BY <1>6, <2>3, <2>4, <2>5 DEF InputEvent, InputTypeOK, devices, flags, Events
<1>7. ASSUME NEW held \in States, ble_hid_host_inject_mouse(held) PROVE InputTypeOK'
  BY <1>7 DEF ble_hid_host_inject_mouse, InputTypeOK, devices
<1>8. CASE ble_hid_host_set_remote_mouse
  <2>1. /\ keyboard_connected' \in BOOLEAN /\ mouse_connected' \in BOOLEAN
        /\ modifiers' \in BOOLEAN /\ keys' \in States /\ mouse_buttons' \in States
    BY <1>8, RefreshType DEF ble_hid_host_set_remote_mouse
  <2>2. late' \subseteq Classes
    BY <1>8 DEF ble_hid_host_set_remote_mouse, InputTypeOK
  <2> QED
    BY <1>8, <2>1, <2>2 DEF ble_hid_host_set_remote_mouse, InputTypeOK, devices
<1>9. CASE ble_hid_host_take_state
  BY <1>9 DEF ble_hid_host_take_state, InputTypeOK, devices, flags, inputs
<1> QED
  BY <1>1, <1>2, <1>3, <1>4, <1>5, <1>6, <1>7, <1>8, <1>9 DEF Next

\* Type correctness of the input record, its queue and the table.
THEOREM InputTypeCorrect == Spec => []InputTypeOK
BY TypeInit, TypeNext, PTL DEF Spec

---------------------------------------------------------------------------------
\* The three facts about a class together.
InputInv == InputTypeOK /\ FlagsAreCurrent /\ GoneClassIsCleared

LEMMA InputInvInit == Init => InputInv
<1>1. Served({}) = {}
  BY DEF Served
<1>2. ASSUME Init PROVE FlagsAreCurrent
  <2>1. KeyboardServed(table) = FALSE /\ MouseServed(table) = FALSE
    BY <1>1, <1>2 DEF Init, KeyboardServed, MouseServed
  <2>2. keyboard_connected = FALSE /\ mouse_connected = FALSE /\ remote = FALSE
    BY <1>2 DEF Init
  <2> QED
    BY <2>1, <2>2 DEF FlagsAreCurrent
<1>3. Init => GoneClassIsCleared
  BY DEF Init, GoneClassIsCleared
<1> QED
  BY TypeInit, <1>2, <1>3 DEF InputInv

LEMMA InputInvNext == InputInv /\ [Next]_vars => InputInv'
<1> SUFFICES ASSUME InputInv, [Next]_vars PROVE FlagsAreCurrent' /\ GoneClassIsCleared'
  BY TypeNext DEF InputInv
<1> USE DEF InputInv
<1>1. CASE UNCHANGED vars
  BY <1>1 DEF FlagsAreCurrent, GoneClassIsCleared, vars, devices, s_state, flags, inputs,
              KeyboardServed, MouseServed, Served
<1>2. ASSUME NEW p \in Peers, Open(p) PROVE FlagsAreCurrent' /\ GoneClassIsCleared'
  BY <1>2 DEF Open, FlagsAreCurrent, GoneClassIsCleared, s_state, flags, inputs,
              KeyboardServed, MouseServed, Served
<1>3. ASSUME NEW devs, NEW there \in BOOLEAN, NEW buttons,
             table' = devs, remote' = there,
             refresh_connected_flags_locked(devs, there, buttons)
      PROVE  FlagsAreCurrent' /\ GoneClassIsCleared'
  <2>1. /\ keyboard_connected' = KeyboardServed(devs)
        /\ mouse_connected' = AnyMouse(devs, there)
        /\ ~keyboard_connected' => keys' = nothing /\ ~modifiers'
        /\ ~mouse_connected' => mouse_buttons' = nothing
    BY <1>3, RefreshFlags
  <2>2. keyboard_connected' = KeyboardServed(table')
    BY <1>3, <2>1
  <2>3. mouse_connected' = (MouseServed(table') \/ remote')
    BY <1>3, <2>1, Zenon DEF AnyMouse
  <2> QED
    BY <2>1, <2>2, <2>3 DEF GoneClassIsCleared, FlagsAreCurrent, KeyboardServed, MouseServed, Served
<1>4. ASSUME NEW p \in Peers, device_register(p) PROVE FlagsAreCurrent' /\ GoneClassIsCleared'
  BY <1>3, <1>4 DEF device_register, InputTypeOK
<1>5. ASSUME NEW p \in Peers, Disconnect(p) PROVE FlagsAreCurrent' /\ GoneClassIsCleared'
  BY <1>3, <1>5 DEF Disconnect, InputTypeOK
<1>6. ASSUME NEW p \in Peers, NEW r \in Reports(p), Notify(p, r)
      PROVE  FlagsAreCurrent' /\ GoneClassIsCleared'
  BY <1>6 DEF Notify, FlagsAreCurrent, GoneClassIsCleared, devices, s_state, flags, inputs,
              KeyboardServed, MouseServed, Served
<1>7. CASE InputEvent
  <2> DEFINE r == Head(queue)
  <2>1. FlagsAreCurrent'
    BY <1>7 DEF InputEvent, FlagsAreCurrent, devices, flags, KeyboardServed, MouseServed, Served
  <2>2. r \in Events
    BY <1>7, QueueStep DEF InputEvent, InputTypeOK, Events
  <2>3. r \in Reports(r.dev) /\ r.class \in Usage[r.dev] /\ r.class \in Classes
    <3>1. PICK p \in Peers : r \in Reports(p)
      BY <2>2 DEF Events
    <3>2. r.dev = p
      BY <3>1 DEF Reports, KeyboardReports, MouseReports
    <3> QED
      BY <2>2, <3>1, <3>2, EventFields DEF Reports
  <2>4. CASE r.class = "keyboard"
    <3>1. ~keyboard_connected /\ "keyboard" \notin late' => FALSE
      BY <1>7, <2>3, <2>4 DEF InputEvent, FlagsAreCurrent, KeyboardServed, Served
    <3>2. UNCHANGED <<flags, mouse_buttons>>
      BY <1>7, <2>4 DEF InputEvent, handle_keyboard_report
    <3>3. "mouse" \in late => "mouse" \in late'
      BY <1>7 DEF InputEvent
    <3> QED
      BY <2>1, <3>1, <3>2, <3>3 DEF GoneClassIsCleared, flags
  <2>5. CASE r.class # "keyboard"
    <3>1. r.class = "mouse"
      BY <2>3, <2>5 DEF Classes
    <3>2. ~mouse_connected /\ "mouse" \notin late' => FALSE
      BY <1>7, <2>3, <3>1 DEF InputEvent, FlagsAreCurrent, MouseServed, Served
    <3>3. UNCHANGED <<flags, modifiers, keys>>
      BY <1>7, <2>5 DEF InputEvent, handle_mouse_report
    <3>4. "keyboard" \in late => "keyboard" \in late'
      BY <1>7 DEF InputEvent
    <3> QED
      BY <2>1, <3>2, <3>3, <3>4 DEF GoneClassIsCleared, flags
  <2> QED
    BY <2>4, <2>5
<1>8. ASSUME NEW held \in States, ble_hid_host_inject_mouse(held)
      PROVE  FlagsAreCurrent' /\ GoneClassIsCleared'
  BY <1>8 DEF ble_hid_host_inject_mouse, FlagsAreCurrent, GoneClassIsCleared, devices,
              KeyboardServed, MouseServed, Served
<1>9. CASE ble_hid_host_set_remote_mouse
  BY <1>3, <1>9 DEF ble_hid_host_set_remote_mouse, devices
<1>10. CASE ble_hid_host_take_state
  BY <1>10 DEF ble_hid_host_take_state, FlagsAreCurrent, GoneClassIsCleared, devices, flags, inputs,
              KeyboardServed, MouseServed, Served
<1> QED
  BY <1>1, <1>2, <1>4, <1>5, <1>6, <1>7, <1>8, <1>9, <1>10 DEF Next

\* The flags the mapper gets are those of the table and the link together, whoever came or went
\* last (refresh_connected_flags_locked).
THEOREM FlagsStayCurrent == Spec => []FlagsAreCurrent
<1>1. InputInv => FlagsAreCurrent
  BY DEF InputInv
<1> QED
  BY InputInvInit, InputInvNext, <1>1, PTL DEF Spec

\* A class that nobody serves holds nothing, unless a report of a device outside the table came
\* after it was last cleared (refresh_connected_flags_locked, hidh_callback).
THEOREM GoneClassesAreCleared == Spec => []GoneClassIsCleared
<1>1. InputInv => GoneClassIsCleared
  BY DEF InputInv
<1> QED
  BY InputInvInit, InputInvNext, <1>1, PTL DEF Spec

\* While the table has a keyboard, nothing but the report of a keyboard changes the keys: not a
\* device that comes or goes, and not the mouse of the other chip.
THEOREM KeysAreAlwaysKept == Spec => KeysAreKept
<1> DEFINE Kept ==
      KeyboardServed(table) /\ KeyboardServed(table') /\ keys' # keys =>
        queue # <<>> /\ Head(queue).class = "keyboard" /\ queue' = Tail(queue)
<1>1. ASSUME [Next]_vars PROVE [Kept]_vars
  <2>1. ASSUME NEW devs, NEW there, NEW buttons, table' = devs, KeyboardServed(table'),
               refresh_connected_flags_locked(devs, there, buttons)
        PROVE  keys' = keys
    BY <2>1 DEF refresh_connected_flags_locked
  <2>2. CASE UNCHANGED vars
    BY <2>2 DEF vars, s_state, inputs
  <2>3. ASSUME NEW p \in Peers, Open(p) PROVE Kept
    BY <2>3 DEF Open, s_state, inputs
  <2>4. ASSUME NEW p \in Peers, device_register(p) PROVE Kept
    BY <2>1, <2>4 DEF device_register
  <2>5. ASSUME NEW p \in Peers, Disconnect(p) PROVE Kept
    BY <2>1, <2>5 DEF Disconnect
  <2>6. ASSUME NEW p \in Peers, NEW r \in Reports(p), Notify(p, r) PROVE Kept
    BY <2>6 DEF Notify, s_state, inputs
  <2>7. CASE InputEvent
    BY <2>7 DEF InputEvent, handle_mouse_report
  <2>8. ASSUME NEW held \in States, ble_hid_host_inject_mouse(held) PROVE Kept
    BY <2>8 DEF ble_hid_host_inject_mouse
  <2>9. CASE ble_hid_host_set_remote_mouse
    BY <2>1, <2>9 DEF ble_hid_host_set_remote_mouse, devices
  <2>10. CASE ble_hid_host_take_state
    BY <2>10 DEF ble_hid_host_take_state, inputs
  <2> QED
    BY <1>1, <2>2, <2>3, <2>4, <2>5, <2>6, <2>7, <2>8, <2>9, <2>10 DEF Next
<1> QED
  BY <1>1, PTL DEF Spec, KeysAreKept
================================================================================
