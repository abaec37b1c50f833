------------------------------ MODULE UsbHidHost ------------------------------
(***************************************************************************)
(* The USB host of the input chip, usb_hid_host.c: which HID interfaces    *)
(* are open, and what their reports do to the local accumulator and to the *)
(* link.  All three callbacks run in the HID driver's one background task, *)
(* so each is one action; the sender task runs beside it and shares only   *)
(* the queue, the presence byte and the mode byte, each written once per   *)
(* callback.                                                               *)
(*                                                                         *)
(* held is the physical world: what is pressed on each device.             *)
(***************************************************************************)
EXTENDS LinkSender, FiniteSets

CONSTANTS
  Devices,      \* HID interfaces that may be plugged in
  Keyboards,    \* those with the keyboard protocol; the others are mice
  Combo,        \* the key state Ctrl + Alt + the passthrough key
  ModsOf,       \* per key state, the state of its modifiers alone
  Rollovers,    \* TRUE: keyboards also report ErrorRollOver
  MaxIfaces,    \* slots of s_ifaces, 8 in the code
  MaxReports,   \* bound on the reports the devices send
  MaxPlugs,     \* bound on the times a device is plugged in
  MaxUnplugs,   \* bound on the times one is pulled out
  MaxPresses    \* bound on the reports that hold the combination

ASSUME DevicesAssumption ==
  /\ Keyboards \subseteq Devices
  /\ IsFiniteSet(Devices)
  /\ Combo \in Keys \ {Released}
  /\ ModsOf \in [Keys -> Keys] /\ Rollovers \in BOOLEAN
  /\ MaxIfaces \in Nat /\ MaxReports \in Nat /\ MaxPlugs \in Nat
  /\ MaxUnplugs \in Nat /\ MaxPresses \in Nat

VARIABLES
  running,    \* interfaces opened and started
  tracked,    \* those with a slot in s_ifaces
  wasDown,    \* was_down of hotkey_fired(), one for all keyboards
  local,      \* s_state of the input chip
  held,       \* what is physically held on each device
  interrupted,  \* keyboards that hold Combo, but another report came between
  reports,    \* reports so far; a report's number names its motion
  issued,     \* the deltas the mice have reported
  plugs,      \* interfaces plugged in so far
  unplugs,    \* interfaces pulled out so far
  presses     \* reports of the combination so far

hostVars  == <<running, tracked, wasDown, local>>
worldVars == <<held, interrupted, reports, issued, plugs, unplugs, presses>>

HostInit ==
  /\ running = {}
  /\ tracked = {}
  /\ wasDown = FALSE
  /\ local = s_state_initial

WorldInit ==
  /\ held = [d \in Devices |-> Released]
  /\ interrupted = {}
  /\ reports = 0
  /\ issued = {}
  /\ plugs = 0
  /\ unplugs = 0
  /\ presses = 0

HostTypeOK ==
  /\ running \subseteq Devices /\ tracked \subseteq running
  /\ wasDown \in BOOLEAN
  /\ local \in InputRecord

WorldTypeOK ==
  /\ held \in [Devices -> Keys \cup Buttons]
  /\ \A d \in Devices : held[d] \in IF d \in Keyboards THEN Keys ELSE Buttons
  /\ interrupted \subseteq Keyboards
  /\ reports \in Nat /\ issued \subseteq 1..reports
  /\ plugs \in Nat /\ unplugs \in Nat /\ presses \in Nat

OfClass(S, class) ==
  IF class = "keyboard" THEN S \cap Keyboards ELSE S \ Keyboards

\* count_proto(p) > 0, for each class.
Served(S) == {c \in Classes : OfClass(S, c) # {}}

ClassOf(d) == IF d \in Keyboards THEN "keyboard" ELSE "mouse"

SetPresent(s, class, present) ==
  IF class = "keyboard" THEN input_state_set_keyboard_present(s, present)
  ELSE input_state_set_mouse_present(s, present)

\* driver_event_cb: the interface opens and starts.  With the table full it
\* runs untracked.  An open or start that fails changes nothing.
InterfaceConnected(d) ==
  /\ d \notin running
  /\ plugs < MaxPlugs
  /\ plugs' = plugs + 1
  /\ held' = [held EXCEPT ![d] = Released]
  /\ interrupted' = interrupted \ {d}
  /\ running' = running \cup {d}
  /\ tracked' = IF Cardinality(tracked) < MaxIfaces THEN tracked \cup {d} ELSE tracked
  /\ local' = SetPresent(local, ClassOf(d), TRUE)
  /\ chip_link_set_presence(Served(tracked'))
  /\ UNCHANGED <<wasDown, reports, issued, unplugs, presses, txq, mode, txpc, kaDue>>

\* HID_HOST_INTERFACE_EVENT_DISCONNECTED: only the last interface of a class
\* takes the class away.
InterfaceDisconnected(d) ==
  /\ d \in running
  /\ unplugs < MaxUnplugs
  /\ unplugs' = unplugs + 1
  /\ running' = running \ {d}
  /\ tracked' = tracked \ {d}
  /\ held' = [held EXCEPT ![d] = Released]
  /\ interrupted' = interrupted \ {d}
  /\ IF OfClass(tracked', ClassOf(d)) = {}
     THEN /\ local' = SetPresent(local, ClassOf(d), FALSE)
          /\ chip_link_set_presence(Served(tracked'))
     ELSE UNCHANGED <<local, presence>>
  /\ UNCHANGED <<wasDown, reports, issued, plugs, presses, txq, mode, txpc, kaDue>>

\* Mutant: every report of a held combination fires.
fires_while_held(keys) == keys = Combo

\* hotkey_fired(): on the report that completes the combination, not on the
\* ones that repeat it.
hotkey_fired(keys) == keys = Combo /\ ~wasDown

HoldsCombo == {d \in Keyboards : held[d] = Combo}

\* A keyboard sends a report, by pressing, releasing or repeating.  One without
\* the combination comes between the reports of those that hold it.
KeyboardReports(d, keys) ==
  /\ d \in running \cap Keyboards
  /\ reports < MaxReports
  /\ reports' = reports + 1
  /\ keys = Combo => presses < MaxPresses
  /\ presses' = IF keys = Combo THEN presses + 1 ELSE presses
  /\ held' = [held EXCEPT ![d] = keys]
  /\ interrupted' = (IF keys = Combo THEN interrupted ELSE HoldsCombo) \ {d}
  /\ wasDown' = (keys = Combo)

\* The combination fired: the mode toggles and the report goes nowhere.
HotkeyReport(d, keys) ==
  /\ KeyboardReports(d, keys)
  /\ hotkey_fired(keys)
  /\ chip_link_set_mode(~mode)
  /\ UNCHANGED <<running, tracked, local, issued, plugs, unplugs, presence, txpc, kaDue>>

\* Any other report is decoded, stored and forwarded.
KeyboardReport(d, keys) ==
  /\ KeyboardReports(d, keys)
  /\ ~hotkey_fired(keys)
  /\ local' = input_state_set_keyboard(local, keys)
  /\ chip_link_send_keyboard(keys)
  /\ UNCHANGED <<running, tracked, issued, plugs, unplugs, presence, mode, txpc, kaDue>>

\* ErrorRollOver in all six places, with the modifiers that are held: it breaks
\* the combination, and handle_keyboard ignores it unless a modifier is down.
RolloverReport(d) ==
  /\ Rollovers
  /\ d \in running \cap Keyboards
  /\ reports < MaxReports
  /\ reports' = reports + 1
  /\ wasDown' = FALSE
  /\ interrupted' = HoldsCombo
  /\ LET mods == ModsOf[held[d]]
     IN  IF mods = Released THEN UNCHANGED <<local, txq>>
         ELSE /\ local' = input_state_set_keyboard(local, mods)
              /\ chip_link_send_keyboard(mods)
  /\ UNCHANGED <<running, tracked, held, issued, plugs, unplugs, presses,
                 presence, mode, txpc, kaDue>>

\* handle_mouse: absolute buttons, and motion unless the mouse did not move.
MouseReport(d, buttons, moved) ==
  /\ d \in running \ Keyboards
  /\ reports < MaxReports
  /\ reports' = reports + 1
  /\ held' = [held EXCEPT ![d] = buttons]
  /\ LET delta == IF moved THEN reports + 1 ELSE 0
         motion == IF moved THEN {reports + 1} ELSE {}
     IN  /\ issued' = issued \cup motion
         /\ local' = input_state_accum_mouse(local, buttons, motion)
         /\ chip_link_send_mouse(buttons, delta)
  /\ UNCHANGED <<running, tracked, wasDown, interrupted, plugs, unplugs, presses,
                 presence, mode, txpc, kaDue>>

iface_event_cb ==
  \E d \in Devices :
    \/ InterfaceDisconnected(d)
    \/ RolloverReport(d)
    \/ \E k \in Keys : HotkeyReport(d, k) \/ KeyboardReport(d, k)
    \/ \E b \in Buttons, moved \in BOOLEAN : MouseReport(d, b, moved)

driver_event_cb == \E d \in Devices : InterfaceConnected(d)

hid_callbacks == driver_event_cb \/ iface_event_cb

===============================================================================
