-------------------------------- MODULE UsbPad --------------------------------
(***************************************************************************)
(* The report path of usb_pad.c: what mapper_task hands over in a tick,    *)
(* the one transfer the IN endpoint takes at a time, and what the PC makes *)
(* of it, under bus resets and switches of the identity (UsbIdentity).     *)
(*                                                                         *)
(* Two tasks meet here.  The mapper task asks whether the endpoint is      *)
(* ready and submits a report a moment later; the TinyUSB task, between    *)
(* the two or at any other time, completes a transfer or loses the bus.    *)
(* pc is where the mapper task is in its tick:                             *)
(*   "idle"    until the next tick,                                        *)
(*   "send"    the state is taken and the mode serviced, unless target     *)
(*             says that a switch is still under way,                      *)
(*   "submit"  the readiness check has passed.                             *)
(*                                                                         *)
(* Data.  What is held is a pair: keys stands for modifiers and keycodes,  *)
(* buttons for the mouse buttons.  The pad's report is determined by the   *)
(* pair.  Motion is one axis, an integer.                                  *)
(***************************************************************************)
EXTENDS UsbIdentity, Integers

CONSTANTS
  Keys, Buttons,   \* what can be held
  Released,        \* nothing held
  Deltas,          \* motion of one report of the mouse
  ReportMax,       \* largest motion one HID report carries, 127 in the code
  MaxChanges,      \* bound on changes of what is held
  MaxMoves,        \* bound on movements of the mouse
  MaxRequests,     \* bound on requests for another mode
  MaxResets        \* bound on bus resets

ASSUME PadAssumption ==
  /\ Released \in Keys \cap Buttons
  /\ Deltas \subseteq Int
  /\ ReportMax \in Nat \ {0}
  /\ MaxChanges \in Nat /\ MaxMoves \in Nat
  /\ MaxRequests \in Nat /\ MaxResets \in Nat

Held == [keys: Keys, buttons: Buttons]

Neutral == [keys |-> Released, buttons |-> Released]

VARIABLES
  \* the accumulator of input_state.c, and the mapper task
  held,         \* what is held
  motion,       \* mouse_dx, not yet taken
  pc,           \* where the mapper task is
  out,          \* the state the tick is sending
  \* usb_pad.c
  report,       \* s_report, also the buffer of the transfer
  open,         \* s_mounted: the XInput interface is open
  carry,        \* s_pt_dx
  ptButtons,    \* s_pt_buttons
  ptKeys,       \* s_pt_mods and s_pt_keys
  kbdDirty,     \* s_pt_kbd_dirty
  lastButtons,  \* last_buttons
  \* the bus and the PC
  mounted,      \* tud_mounted(): the PC has configured the device
  inFlight,     \* the transfer on the IN endpoint
  host,         \* what the PC takes to be held on this device
  \* history
  changes, moves, requests, resets,
  moved,        \* motion the mouse has made
  seen,         \* motion the PC has received as a HID mouse
  heard,        \* the PC has had a mouse report of this device
  spent         \* motion that will not be received: used by the pad's stick,
                \* dropped by a switch, or in flight when the bus was lost

worldVars == <<held, motion>>
taskVars  == <<pc, out>>
ptVars    == <<carry, ptButtons, ptKeys, kbdDirty>>
busVars   == <<mounted, inFlight, host, seen, heard>>
bounds    == <<changes, moves, requests, resets>>

vars == <<identityVars, worldVars, taskVars, report, open, ptVars, lastButtons,
          busVars, bounds, moved, spent>>

NoTransfer == [kind |-> "none"]

Transfer ==
  {NoTransfer} \cup [kind: {"pad"}, held: Held]
    \cup [kind: {"keyboard"}, keys: Keys]
    \cup [kind: {"mouse"}, buttons: Buttons, delta: -ReportMax..ReportMax]

Init ==
  /\ IdentityInit
  /\ held = Neutral /\ motion = 0
  /\ pc = "idle" /\ out = [held |-> Neutral, delta |-> 0]
  /\ report = Neutral /\ open = FALSE
  /\ carry = 0 /\ ptButtons = Released /\ ptKeys = Released
  /\ kbdDirty = FALSE /\ lastButtons = Released
  /\ mounted = FALSE /\ inFlight = NoTransfer /\ host = Neutral
  /\ changes = 0 /\ moves = 0 /\ requests = 0 /\ resets = 0
  /\ moved = 0 /\ seen = 0 /\ heard = FALSE /\ spent = 0

Delta(t) == IF t.kind = "mouse" THEN t.delta ELSE 0

---------------------------------------------------------------------------
(* Receiver task: the accumulator and the mode request. *)

ChangeHeld ==
  /\ changes < MaxChanges
  /\ changes' = changes + 1
  /\ held' \in Held \ {held}
  /\ UNCHANGED <<identityVars, motion, taskVars, report, open, ptVars,
                 lastButtons, busVars, moves, requests, resets, moved, spent>>

Move ==
  /\ moves < MaxMoves
  /\ moves' = moves + 1
  /\ \E d \in Deltas : motion' = motion + d /\ moved' = moved + d
  /\ UNCHANGED <<identityVars, held, taskVars, report, open, ptVars,
                 lastButtons, busVars, changes, requests, resets, spent>>

RequestMode ==
  /\ requests < MaxRequests
  /\ requests' = requests + 1
  /\ \E pt \in BOOLEAN : usb_pad_request_mode(pt)
  /\ UNCHANGED <<passthrough, target, identity, usbFaults, worldVars, taskVars,
                 report, open, ptVars, lastButtons, busVars, changes, moves,
                 resets, moved, spent>>

---------------------------------------------------------------------------
(* The mapper task. *)

\* input_state_take(), then usb_pad_service_mode() up to the stack calls.  The
\* gamepad turns what was taken into a deflection of the stick.
TakeState ==
  /\ pc = "idle"
  /\ pc' = "send"
  /\ out' = [held |-> held, delta |-> motion]
  /\ motion' = 0
  /\ ModeInForce \/ BeginSwitch
  /\ UNCHANGED <<held, report, open, ptVars, lastButtons, busVars, bounds,
                 moved, spent>>

\* The request is read again.
ReadRequest ==
  /\ pc = "send"
  /\ ReadTarget
  /\ UNCHANGED <<worldVars, taskVars, report, open, ptVars, lastButtons, busVars,
                 bounds, moved, spent>>

\* The device leaves the bus, and the PC forgets what it held.
LeaveBus ==
  /\ mounted' = FALSE
  /\ inFlight' = NoTransfer
  /\ host' = Neutral
  /\ heard' = FALSE
  /\ UNCHANGED seen

\* Mutant: what the old identity carried over stays.
KeepPassthrough == UNCHANGED ptVars /\ spent' = spent + Delta(inFlight)

\* The end of usb_pad_service_mode(): a new identity starts from nothing.
ClearPassthrough ==
  /\ carry' = 0 /\ ptButtons' = Released /\ ptKeys' = Released
  /\ kbdDirty' = FALSE
  /\ spent' = spent + Delta(inFlight) + carry

\* Back from the stack calls.  Installing runs xinput_init() again.
FinishSwitch ==
  /\ pc = "send"
  /\ \/ /\ UninstallFails
        /\ UNCHANGED <<report, open, ptVars, busVars, spent>>
     \/ /\ InstallSucceeds
        /\ LeaveBus
        /\ ClearPassthrough
        /\ report' = Neutral /\ open' = FALSE
     \/ /\ FallBackToPad \/ BothInstallsFail
        /\ LeaveBus
        /\ spent' = spent + Delta(inFlight)
        /\ report' = Neutral /\ open' = FALSE
        /\ UNCHANGED ptVars
  /\ UNCHANGED <<worldVars, taskVars, lastButtons, bounds, moved>>

\* usb_pad_send() up to usb_pad_is_ready().
PadCheck ==
  /\ pc = "send" /\ target = "none" /\ ~passthrough
  /\ pc' = IF open /\ mounted THEN "submit" ELSE "idle"
  /\ spent' = spent + out.delta
  /\ UNCHANGED <<identityVars, worldVars, out, report, open, ptVars,
                 lastButtons, busVars, bounds, moved>>

\* usbd_edpt_xfer(): refused when the bus was lost since the check.
Submit(t) ==
  inFlight' = IF mounted /\ inFlight = NoTransfer THEN t ELSE inFlight

Accepted == inFlight = NoTransfer /\ mounted

\* Mutant: the copy is made before the endpoint is found busy.
CopyFirst == report' = out.held /\ UNCHANGED inFlight

\* A busy endpoint leaves the new report to the next tick.
LeaveToNextTick == UNCHANGED <<report, inFlight>>

\* The rest of usb_pad_send(): an unchanged report is not sent again.
PadSubmit ==
  /\ pc = "submit" /\ ~passthrough
  /\ pc' = "idle"
  /\ \/ /\ out.held = report
        /\ UNCHANGED <<report, inFlight>>
     \/ /\ out.held # report
        /\ inFlight # NoTransfer
        /\ LeaveToNextTick
     \/ /\ out.held # report
        /\ inFlight = NoTransfer
        /\ report' = out.held
        /\ Submit([kind |-> "pad", held |-> out.held])
  /\ UNCHANGED <<identityVars, worldVars, out, open, ptVars, lastButtons,
                 mounted, host, seen, heard, bounds, moved, spent>>

\* Mutant: a change that had to wait is forgotten by the next tick.
OnlyThisChange == out.held.keys # ptKeys

\* The keyboard has a change to send, from this tick or an earlier one.
KeyboardChanged == kbdDirty \/ out.held.keys # ptKeys

\* usb_pad_send_passthrough() up to tud_hid_ready(): accumulate, then look.
HidCheck ==
  /\ pc = "send" /\ target = "none" /\ passthrough
  /\ carry' = carry + out.delta
  /\ ptButtons' = out.held.buttons
  /\ ptKeys' = out.held.keys
  /\ kbdDirty' = KeyboardChanged
  /\ pc' = IF mounted /\ identity = "hid" /\ inFlight = NoTransfer
             THEN "submit" ELSE "idle"
  /\ UNCHANGED <<identityVars, worldVars, out, report, open, lastButtons,
                 busVars, bounds, moved, spent>>

\* The keyboard goes first.  The flag is cleared before the result is known.
KeyboardSubmit ==
  /\ pc = "submit" /\ passthrough
  /\ kbdDirty
  /\ pc' = "idle"
  /\ kbdDirty' = FALSE
  /\ Submit([kind |-> "keyboard", keys |-> ptKeys])
  /\ UNCHANGED <<identityVars, worldVars, out, report, open, carry, ptButtons,
                 ptKeys, lastButtons, mounted, host, seen, heard, bounds, moved, spent>>

clamp8(v) ==
  IF v > ReportMax THEN ReportMax ELSE IF v < -ReportMax THEN -ReportMax ELSE v

\* Mutant: the whole sum is taken off, not just what was sent.
CarryDropped(delta) == IF Accepted THEN 0 ELSE carry

\* The carry after a report of delta; a refused one leaves all of it there.
CarryAfter(delta) == IF Accepted THEN carry - delta ELSE carry

\* The mouse report.  Its buttons count as sent whether it is accepted or not.
MouseSubmit ==
  /\ pc = "submit" /\ passthrough
  /\ ~kbdDirty
  /\ pc' = "idle"
  /\ IF carry # 0 \/ ptButtons # lastButtons
       THEN /\ lastButtons' = ptButtons
            /\ Submit([kind |-> "mouse", buttons |-> ptButtons,
                       delta |-> clamp8(carry)])
            /\ carry' = CarryAfter(clamp8(carry))
       ELSE UNCHANGED <<lastButtons, inFlight, carry>>
  /\ UNCHANGED <<identityVars, worldVars, out, report, open, ptButtons, ptKeys,
                 kbdDirty, mounted, host, seen, heard, bounds, moved, spent>>

mapper_task ==
  \/ TakeState \/ ReadRequest \/ FinishSwitch
  \/ PadCheck \/ PadSubmit
  \/ HidCheck \/ KeyboardSubmit \/ MouseSubmit

---------------------------------------------------------------------------
(* The TinyUSB task and the PC. *)

\* SET_CONFIGURATION: xinput_open() claims the interface of the pad.
Configure ==
  /\ ~mounted /\ identity # "none"
  /\ mounted' = TRUE
  /\ open' = (identity = "pad")
  /\ UNCHANGED <<identityVars, worldVars, taskVars, report, ptVars,
                 lastButtons, inFlight, host, seen, heard, bounds, moved, spent>>

\* The PC resets the bus, sleeps or is unplugged: xinput_reset().
BusReset ==
  /\ mounted
  /\ resets < MaxResets
  /\ resets' = resets + 1
  /\ LeaveBus
  /\ open' = FALSE
  /\ spent' = spent + Delta(inFlight)
  /\ UNCHANGED <<identityVars, worldVars, taskVars, report, ptVars,
                 lastButtons, changes, moves, requests, moved>>

\* The PC polls the endpoint.  What it gets was copied at the submission or
\* is read from s_report now, as the controller is driven.
HostPolls ==
  /\ inFlight # NoTransfer
  /\ inFlight' = NoTransfer
  /\ \/ inFlight.kind = "pad" /\ host' \in {inFlight.held, report}
     \/ inFlight.kind = "keyboard" /\ host' = [host EXCEPT !.keys = inFlight.keys]
     \/ inFlight.kind = "mouse" /\ host' = [host EXCEPT !.buttons = inFlight.buttons]
  /\ seen' = seen + Delta(inFlight)
  /\ heard' = (heard \/ inFlight.kind = "mouse")
  /\ UNCHANGED <<identityVars, worldVars, taskVars, report, open, ptVars,
                 lastButtons, mounted, bounds, moved, spent>>

bus == Configure \/ BusReset \/ HostPolls

Next == ChangeHeld \/ Move \/ RequestMode \/ mapper_task \/ bus

Spec == Init /\ [][Next]_vars

\* The tick recurs, and the PC configures and polls a device that is there.
Fairness == WF_vars(mapper_task) /\ WF_vars(Configure) /\ WF_vars(HostPolls)

FairSpec == Spec /\ Fairness

---------------------------------------------------------------------------
(* Properties. *)

\* Every variable of the report path has its type.
PadTypeOK ==
  /\ IdentityTypeOK
  /\ held \in Held /\ motion \in Int
  /\ pc \in {"idle", "send", "submit"} /\ out \in [held: Held, delta: Int]
  /\ report \in Held /\ open \in BOOLEAN
  /\ carry \in Int /\ ptButtons \in Buttons /\ ptKeys \in Keys
  /\ kbdDirty \in BOOLEAN /\ lastButtons \in Buttons
  /\ mounted \in BOOLEAN /\ inFlight \in Transfer /\ host \in Held
  /\ heard \in BOOLEAN
  /\ changes \in Nat /\ moves \in Nat /\ requests \in Nat /\ resets \in Nat
  /\ moved \in Int /\ seen \in Int /\ spent \in Int

\* What a tick has taken and not yet used.
Taken == IF pc = "send" THEN out.delta ELSE 0

\* usb_pad.h: "unsent mouse motion is carried over rather than dropped".  Every
\* count of motion is in exactly one place, and the only ones that never reach
\* the PC as motion are those that moved the stick of the gamepad, those a
\* switch of the identity cleared and those in a transfer when the bus was lost.
MotionIsConserved ==
  moved = seen + Delta(inFlight) + carry + Taken + motion + spent

\* usb_pad.h: the report "was identical to the last one, which is deliberately
\* not resent".  A report is skipped only when the PC has it, or is about to
\* read it.
SkippedIsKnown ==
  pc = "submit" /\ ~passthrough /\ open /\ out.held = report =>
    host = report \/ inFlight = [kind |-> "pad", held |-> report]

\* The same, as long as nobody resets the bus.
SkippedIsKnownUnlessReset == resets = 0 => SkippedIsKnown

\* Without a bus reset, what is held gets through to the PC in the end, in
\* either identity and across any switch between them: keys always, the mouse
\* buttons of the HID identity from the first mouse report on.
HeldReachesHost ==
  <>[](mounted /\ resets = 0 =>
         /\ host.keys = held.keys
         /\ identity = "pad" \/ heard => host.buttons = held.buttons)

\* Nothing stays pressed: once keys and buttons are let go for good, the PC
\* sees them released, also when a transfer was refused or lost on the way.
ReleaseReachesHost ==
  <>[](held = Neutral) => <>[](host = Neutral)

===============================================================================
