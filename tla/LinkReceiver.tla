----------------------------- MODULE LinkReceiver -----------------------------
(***************************************************************************)
(* The receiving half of chip_link.c, on the pad chip of the USB split:    *)
(* frames go into the shared accumulator, the mode goes to usb_pad.c, and  *)
(* a watchdog clears the accumulator when the peer has been silent for the *)
(* peer timeout.  Time is counted in keepalive periods (250 ms); the       *)
(* timeout of the pad chip, 500 ms, is two of them.                        *)
(***************************************************************************)
EXTENDS LinkWire, UsbIdentity

CONSTANT PeerTimeout   \* keepalive periods of silence that mean a dead peer

ASSUME PeerTimeoutAssumption == PeerTimeout \in Nat \ {0}

VARIABLES
  pad,          \* s_state of the pad chip
  peerPresent,  \* s_peer_present
  alive,        \* peer_was_alive
  silent        \* periods since s_last_frame_us, counted up to PeerTimeout

receiverVars == <<pad, peerPresent, alive, silent>>

ReceiverInit ==
  /\ pad = s_state_initial
  /\ peerPresent = {}
  /\ alive = FALSE
  /\ silent = PeerTimeout   \* s_last_frame_us = 0: never heard of

ReceiverTypeOK ==
  /\ pad \in InputRecord
  /\ peerPresent \subseteq Classes /\ alive \in BOOLEAN
  /\ silent \in 0..PeerTimeout

\* Mutant: the keyboard keeps what it held.
WithoutMouse(s, gone) ==
  IF "mouse" \in gone THEN input_state_set_mouse_present(s, FALSE) ELSE s

\* The state s after the classes in gone have stopped being served.
WithoutClasses(s, gone) ==
  LET k == IF "keyboard" \in gone
           THEN input_state_set_keyboard_present(s, FALSE) ELSE s
  IN  IF "mouse" \in gone THEN input_state_set_mouse_present(k, FALSE) ELSE k

\* A frame whose CRC matched, by its type.
HandleMouse(f) ==
  /\ f.type = "mouse"
  /\ pad' = input_state_accum_mouse(pad, f.buttons, MotionOf(f))
  /\ UNCHANGED <<peerPresent, want>>

HandleKeyboard(f) ==
  /\ f.type = "keyboard"
  /\ pad' = input_state_set_keyboard(pad, f.keys)
  /\ UNCHANGED <<peerPresent, want>>

HandleMode(f) ==
  /\ f.type = "mode"
  /\ usb_pad_request_mode(f.passthrough)
  /\ UNCHANGED <<pad, peerPresent>>

\* Only a class whose bit was set and no longer is loses what it held.
HandleKeepalive(f) ==
  /\ f.type = "keepalive"
  /\ pad' = WithoutClasses(pad, peerPresent \ f.present)
  /\ peerPresent' = f.present
  /\ UNCHANGED want

handle_frame(f) ==
  \/ HandleMouse(f)
  \/ HandleKeyboard(f)
  \/ HandleMode(f)
  \/ HandleKeepalive(f)

\* Mutant: s_last_frame_us is not updated.
ReceiveUnnoticed ==
  /\ wire # <<>>
  /\ wire' = Tail(wire)
  /\ handle_frame(Head(wire))
  /\ alive' = TRUE
  /\ UNCHANGED <<silent, losses, passthrough, target, identity, usbFaults>>

\* The last byte of a good frame; the same turn of the loop sees the peer alive.
ReceiveFrame ==
  /\ wire # <<>>
  /\ wire' = Tail(wire)
  /\ handle_frame(Head(wire))
  /\ silent' = 0
  /\ alive' = TRUE
  /\ UNCHANGED <<losses, passthrough, target, identity, usbFaults>>

\* Mutant: only the announced classes are cleared.
ClearAnnounced ==
  /\ alive
  /\ silent = PeerTimeout
  /\ pad' = WithoutClasses(pad, peerPresent)
  /\ peerPresent' = {}
  /\ alive' = FALSE
  /\ UNCHANGED <<silent, wireVars, identityVars>>

\* The turn of the loop that finds a peer that was alive silent for too long.
PeerSilent ==
  /\ alive
  /\ silent = PeerTimeout
  /\ pad' = WithoutClasses(pad, Classes)
  /\ peerPresent' = {}
  /\ alive' = FALSE
  /\ UNCHANGED <<silent, wireVars, identityVars>>

receiver_task == ReceiveFrame \/ PeerSilent

===============================================================================
