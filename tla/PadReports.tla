------------------------------- MODULE PadReports -------------------------------
(***************************************************************************)
(* What the two transports make of a gamepad_state_t: the sixteen bytes of *)
(* the BLE pad and the twenty of the USB pad, as the fields the PC reads   *)
(* in them.                                                                *)
(***************************************************************************)
EXTENDS Integers, Sequences

\* C's division, which truncates towards zero.
Quot(a, b) == IF a >= 0 THEN a \div b ELSE -((-a) \div b)
Abs(a)     == IF a < 0 THEN -a ELSE a

AXIS_MAX == 127
Axis     == (-AXIS_MAX) .. AXIS_MAX
Buttons  == 1 .. 12

\* The d-pad of a gamepad_state_t is a set of these.
Directions == {"up", "right", "down", "left"}

\* gamepad_state_t, with the one axis of the right stick that is modelled.
PadStates == [lx : Axis, ly : Axis, rx : Axis, buttons : SUBSET Buttons, dpad : SUBSET Directions]

\* xbox_ctrl_kind, XBOX_BTN_*.  The button a control has in both reports.
XboxButtons == {"RS", "A", "LS", "B", "X", "Y", "LB", "RB", "View", "Menu"}

---------------------------------------------------------------------------------
\* The BLE report.

XBOX_TRIGGER_MAX == 1023

s_xbox_ctrl == <<"RT", "LT", "RS", "A", "LS", "B", "X", "Y", "LB", "RB", "View", "Menu">>

axis_to_u16(v) == ((v + 127) * 65535 + 127) \div 254

hat == <<0, 1, 3, 2, 5, 0, 4, 3, 7, 8, 0, 1, 6, 7, 5, 0>>

Bit(dpad, d, bit) == IF d \in dpad THEN bit ELSE 0

hat_from_dpad(dpad) ==
  hat[1 + Bit(dpad, "up", 1) + Bit(dpad, "right", 2) + Bit(dpad, "down", 4) + Bit(dpad, "left", 8)]

build_report(s) ==
  [x |-> axis_to_u16(s.lx), y |-> axis_to_u16(s.ly), z |-> axis_to_u16(s.rx),
   brake |-> IF \E b \in s.buttons : s_xbox_ctrl[b] = "LT" THEN XBOX_TRIGGER_MAX ELSE 0,
   gas   |-> IF \E b \in s.buttons : s_xbox_ctrl[b] = "RT" THEN XBOX_TRIGGER_MAX ELSE 0,
   hat   |-> hat_from_dpad(s.dpad),
   buttons |-> {s_xbox_ctrl[b] : b \in s.buttons} \cap XboxButtons]

---------------------------------------------------------------------------------
\* The USB report.

axis_to_xbox(v, invert) ==
  LET scaled == Quot(v * 32767, 127)
      turned == IF invert THEN -scaled ELSE scaled
  IN  IF turned > 32767 THEN 32767 ELSE IF turned < -32768 THEN -32768 ELSE turned

Opposite == [up |-> "down", down |-> "up", left |-> "right", right |-> "left"]

\* Mutant: the later of two opposite directions wins.
UncancelledLater(dpad) ==
  (dpad \ (IF "down" \in dpad THEN {"up"} ELSE {})) \ (IF "right" \in dpad THEN {"left"} ELSE {})

\* Opposite directions cancel.
Uncancelled(dpad) == {d \in dpad : Opposite[d] \notin dpad}

\* Bytes 2 and 3 of the report, by the number of the button.
UsbButton ==
  [b \in 3 .. 12 |-> <<"RS", "A", "LS", "B", "X", "Y", "LB", "RB", "View", "Menu">>[b - 2]]

usb_pad_report(s) ==
  [dpad    |-> Uncancelled(s.dpad),
   buttons |-> {UsbButton[b] : b \in s.buttons \cap 3..12},
   lt |-> IF 2 \in s.buttons THEN 255 ELSE 0,
   rt |-> IF 1 \in s.buttons THEN 255 ELSE 0,
   lx |-> axis_to_xbox(s.lx, FALSE), ly |-> axis_to_xbox(s.ly, TRUE),
   rx |-> axis_to_xbox(s.rx, FALSE)]

---------------------------------------------------------------------------------
\* What a PC reads in them.

\* The eight directions of a hat switch, clockwise from the top; 0 is its null state.
HatDirections ==
  <<{"up"}, {"up", "right"}, {"right"}, {"down", "right"},
    {"down"}, {"down", "left"}, {"left"}, {"up", "left"}>>

HatMeans(h) == IF h = 0 THEN {} ELSE HatDirections[h]

\* Unsigned about 32768 and downwards on the one, signed and upwards on the other; each rounds in
\* its own way, and a step of an axis is 258 of either.
SameAxis(ble, usb) == Abs((ble - 32768) - usb) <= 2

\* The two reports of a state tell a PC the same.
Agree(ble, usb) ==
  /\ HatMeans(ble.hat) = usb.dpad
  /\ ble.buttons = usb.buttons
  /\ (ble.brake = XBOX_TRIGGER_MAX) = (usb.lt = 255) /\ (ble.brake = 0) = (usb.lt = 0)
  /\ (ble.gas = XBOX_TRIGGER_MAX) = (usb.rt = 255) /\ (ble.gas = 0) = (usb.rt = 0)
  /\ SameAxis(ble.x, usb.lx) /\ SameAxis(ble.y, -usb.ly) /\ SameAxis(ble.z, usb.rx)
================================================================================
