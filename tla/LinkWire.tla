------------------------------- MODULE LinkWire -------------------------------
(***************************************************************************)
(* The UART between the two chips, as chip_link.c uses it: whole frames in *)
(* the order they were written.  A frame damaged by noise, or in progress  *)
(* when either end resets, fails its CRC and is simply gone; nothing is    *)
(* reordered, repeated or made up (the byte parser that makes this so is   *)
(* module LinkFramer).                                                     *)
(***************************************************************************)
EXTENDS InputState, Sequences

CONSTANTS
  WireMax,    \* frames the UART buffers hold; the writer waits for room
  MaxLosses   \* bound on the frames noise may destroy

ASSUME WireAssumption == WireMax \in Nat \ {0} /\ MaxLosses \in Nat

VARIABLES
  wire,       \* frames written and not yet parsed by the other chip
  losses      \* frames destroyed so far

wireVars == <<wire, losses>>

\* The two bits of the keepalive's presence mask.
Classes == {"mouse", "keyboard"}

MouseFrame     == [type: {"mouse"}, buttons: Buttons, delta: Nat]
KeyboardFrame  == [type: {"keyboard"}, keys: Keys]
ModeFrame      == [type: {"mode"}, passthrough: BOOLEAN]
KeepaliveFrame == [type: {"keepalive"}, present: SUBSET Classes]
Event          == MouseFrame \cup KeyboardFrame \cup ModeFrame
Frame          == Event \cup KeepaliveFrame

\* A mouse report with delta 0 changes buttons only.
Carries(f) == f.type = "mouse" /\ f.delta # 0

\* The motion in a frame, and in every frame of a queue.
MotionOf(f) == IF Carries(f) THEN {f.delta} ELSE {}
MotionIn(q) == {q[i].delta : i \in {j \in DOMAIN q : Carries(q[j])}}

WireInit == wire = <<>> /\ losses = 0

WireTypeOK == wire \in Seq(Frame) /\ Len(wire) <= WireMax /\ losses \in Nat

\* Mutant: written whether or not there is room.
WriteWithoutRoom(f) == wire' = Append(wire, f)

\* uart_write_bytes() of one frame: it waits while the buffer is full.
frame_send(f) ==
  /\ Len(wire) < WireMax
  /\ wire' = Append(wire, f)

\* Noise destroys the oldest frame under way: its CRC will not match.
LoseFrame ==
  /\ wire # <<>>
  /\ losses < MaxLosses
  /\ wire' = Tail(wire)
  /\ losses' = losses + 1

===============================================================================
