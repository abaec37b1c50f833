----------------------------- MODULE MCLinkFramer -----------------------------
(* Constants for the model checker: the extremes of every field, and payloads *)
(* that hold the sync bytes themselves.                                       *)
EXTENDS LinkFramer, LinkCrc

MouseEvent(b, x, y, z) == [type |-> "mouse", buttons |-> b, dx |-> x, dy |-> y, wheel |-> z]
KeyEvent(m, k)         == [type |-> "keyboard", modifiers |-> m, keys |-> k]
Keepalive(p)           == [type |-> "keepalive", present |-> p]
ModeEvent(m)           == [type |-> "mode", passthrough |-> m]

MCEvents == {
  MouseEvent(1, 300, -2, -1), MouseEvent(0, 40000, -40000, 200),
  MouseEvent(165, 2138, -23206, 90),
  KeyEvent(0, <<26, 0, 0, 0, 0, 0>>), KeyEvent(165, <<165, 90, 1, 8, 0, 165>>),
  Keepalive(3), Keepalive(0), ModeEvent(1), ModeEvent(0)}

MCNoise == {0, 1, 2, 8, 90, 165, 255}

===============================================================================
