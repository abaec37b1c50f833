\* A keyboard and a mouse, each of which may come back once, beside a mouse on the other chip.
SPECIFICATION Spec
CONSTANTS
  kbd = kbd  mouse1 = mouse1  a = a  nothing = nothing
  Peers <- MCPeers
  Usage <- MCUsage
  Holdable <- MCHoldable
  QueueSize = 2
  MaxOpens = 3
INVARIANTS
  FlagsAreCurrent
  GoneClassIsCleared
PROPERTIES
  KeysAreKept
