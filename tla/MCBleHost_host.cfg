\* A mouse and a keyboard for a chip that serves mice.
SPECIFICATION Spec
CONSTANTS
  none = none
  mouse1 = mouse1  kbd = kbd  beacon = beacon
  Peers <- MCPeers
  Beacons <- MCBeacons
  Classes <- MCClasses
  Usage <- MCUsage
  Wanted <- MCMouseChip
  MaxDevices = 1
  MaxCandidates = 2
  MaxDrops = 1
  MaxFaults = 1
INVARIANTS
  OneOwner
  TableIsConnected
  RestartsOnlyIfDisturbed
