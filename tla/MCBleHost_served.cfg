\* A mouse and a keyboard for a board that serves both.
SPECIFICATION FairSpec
CONSTANTS
  none = none
  mouse1 = mouse1  kbd = kbd  beacon = beacon
  Peers <- MCPeers
  Beacons <- MCBeacons
  Classes <- MCClasses
  Usage <- MCUsage
  Wanted <- MCBoth
  MaxDevices = 2
  MaxCandidates = 2
  MaxDrops = 2
  MaxFaults = 1
PROPERTIES
  ServedInTheEnd
