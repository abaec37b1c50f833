\* Two keyboards, a mouse, a table with room for two, a crash.
SPECIFICATION FairSpec
CONSTANTS
  none = none  w = w  ctrlAlt = ctrlAlt  combo = combo  k1 = k1  k2 = k2  m1 = m1
  Released = none  Combo = combo  ModsOf <- MCModsOf
  Keys <- MCKeys
  Buttons <- MCButtons
  Devices <- MCDevices3
  Keyboards <- MCKeyboards2
  MaxIfaces = 2
  MaxReports = 1
  MaxPlugs = 3
  MaxUnplugs = 2
  MaxPresses = 0
  QueueMax = 2
  WireMax = 2
  MaxLosses = 0
  PeerTimeout = 2
  MaxUsbFaults = 0
  MaxCrashes = 1
  MaxBeats = 0
  Rollovers = TRUE
  Prompt = TRUE
INVARIANTS
  GoneClassIsReleased
  LivePeerIsNeverSilent
PROPERTIES
  IdleUnplugIsNoticed
  DeadPeerIsReleased
