\* Two keyboards typing, rolling over and toggling the mode, with a lost frame, failing
\* USB calls and a restart.
SPECIFICATION FairSpec
CONSTANTS
  none = none  w = w  ctrlAlt = ctrlAlt  combo = combo  k1 = k1  k2 = k2  m1 = m1
  Released = none  Combo = combo  ModsOf <- MCModsOf
  Keys <- MCTwoKeys
  Buttons <- MCNoButtons
  Devices <- MCKeyboards2
  Keyboards <- MCKeyboards2
  MaxIfaces = 2
  MaxReports = 3
  MaxPlugs = 2
  MaxUnplugs = 0
  MaxPresses = 2
  QueueMax = 2
  WireMax = 1
  MaxLosses = 1
  PeerTimeout = 2
  MaxUsbFaults = 2
  MaxCrashes = 1
  MaxBeats = 0
  Rollovers = TRUE
  Prompt = TRUE
INVARIANTS
  DrainedInSync
  NoSpuriousSwitch
  ReportsFitIdentity
PROPERTIES
  ToggleNeedsPress
  ModeAgreement
