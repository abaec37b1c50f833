\* One mouse, every fault: where its motion goes.
SPECIFICATION Spec
CONSTANTS
  none = none  w = w  ctrlAlt = ctrlAlt  combo = combo  k1 = k1  k2 = k2  m1 = m1
  Released = none  Combo = combo  ModsOf <- MCModsOf
  Keys <- MCTwoKeys
  Buttons <- MCNoButtons
  Devices <- MCMouse
  Keyboards <- MCNoKeyboard
  MaxIfaces = 2
  MaxReports = 2
  MaxPlugs = 2
  MaxUnplugs = 1
  MaxPresses = 1
  QueueMax = 2
  WireMax = 2
  MaxLosses = 1
  PeerTimeout = 2
  MaxUsbFaults = 0
  MaxCrashes = 1
  MaxBeats = 1
  Rollovers = FALSE
  Prompt = FALSE
INVARIANTS
  TypeOK
  MotionInOrder
  NeverTwice
PROPERTIES
  NothingVanishes
  ImplementsChannel
