\* Both identities under switches, failed stack calls and a bus reset.
SPECIFICATION FairSpec
CONSTANTS
  none = none  w = w
  Released = none
  Keys <- MCHeld
  Buttons <- MCHeld
  Deltas <- MCDeltas
  ReportMax = 1
  MaxChanges = 2
  MaxMoves = 1
  MaxRequests = 3
  MaxResets = 1
  MaxUsbFaults = 2
INVARIANTS
  MotionIsConserved
  SkippedIsKnownUnlessReset
PROPERTIES
  HeldReachesHost
  ReleaseReachesHost
