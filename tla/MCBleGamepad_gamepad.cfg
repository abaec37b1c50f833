\* Two links, one input device opened, an input that changes once.
SPECIFICATION FairSpec
CONSTANTS
  NULL = NULL  held = held  rest = rest  blank = blank
  Reports <- MCReports
  neutral = rest
  Ladder <- MCLadder
  Intervals <- MCIntervals
  Tries = 2
  MaxLinks = 2
  MaxChanges = 1
  MaxOpenings = 1
  MaxRefusals = 1
  MaxResets = 1
INVARIANTS
  LastIsKnown
  FoundUnlessRefused
  NeutralWhileOpening
PROPERTIES
  AskedWhenReady
  HeldReachesPc
  AskedInTheEnd
  TasksHearOfSync
CHECK_DEADLOCK FALSE
