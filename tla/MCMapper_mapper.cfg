\* The pad at 100 Hz, a mouse that reports on every fourth tick.
SPECIFICATION Spec
CONSTANTS
  Rate = 100
  Div = 24
  Period = 4
  Speeds <- MCSpeeds
  Warm = 40
  Flat = 6
  MaxHeld = 4
  MaxTurns = 4
INVARIANTS
  TransportsAgree
  HoldsSteady
PROPERTIES
  NeverStalls
