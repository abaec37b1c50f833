\* The pad chip as sdkconfig.defaults.s3pad builds it, a mouse that reports 125 times a second.
SPECIFICATION Spec
CONSTANTS
  Rate = 1000
  Div = 64
  Period = 8
  Speeds <- Brisk
  Warm = 400
  Flat = 6
  MaxHeld = 0
  MaxTurns = 2
INVARIANTS
  HoldsSteady
