SPECIFICATION Spec
CONSTANTS
  NULL = NULL
  MaxReports = 6
  Devices <- MCDevices
  MaxOpens = 3
INVARIANTS
  MapsAreReadAsDeclared
  EarlierMapsLeaveNoTrace
  MaskIsDeclared
CHECK_DEADLOCK FALSE
