CONSTANTS
  Node = {a, b, c}
  Key = {k1}
  None = None
  Hardware = Hardware
  Typing = {a}
  MaxQueue = 0
  MaxCaptured = 2
  MaxFaults = 0
SYMMETRY Symmetry
SPECIFICATION Spec
CHECK_DEADLOCK FALSE
INVARIANTS
  NoKeyLeftBehind
  DriverOwnsCursor
