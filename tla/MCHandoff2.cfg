CONSTANTS
  Node = {a, b}
  Key = {k1}
  None = None
  Hardware = Hardware
  Typing = {a}
  MaxQueue = 1
  MaxCaptured = 2
  MaxFaults = 2
SYMMETRY Symmetry
SPECIFICATION Spec
CHECK_DEADLOCK FALSE
INVARIANTS
  TypeOK
  SuppressionFollowsOwner
  DriverIsWatched
PROPERTIES
  
  DriverLossReleases
