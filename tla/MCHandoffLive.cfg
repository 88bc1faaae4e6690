CONSTANTS
  Node = {a, b}
  Key = {k1}
  None = None
  Hardware = Hardware
  Typing = {a}
  MaxQueue = 2
  MaxCaptured = 2
  MaxFaults = 0
SPECIFICATION FairSpec
CHECK_DEADLOCK FALSE
PROPERTY WalkingAwayReleases
