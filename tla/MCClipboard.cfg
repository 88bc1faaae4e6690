CONSTANTS
  a = a
  b = b
  Machine = {a, b}
  Format = {1, 2}
  Takes <- MCTakes
  Shapes <- MCShapes
  Portal = {a}
  QueueDepth = 1
  JobDepth = 2
  MaxCopies = 2
  MaxMishaps = 1
SPECIFICATION ClipboardFairSpec
CHECK_DEADLOCK FALSE
INVARIANTS
  ClipboardTypeOK
  NoEcho
  TrafficIsTrue
PROPERTY LoneCopyArrives
