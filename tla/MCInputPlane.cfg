CONSTANTS
  QueueDepth = 2
  EventDepth = 2
  StreamWindow = 1
  MaxSent = 4
SPECIFICATION Spec
CHECK_DEADLOCK FALSE
INVARIANTS
  TypeOK
  MotionNeverRewinds
  LatchesSurviveOverflow
PROPERTY EveryLatchSettles
