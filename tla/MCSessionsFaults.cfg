CONSTANTS
  Dialers = {"lower", "higher"}
  MaxDials = 2
  MaxFaults = 2
  MaxMisdials = 0
SPECIFICATION Spec
CHECK_DEADLOCK FALSE
INVARIANT TypeOK
INVARIANT StatusTellsTheTruth
INVARIANT EveryDialIsUnderWay
INVARIANT DeadSessionIsNoticed
INVARIANT NoOrphanSession
PROPERTY StaleNewsIsHarmless
