CONSTANTS
  Node = {1, 2}
  Slot = {0, 1}
  Column = {1}
  Speed = {1}
  Drafts <- MCDrafts
  MaxEdits = 2
  MaxPlugs = 1
  MaxBreaks = 1
  MaxEvents = 3
SPECIFICATION LayoutFairSpec
CHECK_DEADLOCK FALSE
INVARIANT LayoutTypeOK
INVARIANT AgreementWhileScreensStay
PROPERTY HomeIsOnTheMap
PROPERTY KeepsPromise
PROPERTY Converges
