CONSTANTS
  Dialers = {"higher"}
  MaxDials = 3
  MaxFaults = 1
  MaxMisdials = 1
SPECIFICATION FairSpec
CHECK_DEADLOCK FALSE
PROPERTY LoneDialerConnects
