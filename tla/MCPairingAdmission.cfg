CONSTANTS
  Machine = {a, b}
  Code = {c1, c2}
  MaxDials = 2
  MaxEntries = 1
  MaxMishaps = 1
  MaxEvents = 2
SPECIFICATION PairingSpec
CHECK_DEADLOCK FALSE
PROPERTY PairedPeersAreAdmitted
