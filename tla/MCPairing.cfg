CONSTANTS
  Machine = {a, b}
  Code = {c1, c2}
  MaxDials = 2
  MaxEntries = 2
  MaxMishaps = 2
  MaxEvents = 3
SPECIFICATION PairingSpec
CHECK_DEADLOCK FALSE
SYMMETRY Sym
INVARIANT PairingTypeOK
INVARIANT LoneTrustIsUnderWay
PROPERTY TrustIsEarned
PROPERTY EveryExchangeCanEnd
