CONSTANTS
  PlainKeys = {"a"}
  RightHand = {}
  Characters <- MCCharacters
  Snapshots <- MCSnapshots
  MaxCalls = 22
SPECIFICATION Spec
INVARIANT TypeOK
INVARIANT KeysAreAccountedFor
INVARIANT EveryPressIsClaimed
INVARIANT ChordIsExact
PROPERTY SenderKeepsHisModifiers
