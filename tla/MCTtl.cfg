CONSTANTS
  Banks = {0}
  Chns = {0, 1}
  TtlMasks <- MasksBank0
  Ttl1Chns <- Chns0
  OvrMasks = {{}, {0}}
  MaxSets = 2
  MaxOvrs = 1
  MaxSeqs = 2
  MaxPipe = 2
SPECIFICATION Spec
INVARIANTS SyncUnneeded SetsAreKept
PROPERTY ChangesOnlyItsOwn
CHECK_DEADLOCK FALSE
