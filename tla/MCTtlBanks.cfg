CONSTANTS
  Banks = {0, 1}
  Chns = {0}
  TtlMasks <- MasksBank1
  Ttl1Chns <- Chns1
  OvrMasks = {{}, {0}}
  MaxSets = 0
  MaxOvrs = 0
  MaxSeqs = 1
  MaxPipe = 2
SPECIFICATION Spec
PROPERTY ChangesOnlyItsOwn
CHECK_DEADLOCK FALSE
