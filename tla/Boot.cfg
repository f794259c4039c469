CONSTANTS
  NDDS = 2
  MaxBoots = 2
  MaxOuts = 1
  MaxPlugs = 1
SPECIFICATION FairSpec
INVARIANT OwnResults
PROPERTIES ResetOnlyIfNeeded BootCompletes BoardsComeBack
CHECK_DEADLOCK FALSE
