CONSTANTS
  FifoSize = 2
  WaitLen = 2
  SeqOps = {"ttl", "get"}
  MaxCmds = 3
  MaxSeqs = 1
  MaxCalls = 1
  MaxTime = 2
SPECIFICATION FairSpec
INVARIANTS NoException EarlyIsOnTime ResultsMatch
PROPERTIES ImplementsQueue CallsReturn
