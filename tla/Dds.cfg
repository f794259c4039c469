CONSTANTS
  Ops = {"freq", "phase"}
  WriteOps = {"phase"}
  Vals = {1}
  SeqVals = {0}
  Reqs = {g1, g2}
  Lists = {{"phase"}, {"freq", "phase"}}
  MaxSets = 1
  MaxResets = 1
  MaxSeqs = 1
  MaxLosses = 1
SPECIFICATION FairSpec
INVARIANTS PendingHasQuery OneReplyPerGet ResultIsForWaiting OverrideHolds
PROPERTIES EveryGetAnswered
