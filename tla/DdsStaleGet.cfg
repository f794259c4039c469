CONSTANTS
  Ops = {"freq"}
  WriteOps = {"freq"}
  Vals = {1}
  SeqVals = {1}
  Reqs = {g1}
  Lists = {{"freq"}}
  MaxSets = 1
  MaxResets = 0
  MaxSeqs = 0
  MaxLosses = 0
SPECIFICATION Spec
INVARIANT OverrideAgrees
