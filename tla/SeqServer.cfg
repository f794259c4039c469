CONSTANTS
  MaxSeq = 2
  Reqs = {r1}
SPECIFICATION FairSpec
INVARIANTS StatusTracksSeq OneReply
PROPERTIES RepliesTruthful EveryWaitAnswered ServerStarts StopWhileRunning
