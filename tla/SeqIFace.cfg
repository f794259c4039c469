CONSTANT MaxSeq = 3
SPECIFICATION FairIFaceSpec
INVARIANTS CallbackOrder CurSeqAlive NoMissedEvent ReportsTruthful
PROPERTIES ImplementsOrder CancelHonoured EverySeqResolved QuitReturns
