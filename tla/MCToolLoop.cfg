CONSTANTS
    Batches <- MCBatches
    MaxCalls = 3
    MaxTurns = 3
    MaxToolRounds = 2
    MaxParallelReads = 2
SPECIFICATION Spec
INVARIANTS ReadsInOrder MirrorFresh
PROPERTIES LoopEnds
