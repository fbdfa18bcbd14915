SPECIFICATION FairSpec
CONSTANTS
    Batches = {b1, b2}
    Workers = {w1, w2}
    MaxVersion = 2
    Overlap = 2
    CommitBound = 1
    Limit = 1
    MaxTime = 3
    MaxCrashes = 1
INVARIANTS TypeOK FactsExactlyOnce Discoverable WatermarkIsNewestExecuted
PROPERTIES ImplementsBatchQueue EveryBatchExecuted
