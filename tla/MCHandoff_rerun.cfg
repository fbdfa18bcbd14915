SPECIFICATION FairSpec
CONSTANTS
    Batches = {b1, b2}
    Workers = {w1}
    MaxVersion = 2
    Overlap = 2
    CommitBound = 1
    Limit = 2
    MaxTime = 3
    MaxCrashes = 0
PROPERTY RuleChangeForcesRerun
