SPECIFICATION FairSpec
CONSTANTS
    Tenants = {t1, t2}
    Settled = {t1}
    Operators = {o1, o2}
    Shared = Shared
    Releases = 2
    Editable = {3}
    HasStore = TRUE
    MaxRuns = 2
    None = None
INVARIANTS TypeOK ReachableIsWhole ActiveIsReachable ChainInOrder SuccessMeansAtHead
PROPERTIES CommittedOnce EveryCommandEnds
CHECK_DEADLOCK FALSE
