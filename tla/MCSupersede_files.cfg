SPECIFICATION FairSpec
CONSTANTS
    Loads = {t1, t2}
    Keys = {k1, k2}
    Contents = {c1, c2}
    MaxRows = 2
    NoContent = NoContent
    Seed = Seed
    None = None
INVARIANTS TypeOK ExactlyOneCurrent HistoryIsAChain
PROPERTIES ImplementsRowVersions EveryLoadEnds
CHECK_DEADLOCK FALSE
