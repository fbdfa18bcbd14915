SPECIFICATION FairSpec
CONSTANTS
    Uploads = {u1, u2}
    Operators = {o1}
    Releases = {r1, r2}
    None = None
    Batch <- OneBatch
    MaxEditions = 1
    Files = {f1, virus}
    Flagged = {virus}
INVARIANTS TypeOK LedgerIsBacked RefusedLeavesNoTrace PinIsBacked
PROPERTIES BronzeIsInsertOnly ImplementsArtefactStore EveryUploadEnds
CHECK_DEADLOCK FALSE
