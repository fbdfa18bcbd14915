SPECIFICATION Spec
CONSTANTS
    Uploads = {u1, u2}
    Operators = {}
    Releases = {r1, r2}
    None = None
    Batch <- OneBatch
    MaxEditions = 1
    Files = {f1, f2}
    Flagged = {}
PROPERTY PinMovesOnlyByOperator
CHECK_DEADLOCK FALSE
