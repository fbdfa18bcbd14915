SPECIFICATION CorrectionsSpec
CONSTANTS
    Loads = {t1, t2}
    Keys = {k1}
    Contents = {c1, c2, c3}
    MaxRows = 1
    NoContent = NoContent
    Seed = Seed
    None = None
INVARIANT ConflictMeansRecorded
CHECK_DEADLOCK FALSE
