SPECIFICATION Spec
CONSTANTS
    Extractions = {x1, x2, x3}
    Artefacts = {a1, a2}
    Probe = a1
    MaxLines = 4
    Documents <- SomeDocuments
    OcrEnabled = TRUE
    MaxWindowLines = 3
    MaxWords = 3
    Opening = 2
    Closing = 1
    StartMonth = 4
    None = None
INVARIANTS TypeOK FootnotesNeverWin  SnapshotIsWhole OneHoldingPerDay TornOnlyByFailure
CONSTRAINT ReadOnce
SYMMETRY Symmetric
CHECK_DEADLOCK FALSE
