SPECIFICATION Spec
CONSTANTS
    Triggers = {t1, t2}
    Artefacts = {a1, a2, a3}
    Known = {a1, a2}
    Contents = {c1, c2}
    None = None
SYMMETRY Symmetric
INVARIANTS TypeOK LoadsAreAtomic DoorbellMeansComplete AnsweredIsNotPending AnswerAgreesWithStatus
CHECK_DEADLOCK FALSE
