SPECIFICATION ParserFixSpec
CONSTANTS
    Triggers = {t1, t2}
    Artefacts = {a1}
    Known = {a1}
    Contents = {c1, c2}
    None = None
INVARIANT QuarantinedMeansNoBatch
CHECK_DEADLOCK FALSE
