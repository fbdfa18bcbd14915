SPECIFICATION ApartSpec
CONSTANTS
    Tenants = {t1, t2, t3}
    Old = {t1, t2}
    Platform = Platform
    None = None
    MaxHand = 2
    MaxCommands = 3
SYMMETRY Symmetric
INVARIANTS TypeOK UntouchedIsClean  
CHECK_DEADLOCK FALSE
