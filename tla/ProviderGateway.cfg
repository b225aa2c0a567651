SPECIFICATION Spec
SYMMETRY Symmetry
CONSTANTS
    Calls = {c1, c2}
    Connections = {n1, n2}
    Keys = {k1, k2}
    None = None
    MaxKeys = 2
    MaxAttempts = 2
    DailyCeiling = 1
INVARIANTS
    
    CeilingHoldsButForOverlap
    DefaultExists
PROPERTIES
    RetiredKeysStayRetired
CHECK_DEADLOCK FALSE
