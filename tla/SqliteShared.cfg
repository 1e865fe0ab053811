SPECIFICATION Spec
CONSTANTS
    Process = {p1, p2, p3}
    NoProcess = NoProcess
    NoSnapshot = NoSnapshot
    MaxCalls = 6
SYMMETRY Symmetry
INVARIANTS
    TypeOK
    LockLeftByViolation
    WedgedByRaise

    
