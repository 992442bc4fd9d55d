SPECIFICATION HostSpec
CONSTANTS
    Procs = {p1, p2}
    Calls = {c1, c2}
    Writes = {c1}
    NoCall = NoCall
    MaxVisible = 2
SYMMETRY Symmetry
INVARIANTS
    TraceTellsOutcome
    PendingCanComplete
    CallsCorrelate
CHECK_DEADLOCK FALSE
