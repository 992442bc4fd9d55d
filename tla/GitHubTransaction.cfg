SPECIFICATION Spec
CONSTANTS
    Procs = {p1, p2}
    Calls = {"read", "write"}
    Writes = {"write"}
    NoCall = NoCall
    MaxVisible = 2
    Plan <- MCPlan
    Gates <- MCNoGates
    MaxStops = 2
SYMMETRY Symmetry
CHECK_DEADLOCK FALSE
INVARIANTS
    CalledOnceInPlanOrder
    CheckpointsHonest
