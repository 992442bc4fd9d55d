SPECIFICATION FairSpec
CONSTANTS
    Procs = {p1}
    Calls = {"read", "write"}
    Writes = {"write"}
    NoCall = NoCall
    MaxVisible = 2
    Plan <- MCPlan
    Gates <- MCGates
    MaxStops = 1
CHECK_DEADLOCK FALSE
PROPERTY SuccessCompletes
