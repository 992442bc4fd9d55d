SPECIFICATION Spec
CONSTANTS
    Ids = {1, 2}
    Contracts <- MCContracts
    Requests <- MCRequests
    Plans <- MCPlans
    States = {"s0", "s1"}
    ZeroState = "zero"
    HostBinding = "host"
    NoId = 0
    NoContract = NoContract
    NoWorld = NoWorld
    MaxTime = 2
    MaxEpoch = 2
INVARIANTS
    OldEpochPowerless
PROPERTIES
    NeverActiveAgain
    UsedOnlyInBoundWorld
