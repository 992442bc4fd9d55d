SPECIFICATION TRCPSpec
CHECK_DEADLOCK FALSE
CONSTANTS
    NoRecord = NoRecord
    MaxClock = 2
    MaxTicks = 2
    Digests = {d1}
    MaxDecisions = 2
    MaxSteps = 4
    Amounts <- MCAmounts
    Authorizations <- MCAuthorizations
    Scopes <- MCScopes
    Tasks <- MCTasks
    DirectProviders <- MCDirectProviders
    GenericPrimaries <- MCGenericPrimaries
INVARIANTS
    VerifierAcceptsExactlyFinished
    RunsWithinGrant
    BreachIsConfirmed
    LineageIsOneStory
