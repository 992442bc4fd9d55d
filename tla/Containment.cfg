SPECIFICATION FairSpec
CONSTANTS
    Sessions = {1, 2}
    Pids = {10, 11, 12}
    Root = 10
    NoPid = 0
    Watched = 1
    Coordinator = 0
    Rescued = {2}
    NoObservation = NoObservation
INVARIANTS
    CleanMeansQuiet
    TerminalIsGone
PROPERTIES
    ReachesReview
CHECK_DEADLOCK FALSE
