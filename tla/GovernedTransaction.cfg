SPECIFICATION Spec
CONSTANTS
    Plan <- MCPlan
    Policies = {"steps", "pair", "single", "barred"}
    Policy <- MCPolicy
    NoRule = NoRule
    Roles = {"reviewer", "owner"}
    Principals = {u1, u2}
    SignedPolicies = {"single"}
    Writers = {w1, w2}
    Receipts = {r1, r2, r3}
    NoSnapshot = NoSnapshot
    Procs = {p1, p2}
    NoFile = NoFile
    Nothing = Nothing
    MaxRecorded = 2
    CapsuleTtl = 0
    AssertionTtl = 0
    MaxTime = 1
    MaxReceipts = 1
SYMMETRY Symmetry
CHECK_DEADLOCK FALSE
INVARIANTS
    LossOnlyToOverlap
    StepsWereApproved
    RunsOnSignedApprovals
    ReceiptTellsTheJournal
    ReceiptsOutliveTheirWindows
    ProjectionsKept
