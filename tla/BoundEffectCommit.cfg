SPECIFICATION Spec
CONSTANTS
    Adapters = {a1, a2}
    Nobody = Nobody
    Operations <- MCOperations
    HostEvents <- MCHostEvents
    Forbidden = {}
    Releases = {r1, r2}
    NoLease = NoLease
    MaxLease = 2
    MaxEvents = 2
    MaxObserved = 1
    MaxRelease = 2
SYMMETRY Symmetry
INVARIANTS
    EffectInBoundState
    EffectsKeepTrajectoryAllowed
    EvidenceMatchesEffects
