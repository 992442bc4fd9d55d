SPECIFICATION Spec
CONSTANTS
    Adapters = {a1, a2}
    Operators = {o1, o2}
    Caps = {c1}
    States = {"s0", "s1"}
    Nobody = Nobody
    NoLease = NoLease
    NoCap = NoCap
    LeaseTTL = 1
    MaxLease = 2
    MaxEpoch = 1
    MaxSession = 1
    MaxTime = 1
SYMMETRY Symmetry
INVARIANTS
    EffectInLeasedWorld
    EffectsOnceOnRecord
    ContainmentHolds
