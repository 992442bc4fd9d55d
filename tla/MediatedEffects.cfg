SPECIFICATION Spec
CONSTANTS
    Calls = {c1, c2}
    NoCall = NoCall
    Threads = {t1, t2}
    Contents = {d1, d2}
    MaxUses <- MCMaxUses
    Expires = 2
    Ttl = 1
    MaxTime = 2
    MaxIncidents = 1
    MaxWrites = 2
    MaxRedirects = 1
SYMMETRY Symmetry
INVARIANTS ChargesCoverEffects ReceiptsTellEffects StaleWritesOnlyInWindow BackdatingGainsNothing
PROPERTIES ContainmentIsPrompt
CHECK_DEADLOCK FALSE
