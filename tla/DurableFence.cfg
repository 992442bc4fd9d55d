SPECIFICATION FairSpec
CONSTANTS
    Worlds = {w1, w2}
    Auths = {a1, a2}
    NoReservation = NoReservation
    MaxGen = 2
    Procs = {p1, p2}
    Coordinators = {c1}
INVARIANTS
    OneEffectPerGeneration
    EffectAccountedFor
    ReceiptsTruthful
    EffectHoldsReservation
PROPERTIES
    ImplementsAbstract
    ReservationReleased
