SPECIFICATION MirrorSpec
CONSTANTS
    Worlds = {w1, w2}
    Auths = {a1}
    NoReservation = NoReservation
    MaxGen = 2
    Callers = {p1, p2}
    NoWorld = NoWorld
    MaxSeq = 3
SYMMETRY Symmetry
INVARIANTS
    NoSilentTransition
    MirrorFaithful
