CHECK_DEADLOCK FALSE
SPECIFICATION Spec
CONSTANTS
    Deals = {d1, d2}
    Procs = {p1, p2}
    NoDeal = NoDeal
    MaxCrashes = 1
SYMMETRY Symmetry
INVARIANTS
    TypeOK
    ReleaseBackedByPayment
    ReleasedOnce
    ReleasedMeansPaidOut
