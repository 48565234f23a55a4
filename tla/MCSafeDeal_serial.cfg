CHECK_DEADLOCK FALSE
SPECIFICATION FairSpec
CONSTANTS
    Deals = {d1, d2}
    Procs = {p1}
    NoDeal = NoDeal
    MaxCrashes = 0
INVARIANTS
    DealsAreAccounted
PROPERTIES
    KeepsEscrow
    ShippedIsPaidOut
    PaymentIsDecided
