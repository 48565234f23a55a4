CHECK_DEADLOCK FALSE
SPECIFICATION Spec
CONSTANTS
    Deals = {d1}
    Procs = {p1, p2}
    NoDeal = NoDeal
    MaxCrashes = 0
PROPERTIES
    RefundOnlyBeforeShipment
