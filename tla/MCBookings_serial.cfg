SPECIFICATION FairSpec
CONSTANTS
    Clients = {c1}
    Slots = {s1, s2}
    Bays = {post}
    Bookings = {b1, b2}
    Procs = {p1}
    Start <- SpreadStart
    BayOf <- OnePost
    MaxTime = 4
    NoOne = NoOne
    NoSlot = NoSlot
    NoBay = NoBay
INVARIANTS
    ReservedSlotFree
    ClosedSlotHasNoVisit
PROPERTIES
    KeepsPromise
    RequestIsAnswered
