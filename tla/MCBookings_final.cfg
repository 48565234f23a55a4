SPECIFICATION Spec
CONSTANTS
    Clients = {c1}
    Slots = {s1, s2}
    Bays = {post}
    Bookings = {b1, b2}
    Procs = {p1, p2}
    Start <- AlikeStart
    BayOf <- OnePost
    MaxTime = 2
    NoOne = NoOne
    NoSlot = NoSlot
    NoBay = NoBay
PROPERTIES
    FinalStatusStays
