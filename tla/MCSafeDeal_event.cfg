CHECK_DEADLOCK FALSE
SPECIFICATION FairSpec
CONSTANTS
    Deals = {d1}
    Procs = {p1}
    NoDeal = NoDeal
    MaxCrashes = 1
PROPERTIES
    RecordedEventIsHandled
