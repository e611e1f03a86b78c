CONSTANTS
    p1 = p1
    p2 = p2
    k1 = k1
    None = None
    Pages <- MCPages
    Keys <- MCKeys
SPECIFICATION FairSpec
INVARIANTS
    TypeOK
    ReadyWasOpen
PROPERTIES
    Respected
    StaysPurged
    Purged
    Heals
CHECK_DEADLOCK FALSE
