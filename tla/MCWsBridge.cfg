CONSTANTS
    s1 = s1
    s2 = s2
    Streams <- TwoStreams
    MaxData = 1
SPECIFICATION FairSpec
INVARIANTS
    TypeOK
    FrameOrder
    Reachable
PROPERTIES
    Concluded
CHECK_DEADLOCK FALSE
