CONSTANTS
    a = a
    b = b
    None = None
    Requests <- MCRequests
    Lengths <- MCLengths
    SingleMax = 2
    ChunkSize = 2
SPECIFICATION FairSpec
INVARIANTS
    TypeOK
    Integrity
    NeverSilent
    NoneStranded
PROPERTIES
    RpcSpec
    Drains
CHECK_DEADLOCK FALSE
