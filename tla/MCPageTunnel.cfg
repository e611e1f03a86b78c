CONSTANTS
    e1 = e1
    e2 = e2
    None = None
    Tunnels <- MCTunnels
    MaxFails = 2
SPECIFICATION FairSpec
INVARIANTS
    TypeOK
    DeadIsSwept
    NoneWaits
PROPERTIES
    Noticed
    Kept
    StaysWithdrawn
CHECK_DEADLOCK FALSE
