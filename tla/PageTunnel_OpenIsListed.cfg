CONSTANTS
    e1 = e1
    e2 = e2
    None = None
    Tunnels <- MCTunnels
    MaxFails = 3
SPECIFICATION Spec
INVARIANTS
    OpenIsListed
CHECK_DEADLOCK FALSE
