CONSTANTS
    p1 = p1
    p2 = p2
    Peers <- MCPeers
    Outgoing <- MCOutgoing
    SendCap = 1
    InboxCap = 1
SPECIFICATION HubFairSpec
INVARIANTS
    NothingLeftBehind
PROPERTIES
    Departs
CHECK_DEADLOCK FALSE
