CONSTANTS
    p1 = p1
    Peers <- OnePeer
    Connectable <- OnePeer
    Inputs <- AllInputs
    Outgoing <- MCOutgoing
    SendCap = 2
    InboxCap = 0
    LoopCap = 1
    MaxCandidates = 1
SPECIFICATION FairSpec
PROPERTY LoopUnblocks
CHECK_DEADLOCK FALSE
