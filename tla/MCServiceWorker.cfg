CONSTANTS
    p1 = p1
    p2 = p2
    d1 = d1
    t1 = t1
    t2 = t2
    f1 = f1
    None = None
    Pages <- MCPages
    Docs <- MCDocs
    Targets <- MCTargets
    Requests <- MCRequests
    Connects <- MCConnects
    MaxTries = 2
    MaxMail = 1
SPECIFICATION FairSpec
INVARIANTS
    TypeOK
    HostsAreReady
    NoCrossRouting
PROPERTIES
    Answered
    NeverBack
