CONSTANTS
    Hosts <- MCHosts
    Ports <- MCPorts
    Methods <- MCMethods
    MaxRedirects <- MCMaxRedirects
SPECIFICATION Spec
INVARIANTS
    TypeOK
    OnlyTheTarget
    BodyWithItsMethod
    NoBodyLeak
    Bounded
CHECK_DEADLOCK FALSE
