CONSTANTS
    Conns = {c1, c2}
    Subs = {s1}
    Domains = {d1}
    NoConn = NoConn
    NoHost = NoHost
    Mortal = {c1}
    Streaming = {c1}
    Flags = {FALSE, TRUE}
    MaxQueue = 1
    MaxPongs = 1
SPECIFICATION Spec
INVARIANTS
    IInv
    NoGhost
    SoleClaimantListed
PROPERTIES
    NotFoundOnlyIfClosed
    ImplementsNameService
    ImplementsClientLink
CHECK_DEADLOCK FALSE
