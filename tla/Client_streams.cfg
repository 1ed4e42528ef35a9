CONSTANTS
    Streams = {s1}
    MaxEras = 1
    MaxConns = 2
    MaxChunks = 2
    MaxReplies = 1
    MaxPackets = 1
SPECIFICATION FairSpec
INVARIANTS
    IInv
    OneSource
    RecordsWhole
PROPERTIES
    StreamsArePipes
    RefusedOnlyWithoutSource
    OnlyBrokenSocketsKill
    EndReachesLocal
    LossNoticed
CHECK_DEADLOCK FALSE
