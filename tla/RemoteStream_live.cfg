CONSTANTS
    Streams = {s1}
    MaxReads = 3
    MaxReplies = 3
SPECIFICATION FairSpec
INVARIANTS
    ProtocolOrder
    Gapless
    ErrorPageEnds
    AnswersKept
    IInv
PROPERTIES
    NextRequestAnswered
    RefusalReachesVisitor
CHECK_DEADLOCK FALSE
