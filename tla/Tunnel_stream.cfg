CONSTANTS
    Stream = s1
    MaxReads = 1
    MaxConns = 1
    MaxReplies = 1
SPECIFICATION FairSpec
INVARIANTS
    PacketsUnderstood
PROPERTIES
    ImplementsPipes
    RequestArrives
    AnswerArrives
CHECK_DEADLOCK FALSE
