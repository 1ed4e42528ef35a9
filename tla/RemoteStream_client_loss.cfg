CONSTANTS
    Streams = {s1}
    MaxReads = 1
    MaxReplies = 1
SPECIFICATION FairSpec
PROPERTIES
    ClientLossClosesStream
CHECK_DEADLOCK FALSE
