CONSTANTS
    Conns = {c1, c2}
    Subs = {s1}
    Domains = {d1}
    NoConn = NoConn
    NoHost = NoHost
    Mortal = {c1}
    Streaming = {}
    Flags = {FALSE}
    MaxQueue = 1
    MaxPongs = 1
SPECIFICATION Spec
PROPERTIES
    RemoveSparesOthers
CHECK_DEADLOCK FALSE
