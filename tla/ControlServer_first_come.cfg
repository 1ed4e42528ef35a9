CONSTANTS
    Conns = {c1, c2}
    Subs = {s1}
    Domains = {d1}
    NoConn = NoConn
    NoHost = NoHost
    Mortal = {}
    Streaming = {}
    Flags = {FALSE}
    MaxQueue = 1
    MaxPongs = 1
SPECIFICATION Spec
INVARIANTS
    FirstComeFirstServed
SYMMETRY Symmetry
CHECK_DEADLOCK FALSE
