CONSTANTS
    Cmds = {c1, c2, c3}
    Keys = {k1, k2}
    Pids = {p1, p2}
    Recycled = {p2}
    NoProc = NoProc
    Foreign = Foreign
    NoFile = NoFile
    Torn = Torn
SPECIFICATION Spec
INVARIANTS
    IInv
    RunningIsTracked
    CollisionSeen
    StaleRemoved
SYMMETRY Symmetry
CHECK_DEADLOCK FALSE
