CONSTANTS
    Procs = {c1, c2}
    Names = {n1}
    n1 = n1
    h1 = h1
    h2 = h2
    k1 = k1
    s1 = s1
    Hosts <- MCHosts
    CtrlHosts = {}
    Ports = {1, 2}
    CtrlPorts = {5}
    Keys = {k1}
    Subs = {s1}
    None = None
    Absent = Absent
    Torn = Torn
    DefaultHost = h1
    DefaultPort = 1
    DefaultCtrlPort = 5
    Invocations <- MCInvocations
    Edits <- MCEdits
    LegacyFiles <- MCLegacy
    MaxCommands = 4
SPECIFICATION Spec
INVARIANT RestoreKeepsServer
SYMMETRY Symmetry
CHECK_DEADLOCK FALSE
