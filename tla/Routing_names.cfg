CONSTANTS
    Conns = {c1, c2, c3}
    Labels <- LabelSet
    Lower <- LowerMap
    AllowedHosts <- Hosts
    Restricted <- Admin
    Wormhole = "wormhole"
    Hellos <- MCHellos
    VisitorHosts <- MCVisitorHosts
    NoClaim = NoClaim
    NoName = NoName
SPECIFICATION Spec
INVARIANTS
    IInv
    OwnHostLeadsHome
    WildcardAnswersDomain
    NoStranger
    TakenTellsAnswer
SYMMETRY Symmetry
CHECK_DEADLOCK FALSE
