SPECIFICATION FairSpec
CONSTANTS
    Conns = {c1, c2}
    SubDomains = {app}
    Ports = {p1, p2}
    Any = Any
    MaxAuths = 1
    None = None
INVARIANTS
    TypeOK
    MappedIsLive
    ServedIsOpen
PROPERTIES
    PortFreed
    CutOff
CHECK_DEADLOCK FALSE
