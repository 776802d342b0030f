SPECIFICATION Spec
CONSTANTS
    Conns = {c1, c2}
    SubDomains = {app}
    Ports = {p1, p2}
    Any = Any
    MaxAuths = 1
    None = None
INVARIANT
    NameIsOwn
CHECK_DEADLOCK FALSE
