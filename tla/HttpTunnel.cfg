SPECIFICATION Spec
CONSTANTS
    Conns = {c1, c2}
    Reqs = {r1, r2}
    Links = 1
    MaxBody = 0
    None = None
SYMMETRY Symmetry
CONSTRAINT OneOfAKind
INVARIANTS
    TypeOK
    AnswerOnce
    PendingIsGuarded
    DoneIsClean
    NothingLost
CHECK_DEADLOCK FALSE
