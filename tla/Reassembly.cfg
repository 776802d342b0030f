SPECIFICATION Spec
CONSTANTS
    Readers = {p1, p2}
    Cleaner = cleaner
    Streamed = {h}
    Direct = {t}
    Last = 2
    MaxWindow = 2
    Negotiable <- AllFeatures
    MaxGen = 2
    None = None
SYMMETRY Symmetry
INVARIANTS
    TypeOK
    NoWriteAfterDestroy
    WindowRestored
    NoCircularWait
PROPERTY
    WholeOrNothing
CHECK_DEADLOCK FALSE
