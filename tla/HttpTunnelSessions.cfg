SPECIFICATION FairSpec
CONSTANTS
    Conns = {c1}
    Reqs = {r1}
    Links = 2
    MaxBody = 1
    None = None
INVARIANT
    StreamInOrder
PROPERTIES
    BufferedAnswered
    UpgradeReleased
CHECK_DEADLOCK FALSE
