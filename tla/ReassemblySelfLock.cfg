SPECIFICATION FairSpec
CONSTANTS
    Readers = {p1, p2}
    Cleaner = cleaner
    Streamed = {h}
    Direct = {t}
    Last = 1
    MaxWindow = 1
    Negotiable <- BothFeatures
    MaxGen = 2
    None = None
PROPERTY
    HandlerReturns
CHECK_DEADLOCK FALSE
