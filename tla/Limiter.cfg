SPECIFICATION Spec
CONSTANTS
    Checks = {k1, k2}
    c1 = c1
    c2 = c2
    Clients = {c1, c2}
    Anonymous = anonymous
    Shared = shared
    Sizes = {1, 2}
    Limits <- SomeLimits
    None = None
    MaxUpdates = 1
    MaxGain = 1
SYMMETRY Symmetry
INVARIANTS
    OwnRateKept
    TotalRateKept
    LimitsFollow
CHECK_DEADLOCK FALSE
