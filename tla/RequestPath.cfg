SPECIFICATION FairSpec
CONSTANTS
    Requests = {r1, r2}
    MaxPart = 2
    Window = 2
    None = None
INVARIANTS
    UpstreamGetsWhole
    RepliesOnce
    OneOwner
PROPERTIES
    SendReturns
    SentIsAnswered
CHECK_DEADLOCK FALSE
