SPECIFICATION FairSpec
CONSTANTS
    MaxSessions = 2
    Streams = {x1}
    None = None
INVARIANTS
    ReadsItsOwn
    AuthOfThis
    ChannelsOfThis
PROPERTIES
    LossEnds
CHECK_DEADLOCK FALSE
