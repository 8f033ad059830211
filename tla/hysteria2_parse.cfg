SPECIFICATION FairSpec
CONSTANTS
    s1 = s1
    l1 = l1
    l2 = l2
    None = None
    SessionIds = {s1}
    Locations = {l1, l2}
    Literal = {l1}
    Packets <- SomePackets
    CacheSize = 1
    CleanupInterval = 0
    IdleTimeout = 1
    MaxDatagrams = 3
    MaxTime = 2
CHECK_DEADLOCK FALSE
PROPERTY
    ParseErrorsIgnored
