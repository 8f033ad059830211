SPECIFICATION BothSpec
CONSTANTS
    s1 = s1
    l1 = l1
    l2 = l2
    None = None
    SessionIds = {s1}
    Locations = {l1, l2}
    Literal = {l1}
    Packets <- SomePackets
    CacheSize = 1
    CleanupInterval = 0
    IdleTimeout = 0
    MaxDatagrams = 4
    MaxTime = 1
    DatagramSizes = {11, 14}
    AddrLens = {1, 2}
    MaxReply = 9
    CountRange = 4
    IdRange = 3
    MaxReplies = 4
CHECK_DEADLOCK FALSE
INVARIANTS
    WholePackets
    RightAddress
    TableIsLive
    ReplyIsWhole
PROPERTY
    LoopsEnd
