SPECIFICATION Spec
CONSTANTS
    Dests = {d1, d2}
    CleanupInterval = 1
    AssocTimeout = 0
    MaxSent = 3
    MaxAnswers = 2
    MaxTraffic = 3
    MaxNow = 1
    NoSession = NoSession
    PingInterval = 1
    IdleLimit = 1
    MaxInAll = 2
    MaxClock = 2
    NoMessage = NoMessage
    PktSize = 6
    Threshold = 2
    Packets <- MCPackets
    MaxPackets = 3
    MaxPayload = 2
    MaxMessages = 3
    Names = {n1, n2}
    Callers = {r1, r2}
    CacheSize = 1
    Ttl = 1
    LookupLimit = 1
    MaxTime = 2
    Changing = {n1}
    MaxChanges = 1
CHECK_DEADLOCK FALSE
INVARIANTS
    ForwardedInOrder
    AnswersInOrder
    SocketsAreOwned
    CopiedInOrder
    OkMeansDone
    PacketsWhole
    MessagesWhole
    AnswersAreRecent
PROPERTIES
    OnlyIdleRemoved
    RecvTasksEnd
    ClientEndEndsCopy
    IdleEnds
