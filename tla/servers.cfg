SPECIFICATION AllSpec
CONSTANTS
    c1 = c1
    c2 = c2
    c3 = c3
    Clients = {c1, c2, c3}
    PrefixKnown = {c1, c2}
    Users = {c1}
    Fallback = TRUE
    MaxConnections = 2
    BufSize = 3
    MaxBytes = 6
    MaxLen = 4
    k1 = k1
    k2 = k2
    t1 = t1
    Conns = {k1, k2}
    Streams = {t1}
    H2MaxConnections = 1
CHECK_DEADLOCK FALSE
INVARIANTS
    PermitsConserved
    SessionsAreUsers
    ReaderIsExact
    H2PermitsConserved
PROPERTIES
    QueuedIsServed
    H2GoneConnectionEnds
    H2WaitingIsServed
