SPECIFICATION FairSpec
CONSTANTS
    StreamIds = {s1}
    Tasks = {t1}
    None = None
    ChanCap = 1
    OutCap = 1
    MaxFrames = 3
    MaxOpens = 1
    MaxReplies = 1
    Stalls = TRUE
    Breaks = FALSE
    ClientCmds = {"Syn", "Psh", "Fin"}
    FirstCmds = {"Settings"}
    PeerVersions = {2}
    ClientFrames <- MCClientFrames
    InitialData <- MCInitialData
PROPERTIES
    ClosedSessionEnds
CHECK_DEADLOCK FALSE
