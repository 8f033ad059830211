SPECIFICATION FairSpec
CONSTANTS
    StreamIds = {s1}
    Tasks = {t1}
    None = None
    ChanCap = 1
    OutCap = 1
    MaxFrames = 5
    MaxOpens = 1
    MaxReplies = 1
    Stalls = FALSE
    Breaks = TRUE
    ClientCmds = {"Syn", "Psh", "Fin"}
    FirstCmds = {"Settings"}
    PeerVersions = {2}
    ClientFrames <- MCClientFrames
    InitialData <- MCInitialData
PROPERTIES
    HandoverCompletes
    HangupEndsSession
CHECK_DEADLOCK FALSE
