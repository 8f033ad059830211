SPECIFICATION Spec
CONSTANTS
    StreamIds = {s1, s2}
    Tasks = {t1, t2}
    None = None
    ChanCap = 1
    OutCap = 1
    MaxFrames = 5
    MaxOpens = 2
    MaxReplies = 1
    Stalls = TRUE
    Breaks = FALSE
    ClientCmds = {"Syn", "Psh", "Fin"}
    FirstCmds = {"Syn", "Settings", "SettingsPad", "Heart", "Alert", "Bad", "Other"}
    PeerVersions = {1, 2}
    ClientFrames <- MCClientFrames
    InitialData <- MCInitialData
SYMMETRY TaskSymmetry
INVARIANTS
    StreamFramesInOrder
    HandlesMatchTasks
    SettingsBeforeSynAck
    CloseAbortsAll
    UploadInOrder
    DeadEntriesHaveFin
    CutFrameEndsSession
CHECK_DEADLOCK FALSE
