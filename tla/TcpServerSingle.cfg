\* Two connections on the loop that also accepts.
SPECIFICATION FairSpec
CONSTANTS
    Conns = {c1, c2}
    Users = {}
    Main = "main"
    SubLoops <- SingleReactor
    MsgLen = 2
    Room = 1
    HighWaterMark = 9
    UserCallbacks = {"writeComplete"}
    PeerMayReset = FALSE
    SendsFiles = TRUE
    FileLen = 2
    FileCount = 2
    MaxSends = 2
    MaxData = 0
INVARIANTS
    DeadIsUnregistered
    FileIntact
PROPERTIES
    OutputDrains
    FileDrains
CHECK_DEADLOCK FALSE
