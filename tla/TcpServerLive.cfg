\* Peers that finish or reset; the loops hop between Main and the pool.
SPECIFICATION FairSpec
CONSTANTS
    Conns = {c1}
    Users = {u1}
    Main = "main"
    SubLoops <- OneSubLoop
    MsgLen = 2
    Room = 1
    HighWaterMark = 9
    UserCallbacks = {"writeComplete"}
    PeerMayReset = TRUE
    SendsFiles = TRUE
    FileLen = 2
    FileCount = 2
    MaxSends = 1
    MaxData = 1
PROPERTIES
    PeerGoneIsRemoved
    ShutdownSendsFin
CHECK_DEADLOCK FALSE
