\* One connection on a loop of the pool, one other thread.
SPECIFICATION Spec
CONSTANTS
    Conns = {c1}
    Users = {u1}
    Main = "main"
    SubLoops <- OneSubLoop
    MsgLen = 2
    Room = 1
    HighWaterMark = 9
    UserCallbacks = {"writeComplete"}
    PeerMayReset = TRUE
    SendsFiles = FALSE
    FileLen = 2
    FileCount = 2
    MaxSends = 2
    MaxData = 1
INVARIANTS
    DeadIsUnregistered
    ChannelsConsistent
    StreamIntact
    WritingIffBuffered
    DownIsReported
PROPERTIES
    FinAfterOutput
CHECK_DEADLOCK FALSE
