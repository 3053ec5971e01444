\* A file of three bytes, of which two are to be sent.
SPECIFICATION Spec
CONSTANTS
    Conns = {c1}
    Users = {u1}
    Main = "main"
    SubLoops <- OneSubLoop
    MsgLen = 1
    Room = 1
    HighWaterMark = 9
    UserCallbacks = {"writeComplete"}
    PeerMayReset = FALSE
    SendsFiles = TRUE
    FileLen = 3
    FileCount = 2
    MaxSends = 1
    MaxData = 1
INVARIANTS
    FileWithinCount
CHECK_DEADLOCK FALSE
