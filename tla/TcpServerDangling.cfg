\* A functor that outlives its connection.
SPECIFICATION Spec
CONSTANTS
    Conns = {c1}
    Users = {u1}
    Main = "main"
    SubLoops <- OneSubLoop
    MsgLen = 1
    Room = 1
    HighWaterMark = 9
    UserCallbacks = {"writeComplete"}
    PeerMayReset = FALSE
    SendsFiles = FALSE
    FileLen = 2
    FileCount = 2
    MaxSends = 1
    MaxData = 1
INVARIANTS
    FunctorsFindConnection
CHECK_DEADLOCK FALSE
