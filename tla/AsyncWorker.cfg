\* Both modes; three producers, messages that fill the buffer.
SPECIFICATION FairSpec
CONSTANTS
    Producers = {p1, p2, p3}
    AsyncTypes = {"SAFE", "UNSAFE"}
    BufferSize = 3
    Growth = 3
    Lengths = {1, 3}
    MayStop = TRUE
    MaxPushes = 4
INVARIANTS
    FlushedInOrder
    NoSleepOnData
    WithinBuffer
    StopKeepsPushed
PROPERTIES
    PushEnds
    EverythingFlushed
CHECK_DEADLOCK FALSE
