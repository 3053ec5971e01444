\* Two threads log, two workers, a server that may die once.
SPECIFICATION FairSpec
CONSTANTS
    Workers = {w1, w2}
    Callers = {t1, t2}
    Retries = 1
    FdLimit = 1
    MsgLen = 3
    BufSize = 2
    MayDelete = TRUE
    MaxCalls = 2
    MaxStops = 1
INVARIANTS
    WakeupPerTask
    NoTaskDropped
    OneRecord
    DescriptorsLeft
PROPERTIES
    CallEnds
    DeletionEnds
    SentIsRecorded
CHECK_DEADLOCK FALSE
