\* Stop between the consumer's test and its sleep.
SPECIFICATION FairSpec
CONSTANTS
    Producers = {p1}
    AsyncTypes = {"SAFE"}
    BufferSize = 3
    Growth = 3
    Lengths = {1, 3}
    MayStop = TRUE
    MaxPushes = 1
PROPERTIES
    StopReturns
CHECK_DEADLOCK FALSE
