\* Two processes, every mode; batches of up to two, files of two.
SPECIFICATION Spec
CONSTANTS
    Paths = {"a", "b", "r"}
    Builds <- Loggers
    FlushModes = {0, 1, 2}
    Clock <- TwoSeconds
    MaxSize <- Sizes
    MaxBatch = 2
    MaxMessages = 4
    MaxLives = 2
INVARIANTS
    SinkInOrder
    FlushedIsKept
    RollSizes
PROPERTIES
    RolledFilesStay
    NothingErased
CHECK_DEADLOCK FALSE
