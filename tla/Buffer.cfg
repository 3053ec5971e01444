\* A prefix of 2, 3 cells, a read of at most 4 bytes beyond them.
SPECIFICATION Spec
CONSTANTS
    CheapPrepend = 2
    InitSize = 3
    ExtraSize = 4
    MaxBytes = 12
INVARIANTS
    IndexesInRange
    ReadableIsUnread
PROPERTIES
    ImplementsByteQueue
CHECK_DEADLOCK FALSE
