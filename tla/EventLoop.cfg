\* The owner and another thread, four functors; no help from the poll timeout.
SPECIFICATION LTFairSpec
CONSTANTS
    Threads = {owner, t2}
    Owner = owner
    MaxPosts = 4
INVARIANTS
    NoSleepOnWork
    ExactlyOnceInOrder
    OwnerOutlivesThread
PROPERTIES
    ImplementsTaskQueue
    PromptExecution
    StartReturns
    DestructorReturns
CHECK_DEADLOCK FALSE
