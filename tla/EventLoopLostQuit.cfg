\* The destructor runs between the publication of the loop and loop(); even
\* the poll timeout does not help.
SPECIFICATION LTTimedSpec
CONSTANTS
    Threads = {owner}
    Owner = owner
    MaxPosts = 1
PROPERTIES
    DestructorAlwaysReturns
CHECK_DEADLOCK FALSE
