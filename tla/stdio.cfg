SPECIFICATION FairSpec
CONSTANTS
    c1 = c1
    c2 = c2
    None = None
    Child <- TwoChildren
    MaxFd = 2
    max_buf_size = 3
    Byte <- AnyByte
    MaxBytes = 3
INVARIANTS
    OwnDescriptor
    EventsOwned
    NothingLost
PROPERTY
    Buried
CHECK_DEADLOCK FALSE
