SPECIFICATION FairSpec
CONSTANTS
    Producers = {p1, p2}
    Sizes = {1, 2}
    max_capacity = 3
    MaxLogs = 3
INVARIANTS
    FlushedAtEnd
    NothingLost
    WithinCapacity
    NoLostRecordWakeup
PROPERTIES
    AcceptedIsWritten
CHECK_DEADLOCK FALSE
