SPECIFICATION FairSpec
CONSTANTS
    Producers = {p1}
    Sizes = {1}
    max_capacity = 2
    MaxLogs = 1
PROPERTIES
    DestructorReturns
CHECK_DEADLOCK FALSE
