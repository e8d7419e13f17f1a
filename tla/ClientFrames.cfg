SPECIFICATION Spec
CONSTANTS
    Byte = {0, 2, 5}
    Zero = 0
    HeaderSize = 2
    TotalSize <- MCTotalSize
    MaxMessageSize = 4
    Chunk = 4
    MaxInput = 4
    MaxConnects = 2
INVARIANTS
    EachStreamFramed
CHECK_DEADLOCK FALSE
