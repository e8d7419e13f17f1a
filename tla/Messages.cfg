SPECIFICATION FairSpec
CONSTANTS
    Byte = {0, 2, 3, 5}
    Zero = 0
    HeaderSize = 2
    TotalSize <- MCTotalSize
    MaxMessageSize = 3
    Chunk = 3
    MaxInput = 7
    Extract <- MCExtract
    Definitions <- MCDefinitions
INVARIANTS
    TypeOK
    FramesTile
    NothingHeldBack
    BufferBounded
    HandledExactly
PROPERTIES
    ProcessingEnds
CHECK_DEADLOCK FALSE
