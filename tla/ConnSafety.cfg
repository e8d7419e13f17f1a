SPECIFICATION Spec
CONSTANTS
    Senders = {s1}
    OnRecv = onRecv
    Buffers = {b1, b2, b3}
    None = none
    QueueCap = 3
    Batch = 2
    MaxSends = 3
    ReadTimeout = TRUE
    CallbackDoes = {"send", "close"}
    Faults = {"reset", "close", "malformed"}
    MaxFrames = 1
    MaxCloses = 1
SYMMETRY Symmetry
INVARIANTS
    TypeOK
    BufferOwnership
    NoOverwrite
    OneWrite
    NoStall
    OneReadLoop
    DisconnectOnce
    DestructorFreesAll
PROPERTIES
    StreamSpec
CHECK_DEADLOCK FALSE
