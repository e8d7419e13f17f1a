SPECIFICATION FairSpec
CONSTANTS
    Senders = {s1, s2}
    OnRecv = onRecv
    Buffers = {b1, b2}
    None = none
    QueueCap = 2
    Batch = 1
    MaxSends = 2
    ReadTimeout = FALSE
    CallbackDoes = {"send"}
    Faults = {}
    MaxFrames = 1
    MaxCloses = 1
PROPERTIES
    PoolRefills
CHECK_DEADLOCK FALSE
