SPECIFICATION FairSpec
CONSTANTS
    Senders = {s1}
    OnRecv = onRecv
    Buffers = {b1, b2}
    None = none
    QueueCap = 2
    Batch = 1
    MaxSends = 3
    ReadTimeout = TRUE
    CallbackDoes = {"close"}
    Faults = {"reset", "close", "malformed"}
    MaxFrames = 1
    MaxCloses = 1
PROPERTIES
    PoolRefills
    AcceptedIsSent
    ClosedIsReleased
CHECK_DEADLOCK FALSE
