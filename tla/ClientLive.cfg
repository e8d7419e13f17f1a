SPECIFICATION FairSpec
CONSTANTS
    Senders = {}
    OnRecv = onRecv
    Buffers = {b1, b2}
    None = none
    QueueCap = 2
    Batch = 1
    MaxSends = 1
    ReadTimeout = TRUE
    CallbackDoes = {"send", "close"}
    Faults = {"refused", "reset", "close"}
    MaxFrames = 1
    MaxConnects = 2
    MaxCloses = 1
PROPERTIES
    ConnectAnswered
    DroppedIsReleased
CHECK_DEADLOCK FALSE
