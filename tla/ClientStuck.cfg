SPECIFICATION Spec
CONSTANTS
    Senders = {s1}
    OnRecv = onRecv
    Buffers = {b1, b2}
    None = none
    QueueCap = 2
    Batch = 1
    MaxSends = 2
    ReadTimeout = FALSE
    CallbackDoes = {}
    Faults = {"reset"}
    MaxFrames = 1
    MaxConnects = 2
    MaxCloses = 1
INVARIANTS
    NeverStuck
CHECK_DEADLOCK FALSE
