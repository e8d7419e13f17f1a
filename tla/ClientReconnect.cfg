SPECIFICATION Spec
CONSTANTS
    Senders = {s1}
    OnRecv = onRecv
    Buffers = {b1, b2}
    None = none
    QueueCap = 2
    Batch = 1
    MaxSends = 3
    ReadTimeout = TRUE
    CallbackDoes = {"close"}
    Faults = {"refused", "reset", "close", "malformed"}
    MaxFrames = 1
    MaxConnects = 2
    MaxCloses = 1
SYMMETRY Symmetry
INVARIANTS
    FirstConnection
    NeverResent
    AnsweredOnce
    ConnectedIsLive
CHECK_DEADLOCK FALSE
