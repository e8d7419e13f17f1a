SPECIFICATION Spec
CONSTANTS
    Senders = {s1}
    OnRecv = onRecv
    Buffers = {b1, b2}
    None = none
    QueueCap = 2
    Batch = 1
    MaxSends = 2
    CallbackDoes = {"send", "close"}
    Faults = {"unreachable", "error", "empty", "close"}
    MaxSockets = 2
    MaxCloses = 1
SYMMETRY Symmetry
INVARIANTS
    TypeOK
    FirstSocket
    NeverResent
CHECK_DEADLOCK FALSE
