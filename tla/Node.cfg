SPECIFICATION FairSpec
CONSTANTS
    Workers = {w1, w2}
    Apps = {a1}
    Main = main
    Conns = {c1, c2}
    Own = own
    Ends = {c1, c2, own}
    Nobody = nobody
    PoolSize = 1
    MaxCalls = 3
    MaxReads = 1
    Greets = TRUE
INVARIANTS
    TypeOK
    RegistryIsLive
    HandlersFindServer
    AllReleased
PROPERTIES
    WaitsForReason
    StopReturns
    AcceptsAgain
CHECK_DEADLOCK FALSE
