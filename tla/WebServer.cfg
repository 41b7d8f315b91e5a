CONSTANTS
    WorkerCount = 2
    Sockets = {s1, s2}
    NoSocket = NoSocket
    MaxCalls = 2
    MaxPorts = 2
SPECIFICATION FairSpec
INVARIANTS
    PoolInv
    HandlerStays
    LifeInv
PROPERTIES
    ImplementsPool
    Served
    CallsReturn
CHECK_DEADLOCK FALSE
