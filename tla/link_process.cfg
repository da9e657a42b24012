SPECIFICATION Spec
CONSTANTS
    Present <- Environment
    MaxOffset = 1
    Configs <- SomeConfigs
    Requests = {q1, q2}
    TTL = 1
    LookupTime = 2
    MaxTime = 4
SYMMETRY Interchangeable
INVARIANTS ConfigFits Intercepted RuntimesClosed FreshAddress
CHECK_DEADLOCK FALSE
