SPECIFICATION ProxyFairSpec
CONSTANTS
    r1 = r1
    r2 = r2
    r3 = r3
    Callers = {r1, r2}
    FailureThreshold = 2
    SuccessThreshold = 2
    ResetTimeout = 1
    MaxAttempts = 2
    Burst = 1
INVARIANT CallersAccounted
PROPERTY TripsOnConsecutive
PROPERTY HalfOpenDecides
PROPERTY RequestsAnswered
PROPERTY BreakerRecovers
