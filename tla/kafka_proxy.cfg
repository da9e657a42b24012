SPECIFICATION KafkaFairSpec
CONSTANTS
    r1 = r1
    r2 = r2
    Callers = {r1}
    Requests = {r1, r2}
    Clusters = {"a"}
    ClusterOf <- OneCluster
    MaxRetries = 3
    FailureThreshold = 2
    SuccessThreshold = 1
    ResetTimeout = 1
CHECK_DEADLOCK FALSE
INVARIANT NoClientLost
INVARIANT ClosedAfterUse
INVARIANT AnswerTruthful
PROPERTY KafkaRequestsAnswered
