SPECIFICATION FairSpec
CONSTANTS
    f1 = f1
    f2 = f2
    s1 = s1
    s2 = s2
    q1 = q1
    Flows = {f1, f2}
    Servers = {s1, s2}
    Paths = {"a", "b"}
    Configs <- TwoFlows
    Requests = {q1}
CHECK_DEADLOCK FALSE
INVARIANT Drained
PROPERTY RequestsAnswered
PROPERTY ShutdownUnlessBlocked
