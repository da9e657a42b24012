SPECIFICATION FairSpec
CONSTANTS
    f1 = f1
    f2 = f2
    s1 = s1
    s2 = s2
    q1 = q1
    Flows = {f1}
    Servers = {s1}
    Paths = {"a"}
    Configs <- OneFlow
    Requests = {q1}
CHECK_DEADLOCK FALSE
PROPERTY ShutdownCompletes
