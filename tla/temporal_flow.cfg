SPECIFICATION TemporalSpec
CONSTANTS
    p1 = p1
    Partitions = {p1}
    MaxLog <- Log
    CommitPolicy = "sink_or_dlq"
    StartOffset = 0
    StopOnHandlerError = TRUE
    MaxAttempts = 1
    Flows <- SomeFlows
    MaxRuns = 3
    MaxSignals = 3
INVARIANTS OneOpenRunPerKey CommittedReached SignalsInOrder
CHECK_DEADLOCK FALSE
