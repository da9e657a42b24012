SPECIFICATION Spec
CONSTANTS
    Partitions <- TwoPartitions
    MaxLog <- ThreeRecords
    CommitPolicy = "sink_or_dlq"
    StartOffset = 0
    StopOnHandlerError = TRUE
    MaxAttempts = 2
INVARIANT NoMessageLoss
