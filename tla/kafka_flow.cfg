SPECIFICATION FairSpec
CONSTANTS
    Partitions <- TwoPartitions
    MaxLog <- ThreeRecords
    CommitPolicy = "sink_or_dlq"
    StartOffset = 1
    StopOnHandlerError = FALSE
    MaxAttempts = 2
INVARIANT CommittedAccounted
INVARIANT SettledInOrder
PROPERTY ImplementsDelivery
PROPERTY DrainTerminates
PROPERTY NoRecordStuck
