SPECIFICATION FairSpec
CONSTANTS
    Partitions <- TwoPartitions
    MaxLog <- ThreeRecords
    StopOnHandlerError = FALSE
    RequireStableFetchOffset = TRUE
INVARIANT NoOutputTwice
INVARIANT OutputMatchesOffsets
PROPERTY ImplementsExactlyOnce
PROPERTY DrainTerminates
