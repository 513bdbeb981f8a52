SPECIFICATION FairSpec
CONSTANTS
    Batches = 7
    Capacity = 4
    CatchAll = TRUE
    Faults = {"driver", "other", "sink"}
INVARIANTS
    TypeOK
    InOrder
    NeverTruncated
PROPERTIES
    FailureSurfaces
    ReaderEnds
    ProducerEnds
CHECK_DEADLOCK FALSE
