SPECIFICATION FairSpec
CONSTANTS
    Batches = 7
    Capacity = 4
    CatchAll = TRUE
    Faults = {"sink"}
PROPERTIES
    OrphanEnds
CHECK_DEADLOCK FALSE
