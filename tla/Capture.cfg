SPECIFICATION FairSpec
CONSTANTS
    k1 = k1
    k2 = k2
    Keys = {k1, k2}
    s1 = s1
    s2 = s2
    s3 = s3
    Shards = {s1, s2, s3}
    Sources <- Synced
    PageSize = 2
    MaxChanges = 3
INVARIANTS
    TypeOK
    NothingFallsBetween
    CheckpointIsWritten
    LoadReconciles
PROPERTIES
    CatchesUp
    NeverBackwards
CHECK_DEADLOCK FALSE
