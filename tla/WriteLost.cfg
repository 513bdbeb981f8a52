SPECIFICATION Spec
CONSTANTS
    k1 = k1
    k2 = k2
    Keys = {k1, k2}
    Shards = {k1, k2}
    Sources <- RefusedDynamo
    PageSize = 2
    MaxChanges = 3
INVARIANTS
    CheckpointIsDurable
CHECK_DEADLOCK FALSE
