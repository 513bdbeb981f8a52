SPECIFICATION Spec
CONSTANTS
    k1 = k1
    k2 = k2
    Keys = {k1, k2}
    s1 = s1
    s2 = s2
    s3 = s3
    Shards = {s1, s2, s3}
    Sources <- SplitDynamo
    PageSize = 2
    MaxChanges = 3
INVARIANTS
    RestartFollowsShards
CHECK_DEADLOCK FALSE
