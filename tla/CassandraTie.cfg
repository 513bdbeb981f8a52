SPECIFICATION Spec
CONSTANTS
    k1 = k1
    k2 = k2
    s1 = s1
    Keys = {k1, k2}
    Shards = {s1}
    Sources <- TiedCassandra
    PageSize = 2
    MaxChanges = 3
INVARIANTS
    NothingFallsBetween
CHECK_DEADLOCK FALSE
