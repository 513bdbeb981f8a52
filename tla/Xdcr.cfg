SPECIFICATION FairSpec
CONSTANTS
    a = a
    b = b
    o = o
    u = u
    h1 = h1
    h2 = h2
    Migrations = {a, b}
    Former = {o}
    Manual = {u}
    Hosts = {h1, h2}
    Attempts = 5
    Lag = 2
INVARIANTS
    TypeOK
    ReplicatingIsReplicated
    StopLeavesNothing
PROPERTIES
    StaleNeverBlocks
CHECK_DEADLOCK FALSE
