SPECIFICATION Spec
CONSTANTS
    Tasks = {t1, t2}
    Containers = {c1}
    Plans <- NativeHybrid
    Offered <- PageRequests
    Budget <- EachOnce
    Faults <- NoFaults
INVARIANTS
    NoOrphanReplication
CHECK_DEADLOCK FALSE
