SPECIFICATION Spec
CONSTANTS
    Tasks = {t1, t2}
    Containers = {c1}
    Plans <- OneTime
    Offered <- PageRequests
    Budget <- EachOnce
    Faults <- NoFaults
INVARIANTS
    PurgedStaysClean
CHECK_DEADLOCK FALSE
