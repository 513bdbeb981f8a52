SPECIFICATION Spec
CONSTANTS
    Tasks = {t1, t2}
    Containers = {c1}
    Plans <- OneTime
    Offered <- PageRequests
    Budget <- TwoStarts
    Faults <- NoFaults
INVARIANTS
    OneRun
CHECK_DEADLOCK FALSE
