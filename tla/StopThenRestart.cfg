SPECIFICATION FairSpec
CONSTANTS
    Tasks = {t1, t2}
    Containers = {c1}
    Plans <- LiveOnly
    Offered <- RestartingRequests
    Budget <- TwoRuns
    Faults <- NoFaults
PROPERTIES
    StopEndsMonitor
CHECK_DEADLOCK FALSE
