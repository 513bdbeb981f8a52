SPECIFICATION FairSpec
CONSTANTS
    Tasks = {t1, t2}
    Containers = {c1}
    Plans <- StreamOnly
    Offered <- PatientRequests
    Budget <- EachOnce
    Faults <- NoFaults
PROPERTIES
    StopEndsEveryMonitor
CHECK_DEADLOCK FALSE
