SPECIFICATION Spec
CONSTANTS
    Tasks = {t1, t2}
    Containers = {c1}
    Plans <- LiveOnly
    Offered <- PageRequests
    Budget <- EachOnce
    Faults <- OnlyMonitor
PROPERTIES
    TerminalStays
CHECK_DEADLOCK FALSE
