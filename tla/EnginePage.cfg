SPECIFICATION FairSpec
CONSTANTS
    Tasks = {t1, t2, t3}
    Containers = {c1, c2}
    Plans <- EachMode
    Offered <- PatientRequests
    Budget <- PageTwice
    Faults <- EarlyFaults
INVARIANTS
    PurgedStaysClean
    ActiveFlagAgrees
    ReplicationIsKnown
    NoOrphanReplication
PROPERTIES
    LifecycleSpec
    StopEndsMonitor
    TerminalStays
CHECK_DEADLOCK FALSE
