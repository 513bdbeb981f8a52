SPECIFICATION Spec
CONSTANTS
    Tasks = {t1, t2}
    Containers = {c1}
    Plans <- NativeHybrid
    Offered <- PatientRequests
    Budget <- EachOnce
    Faults <- OnlyLink
INVARIANTS
    RollbackRemovesReplication
CHECK_DEADLOCK FALSE
