SPECIFICATION Spec
CONSTANTS
    Tasks = {t1, t2, t3}
    Containers = {c1}
    Plans <- HybridPlans
    Offered <- ApiRequests
    Budget <- ApiTwice
    Faults <- AllFaults
SYMMETRY TaskSymmetry
INVARIANTS
    TypeOK
    GateOnReport
    NothingUnapproved
    Durable
    ActivePhaseHasDriver
CHECK_DEADLOCK FALSE
