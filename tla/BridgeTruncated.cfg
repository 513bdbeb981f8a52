SPECIFICATION Spec
CONSTANTS
    Batches = 7
    Capacity = 4
    CatchAll = FALSE
    Faults = {"other"}
INVARIANTS
    NeverTruncated
CHECK_DEADLOCK FALSE
