SPECIFICATION Spec
CONSTANTS
    c1 = c1
    c2 = c2
    Containers <- MCContainers
    Names <- MCNames
    Sanitize <- MCSanitize
    NameOf <- MCNameOf
    Counts <- MCCounts
    Cases <- Naming
INVARIANTS
    NamingAgrees
CHECK_DEADLOCK FALSE
