SPECIFICATION Spec
CONSTANTS
    Tasks = {t1, t2}
    Containers = {c1}
    Plans <- NativeOneTime
    Offered <- PatientRequests
    Budget <- EachOnce
    Faults <- OnlyBackup
PROPERTIES
    FailedLoadEndsRun
CHECK_DEADLOCK FALSE
