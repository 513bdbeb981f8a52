SPECIFICATION Spec
CONSTANTS
    PlannedConcurrency = 8
    BatchSize = 3
    Batches = 6
    Horizon = 6
    WindowLength = 3
    MinSamples = 2
    ErrorPercent = 10
    Cooldown = 3
    MaxAttempts = 2
    StallWindow = 2
    StallRate = 10
    DegradedWindow = 2
    DegradedMinPeak = 20
INVARIANTS
    TypeOK
    FlightsBounded
    DescentIsSlow
PROPERTIES
    RestsOnNewBatches
CHECK_DEADLOCK FALSE
