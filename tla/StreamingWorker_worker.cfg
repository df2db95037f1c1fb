SPECIFICATION FairSpec
CONSTANTS
    BatchSize = 2
    FlushInterval = 1
    HealthyReset = 2
    BaseDelay = 1
    MaxDelay = 2
    EscalateAt = 2
    MaxRows = 3
    MaxCrashes = 2
    MaxFaults = 1
    MaxKills = 1
INVARIANTS
    StoredOnceInOrder
    RowCountTrue
    ErrorsMeanFlapping
PROPERTIES
    RowsKept
    CrashRestarts
    StopEnds
