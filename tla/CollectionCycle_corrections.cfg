SPECIFICATION Spec
CONSTANTS
    Artifacts = {"process", "connection"}
    Streams = {"flows"}
    Order <- OneCollector
    CollectorOf <- MCCollectorOf
    MinRuns = 1
    MaxRuns = 2
    MaxFaults = 0
    MaxCorrections = 2
    MaxCommands = 1
INVARIANTS
    CorrectionHolds
