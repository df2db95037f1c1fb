SPECIFICATION Spec
CONSTANTS
    Artifacts = {"process", "agent"}
    Streams = {}
    Order <- TwoCollectors
    CollectorOf <- MCCollectorOf
    MaxRuns = 3
    MaxFaults = 1
    MaxCorrections = 0
    MaxCommands = 1
    MinRuns = 1
CHECK_DEADLOCK FALSE
INVARIANTS
    ActiveWasObserved
    ObservedIsActive
    NovelWasAbsent
    SteadyIsNotIntermittent
PROPERTIES
    StatusFollowsTheCycle
