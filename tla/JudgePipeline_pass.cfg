SPECIFICATION Spec
CONSTANTS
    Artifacts = {"a", "b", "c", "d"}
    BatchSize = 2
    MaxPerCollector = 3
    MaxVerify = 1
    MaxInvestigate = 1
    HasVerifier = TRUE
    HasInvestigator = TRUE
    MaxFaults = 1
CHECK_DEADLOCK FALSE
INVARIANTS
    JudgmentsAreWhatWasSaid
    MaliciousWasChecked
    RevisedOnlyAsAllowed
PROPERTIES
    EventuallyJudged
