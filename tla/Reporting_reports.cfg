SPECIFICATION Spec
CONSTANTS
    Findings = {a, b}
    a = a
    b = b
    Observations <- MCObservations
    Rulesets <- MCRulesets
    None = None
    MaxCycles = 3
    MaxFaults = 1
    MaxKills = 1
CHECK_DEADLOCK FALSE
INVARIANTS
    ReportsAreCurrent
