SPECIFICATION Spec
CONSTANTS
    Pids = {p1, p2}
    p1 = p1
    p2 = p2
    Programs = {x, y}
    x = x
    y = y
    NameOf <- SharedName
    None = None
    MaxRelated = 1
    MaxRelatedDns = 6
    MaxRuns = 3
    MaxSpawns = 2
    MaxFaults = 1
    MaxResets = 1
SYMMETRY Symmetry
CHECK_DEADLOCK FALSE
INVARIANTS
    ContextIsOwnAndWhole
