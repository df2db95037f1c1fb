SPECIFICATION LaunchSpec
CONSTANTS
    Instances <- RaceInstances
    MaxCrashes = 1
    HostsFiles <- MCHostsFiles
    Accesses <- MCAccesses
    UserLines <- MCUserLines
    MaxEdits = 1
    MaxCommands = 2
CHECK_DEADLOCK FALSE
INVARIANTS
    RaceIsBenign
