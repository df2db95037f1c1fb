SPECIFICATION FairSpec
CONSTANTS
    Commands = {prune}
    Settings = {s1}
    Unset = Unset
    MaxRequests = 1
    MaxCrashes = 1
    MaxFaults = 1
PROPERTIES
    CommandAcked
    ScanServed
    KeepsScanning
