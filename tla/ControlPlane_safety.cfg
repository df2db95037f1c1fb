SYMMETRY Symmetry
SPECIFICATION Spec
CONSTANTS
    Commands = {prune, rejudge}
    Settings = {s1, s2}
    Unset = Unset
    MaxRequests = 2
    MaxCrashes = 1
    MaxFaults = 1
INVARIANTS
    CommandRunAsQueued
    AckTellsWhatRan
    OnceUnlessInterrupted
    LostScanIsDue
    PauseObeyedWhenRead
    IntentKept
PROPERTIES
    CommandTriggerSpec
