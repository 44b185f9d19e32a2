SPECIFICATION FairSpec
CONSTANTS
    MaxUid = 3
    MaxFaults = 2
INVARIANTS
    TypeOK
    ReadyHasSecret
PROPERTIES
    EventuallyReady
    EventuallyCollected
CHECK_DEADLOCK FALSE
