SPECIFICATION FairSpec
CONSTANTS
    p1 = p1
    p2 = p2
    Pools = {p1}
    KwokName <- SameNames
    OwnerName <- SameNames
    MaxReplicas = 2
    Targets = {1, 2}
    MaxEdits = 2
    MaxFaults = 1
INVARIANTS
    TypeOK
    NeverOvershoots
    ScaleDownBounded
PROPERTIES
    EventuallyReady
    EventuallyShrinks
    EventuallyDeleted
CHECK_DEADLOCK FALSE
