SPECIFICATION FairSpec
CONSTANTS
    p1 = p1
    p2 = p2
    Pools = {p1}
    KwokName <- SameNames
    OwnerName <- SameNames
    MaxReplicas = 2
    Targets = {0, 1, 2}
    MaxEdits = 1
    MaxFaults = 1
PROPERTY MissingAreCreated
CHECK_DEADLOCK FALSE
