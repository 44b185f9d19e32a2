SPECIFICATION Spec
CONSTANTS
    p1 = p1
    p2 = p2
    Pools = {p1}
    KwokName <- SameNames
    OwnerName <- SameNames
    MaxReplicas = 2
    Targets = {0, 1, 2}
    MaxEdits = 2
    MaxFaults = 0
PROPERTY OnlyExcessDeleted
CHECK_DEADLOCK FALSE
