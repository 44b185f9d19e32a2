SPECIFICATION FairSpec
CONSTANTS
    Machines = {m1}
    MaxFaults = 0
    MaxGen = 1
PROPERTY DeletionIsBestEffort
CHECK_DEADLOCK FALSE
