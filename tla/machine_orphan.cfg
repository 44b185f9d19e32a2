SPECIFICATION Spec
CONSTANTS
    Machines = {m1}
    MaxFaults = 0
    MaxGen = 1
INVARIANT NoOrphanNode
CHECK_DEADLOCK FALSE
