SPECIFICATION Spec
CONSTANTS
    Machines = {m1, m2}
    Concurrency = 1
    Period = 2
    Duration = 5
    ResyncPeriod = 4
    Latency = 1
    Backoff = 3
    MaxFaults = 1
SYMMETRY Symmetry
INVARIANTS
    TypeOK
    LeaseAgeBounded
    LeaseKeptAlive
    HeartbeatRecovers
CHECK_DEADLOCK FALSE
