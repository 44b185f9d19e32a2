SPECIFICATION FairSpec
CONSTANTS
    Machines = {m1}
    MaxFaults = 1
    MaxGen = 2
INVARIANTS
    TypeOK
    ProvisionedHasNode
    ProvisionedIsHeld
PROPERTIES
    ReleaseAfterNode
    NeverUnprovisioned
    EventuallyProvisioned
    EventuallyReleased
    HeartbeatGoesOn
CHECK_DEADLOCK FALSE
