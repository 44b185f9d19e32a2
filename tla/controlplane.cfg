SPECIFICATION FairSpec
CONSTANTS
    MaxGen = 2
    MaxFaults = 1
INVARIANTS
    TypeOK
    NoOrphanCluster
    AccessIsCurrent
    PublishedIsInstalled
PROPERTIES
    ImplementsWorkload
    ImplementsRelay
    PublishedIsKept
    EventuallyReady
    EventuallyPublished
    EventuallyDeleted
    EndpointCopied
    StoppedIsRestarted
CHECK_DEADLOCK FALSE
