SPECIFICATION FairSpec
CONSTANTS
    c1 = c1
    c2 = c2
    Clusters <- MCClusters
    SpecsOf <- MCSpecsOf
    MaxEndpoint <- MCMaxEndpoint
    MaxChanges <- MCMaxChanges
    Others = {"broken", "unknown"}
    Endpoints = 2
    Changes = 2
    MaxFaults = 1
INVARIANTS
    TypeOK
    NoneForgotten
PROPERTIES
    EndpointNeverGoesBack
    ImplementsRelay
    EndpointArrives
CHECK_DEADLOCK FALSE
