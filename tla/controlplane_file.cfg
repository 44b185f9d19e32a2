SPECIFICATION FairSpec
CONSTANTS
    MaxGen = 1
    MaxFaults = 1
PROPERTY MissingFileIsWritten
CHECK_DEADLOCK FALSE
