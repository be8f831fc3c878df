SPECIFICATION FairSpec
CONSTANTS
    Activation = 7
    Roots = {1, 3, 6, 7}
    Awaited = {5}
    Collectable = {"complete"}
    MaxCollections = 1
    MaxFaults = 0
PROPERTIES
    ImportCompletes
CHECK_DEADLOCK FALSE
