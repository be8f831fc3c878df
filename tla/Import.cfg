SPECIFICATION FairSpec
CONSTANTS
    Activation = 5
    Roots = {1, 3, 5}
    Awaited = {4}
    Collectable = {"complete", "failed"}
    MaxCollections = 2
    MaxFaults = 2
INVARIANTS
    ImportInv
    StageBarrier
    DeletionLeavesOneStage
PROPERTIES
    SucceededIsFinal
    CompletesUnlessCollected
    DeletionCompletes
CHECK_DEADLOCK FALSE
