SPECIFICATION ServingSpec
CONSTANTS
    Datasets = {d}
    Snapshots = {1, 2}
    None = None
    Requests = {q1, q2}
    Barren = {2}
    MaxFaults = 1
INVARIANTS
    Chain
    ServingTypeOK
    AnswerIsWhole
    NoStaleAnswer
    SingleFlight
PROPERTIES
    QueriesEnd
CHECK_DEADLOCK FALSE
