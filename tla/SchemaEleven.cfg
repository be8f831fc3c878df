SPECIFICATION ControlFairSpec
CONSTANTS
    Operations = {o1, o2}
    Distributed = {o1}
    Datasets = {d1}
    Snapshots = {s1}
    Partitions = {p1}
    Reducers = {r1}
    Digests = {x1}
    None = None
    SchemaVersion = 11
    MaxCrashes = 1
    MaxOperations = 1
    MaxJobs = 1
    MaxRestarts = 1
    MaxFaults = 1
PROPERTIES CompilationSettles
CHECK_DEADLOCK FALSE
