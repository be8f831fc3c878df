SPECIFICATION Spec
CONSTANTS
    Operations = {o1}
    Distributed = {o1}
    Datasets = {d1}
    Snapshots = {s1}
    Partitions = {p1, p2}
    Reducers = {r1, r2}
    Digests = {x1, x2}
    None = None
    SchemaVersion = 10
    MaxCrashes = 1
SYMMETRY BuildSymmetry
INVARIANTS
    ActiveIsServable
    CertificateStandsOnBuild
    BuildInv
    ServingJobIsPublishable
    AuditIsHistory
PROPERTIES
    EvidenceIsFinal
CHECK_DEADLOCK FALSE
