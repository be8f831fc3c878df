SPECIFICATION Spec
CONSTANTS
    Operations = {o1, o2, o3}
    Distributed = {o1}
    Datasets = {d1, d2}
    Snapshots = {s1, s2, s3}
    Partitions = {p1}
    Reducers = {r1}
    Digests = {x1}
    None = None
    SchemaVersion = 10
    MaxCrashes = 0
SYMMETRY Symmetry
INVARIANTS
    CatalogInv
    TablesAgree
PROPERTIES
    NoLostPublication
    RefinesLineage
CHECK_DEADLOCK FALSE
