SPECIFICATION Spec
CONSTANTS
    o1 = o1
    primary = primary
    near = near
    far = far
    edge = edge
    Operations = {o1, o2}
    Requests <- PairRequests
    Controllers = {c1}
    Artifacts = {a1}
    Targets = {primary, near, far, edge}
    Primary = primary
    Domain <- MCDomain
    Writable = {primary, near, far, edge}
    Rank <- MCRank
    MaxOpen = 2
    MaxFaults = 0
INVARIANTS RecoveryInv OfferedReplicasVerified ArtifactsStayAvailable RestoresHaveSources
    CopiesInDistinctDomains
