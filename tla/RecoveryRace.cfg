SPECIFICATION FairSpec
CONSTANTS
    o1 = o1
    primary = primary
    near = near
    far = far
    edge = edge
    Operations = {o1}
    Requests <- RaceRequests
    Controllers = {c1, c2}
    Artifacts = {a1}
    Targets = {primary, near, far, edge}
    Primary = primary
    Domain <- MCDomain
    Writable = {primary, near, far, edge}
    Rank <- MCRank
    MaxOpen = 1
    MaxFaults = 2
PROPERTIES OutcomesFinal OperationsEnd CertificatesReported
