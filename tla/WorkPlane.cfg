SPECIFICATION Spec
CONSTANTS
    big = big
    small = small
    Workloads = {big, small}
    Workers = {k1, k2}
    Total = 3
    Owner <- TwoWorkloads
    MaxAttempts = 2
    AmbiguousClaim = FALSE
    MaxFaults = 1
    None = None
INVARIANTS
    WorkInv
    CompleteIsWhole
    ResultOfLastLease
    CancelledStops
PROPERTIES
    OnlyRenewalsRefused
CHECK_DEADLOCK FALSE
