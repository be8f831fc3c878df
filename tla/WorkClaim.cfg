SPECIFICATION FairSpec
CONSTANTS
    big = big
    small = small
    Workloads = {big}
    Workers = {k1, k2}
    Total = 2
    Owner <- OneWorkload
    MaxAttempts = 2
    AmbiguousClaim = TRUE
    MaxFaults = 1
    None = None
PROPERTIES
    WorkIsLeased
CHECK_DEADLOCK FALSE
