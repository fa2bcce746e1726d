\* Four goroutines, two permits, at most two contexts expire.
SPECIFICATION FairSpec
CONSTANTS
    p1 = p1
    p2 = p2
    p3 = p3
    p4 = p4
    Procs = {p1, p2, p3, p4}
    maxPermits = 2
    MaxExpiries = 2
INVARIANTS
    TypeOK
    PermitsAccounted
    HoldersBounded
    EveryHandOverHasTaker
PROPERTIES
    ReleaseReturns
