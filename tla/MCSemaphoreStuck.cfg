\* Three goroutines, one permit, one context expires.
SPECIFICATION FairSpec
CONSTANTS
    p1 = p1
    p2 = p2
    p3 = p3
    p4 = p4
    Procs = {p1, p2, p3}
    maxPermits = 1
    MaxExpiries = 1
PROPERTIES
    ReleaseAlwaysReturns
