\* V3 over UDP: a datagram holds one message, so there are two batches.
SPECIFICATION Spec
CONSTANTS
    m1 = m1
    m2 = m2
    m3 = m3
    b1 = b1
    b2 = b2
    b3 = b3
    i1 = i1
    i2 = i2
    i3 = i3
    NoBatch = NoBatch
    NoID = NoID
    Msgs = {m1, m2}
    Size <- UnitSize
    Batches = {b1, b2}
    BatchIDs = {i1, i2}
    IsV3 = TRUE
    IsTCP = FALSE
    BlockIfQueueIsFull = FALSE
    MaxPendingMessages = 2
    BatchingMaxMessages = 2
    BatchingMaxSize = 9
    MaxRetries = 1
    maxUDPReqSizeV1 = 3
    maxUDPReqSizeV3 = 1
    maxTCPReqSizeV1 = 3
    defaultMapCleanThreshold = 0
SYMMETRY Symmetry
INVARIANTS
    ClosedMeansCompleted
\* A run ends when every message is completed and nobody closes the worker.
CHECK_DEADLOCK FALSE
