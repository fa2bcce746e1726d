\* V1 over TCP and over UDP, where two messages need a datagram each and one fits none.
SPECIFICATION V1Spec
CONSTANTS
    m1 = m1
    m2 = m2
    m3 = m3
    b1 = b1
    b2 = b2
    b3 = b3
    i1 = i1
    i2 = i2
    i3 = i3
    NoBatch = NoBatch
    NoID = NoID
    Msgs = {m1, m2, m3}
    Size <- MixedSize
    Batches = {b1, b2}
    BatchIDs = {i1, i2}
    IsV3 = FALSE
    IsTCP = TRUE
    BlockIfQueueIsFull = FALSE
    MaxPendingMessages = 2
    BatchingMaxMessages = 2
    BatchingMaxSize = 9
    MaxRetries = 1
    maxUDPReqSizeV1 = 2
    maxUDPReqSizeV3 = 2
    maxTCPReqSizeV1 = 3
    defaultMapCleanThreshold = 0
SYMMETRY BatchSymmetry
INVARIANTS
    MessageHasOneHome
    PermitMeansRoom
    BatchReachable
    UDPClosedMeansCompleted
    UDPBatchFits
\* A run ends when every message is completed and nobody closes the worker.
CHECK_DEADLOCK FALSE
