\* V1 over TCP: a message in flight while the worker closes.
SPECIFICATION FairSpec
CONSTANTS
    m1 = m1
    m2 = m2
    m3 = m3
    b1 = b1
    b2 = b2
    b3 = b3
    i1 = i1
    i2 = i2
    i3 = i3
    NoBatch = NoBatch
    NoID = NoID
    Msgs = {m1}
    Size <- UnitSize
    Batches = {b1}
    BatchIDs = {i1}
    IsV3 = FALSE
    IsTCP = TRUE
    BlockIfQueueIsFull = FALSE
    MaxPendingMessages = 1
    BatchingMaxMessages = 2
    BatchingMaxSize = 9
    MaxRetries = 1
    maxUDPReqSizeV1 = 3
    maxUDPReqSizeV3 = 2
    maxTCPReqSizeV1 = 3
    defaultMapCleanThreshold = 0
PROPERTIES
    QueuedIsCompleted
\* A run ends when every message is completed and nobody closes the worker.
CHECK_DEADLOCK FALSE
