\* V3 over TCP: one message, two retries, every schedule ends well.
SPECIFICATION FairSpec
CONSTANTS
    m1 = m1
    m2 = m2
    m3 = m3
    b1 = b1
    b2 = b2
    b3 = b3
    i1 = i1
    i2 = i2
    i3 = i3
    NoBatch = NoBatch
    NoID = NoID
    Msgs = {m1}
    Size <- UnitSize
    Batches = {b1}
    BatchIDs = {i1}
    IsV3 = TRUE
    IsTCP = TRUE
    BlockIfQueueIsFull = FALSE
    MaxPendingMessages = 1
    BatchingMaxMessages = 2
    BatchingMaxSize = 9
    MaxRetries = 2
    maxUDPReqSizeV1 = 3
    maxUDPReqSizeV3 = 2
    maxTCPReqSizeV1 = 3
    defaultMapCleanThreshold = 1
PROPERTIES
    QueuedIsCompleted
    CloseReturns
    NobodyStuck
    
\* A run ends when every message is completed and nobody closes the worker.
CHECK_DEADLOCK FALSE
