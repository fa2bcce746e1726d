\* V3 over TCP: the messages share the batch object, or the second reuses it.
SPECIFICATION Spec
CONSTANTS
    m1 = m1
    m2 = m2
    m3 = m3
    b1 = b1
    b2 = b2
    b3 = b3
    i1 = i1
    i2 = i2
    i3 = i3
    NoBatch = NoBatch
    NoID = NoID
    Msgs = {m1, m2}
    Size <- UnitSize
    Batches = {b1}
    BatchIDs = {i1, i2}
    IsV3 = TRUE
    IsTCP = TRUE
    BlockIfQueueIsFull = FALSE
    MaxPendingMessages = 2
    BatchingMaxMessages = 2
    BatchingMaxSize = 9
    MaxRetries = 1
    maxUDPReqSizeV1 = 3
    maxUDPReqSizeV3 = 2
    maxTCPReqSizeV1 = 3
    defaultMapCleanThreshold = 0
SYMMETRY Symmetry
INVARIANTS
    TypeOK
    BatchHasOneOwner
    MessageHasOneHome
    PermitsConserved
    TransmissionsBounded
    SuccessMeansAcked
    ClosedMeansCompleted
\* A run ends when every message is completed and nobody closes the worker.
CHECK_DEADLOCK FALSE
