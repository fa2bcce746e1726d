\* Start-up, two hosts that come and go, two workers, Close; two responses, cut
\* anywhere; a worker, two connections at a time.
SPECIFICATION MCSpec
CONSTANTS
    h1 = h1
    h2 = h2
    w1 = w1
    c1 = c1
    c2 = c2
    NoConn = NoConn
    Hosts = {h1, h2}
    WorkersToStart = 2
    NumWorkers = 2
    MaxFrames = 2
    Cfgs <- MCCfgs
    HeaderLen = 5
    Rsps <- MCRsps
    Base = 2
    Half = 128
    WorkerSeq <- OneWorker
    Conns = {c1, c2}
    InitialConns = {c1, c2}
    UpdateConnChanSize = 1
    MaxWrites = 1
INVARIANTS
    CleanShutdown
    PoolFollowsDiscoverer
    FramesInOrder
    NoFrameLeft
PROPERTIES
    CloseReturns
    PoolProtocol
    DeadIsReplaced
    
\* A client that is closed, or a process that has panicked, stops.
CHECK_DEADLOCK FALSE
