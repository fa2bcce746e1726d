\* Two workers: OnClose against closeAll.
SPECIFICATION Spec
CONSTANTS
    w1 = w1
    w2 = w2
    c1 = c1
    c2 = c2
    c3 = c3
    NoConn = NoConn
    WorkerSeq <- TwoWorkers
    Conns = {c1, c2, c3}
    InitialConns = {c1, c2, c3}
    UpdateConnChanSize = 1
    MaxWrites = 1
SYMMETRY Symmetry
INVARIANTS
    NoEventLoopPanic
\* A client that is closed stops.
CHECK_DEADLOCK FALSE
