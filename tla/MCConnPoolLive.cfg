\* One endpoint, one user: Get and Close come back.
SPECIFICATION FairSpec
CONSTANTS
    a1 = a1
    a2 = a2
    c1 = c1
    c2 = c2
    u1 = u1
    u2 = u2
    NoAddr = NoAddr
    NoConn = NoConn
    NoUser = NoUser
    Addrs = {a1}
    Conns = {c1, c2}
    Users = {u1}
    connsPerEndpoint = 1
    CmdChanSize = 1
    Setups <- OnlySmall
PROPERTIES
    
    GetReturns
    CloseReturns
\* A run ends when the pool is closed.
CHECK_DEADLOCK FALSE
