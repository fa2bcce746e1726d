\* Two setups in one state space: Wide and Aging.
SPECIFICATION Spec
CONSTANTS
    a1 = a1
    a2 = a2
    c1 = c1
    c2 = c2
    u1 = u1
    u2 = u2
    NoAddr = NoAddr
    NoConn = NoConn
    NoUser = NoUser
    Addrs = {a1, a2}
    Conns = {c1, c2}
    Users = {u1, u2}
    connsPerEndpoint = 1
    CmdChanSize = 1
    Setups <- WideAndAging
SYMMETRY Symmetry
INVARIANTS
    TypeOK
    CountsExact
    OpenIsCounted
    IdleIsListed
    ConnHasOneOwner
    NoOpenConnLost
    NoPutStranded
\* A run ends when the pool is closed.
CHECK_DEADLOCK FALSE
