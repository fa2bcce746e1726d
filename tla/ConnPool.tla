------------------------------ MODULE ConnPool ------------------------------
(***************************************************************************)
(* The connection pool of connpool/connpool.go.  One goroutine (innerWork) *)
(* owns the bookkeeping and serves the commands of cmdCh; the users of the *)
(* pool, gnet's event loop (OnConnClosed), the discoverer                  *)
(* (UpdateEndpoints), the goroutines of startDial and the goroutine in     *)
(* Close send it commands.  A handler is one action; a goroutine that      *)
(* checks p.closed and sends on cmdCh later takes two.                     *)
(*                                                                         *)
(* A member of Conns is a gnet connection from the startDial that creates  *)
(* it until nothing refers to it any more (Collect), when its name may be  *)
(* used for another one.  Time is abstract: the lifetime of a connection   *)
(* and the backoff of recover may run out at any moment.  Round-robin is   *)
(* abstract too: getEndpoint returns any available endpoint.               *)
(***************************************************************************)
EXTENDS Integers, Sequences, FiniteSets, Functions

CONSTANTS
    Addrs, NoAddr,      \* the endpoints that may exist, and ""
    Conns, NoConn,      \* connections, and nil
    Users, NoUser,      \* goroutines that call Get and Put, and no reply channel
    connsPerEndpoint,
    CmdChanSize,        \* defaultCmdChanSize
    Setups              \* how the pool may be set up and used

\* NewConnPool's initEndpoints, size (limit of idleConns) and maxConnLifetime > 0; what
\* the discoverer may report, whether gnet closes connections with an error or without,
\* who calls Get and whether somebody calls Close.
Setup ==
    [initEndpoints : SUBSET Addrs \ {{}}, size : Nat \ {0}, hasLifetime : BOOLEAN,
     reports : SUBSET SUBSET Addrs, closeErrors : SUBSET BOOLEAN, callers : SUBSET Users,
     closes : BOOLEAN]

ASSUME ConstantsAssumption ==
    /\ IsFiniteSet(Addrs) /\ IsFiniteSet(Conns)
    /\ NoAddr \notin Addrs /\ NoConn \notin Conns /\ NoUser \notin Users
    /\ connsPerEndpoint \in Nat \ {0} /\ CmdChanSize \in Nat \ {0}
    /\ Setups \subseteq Setup

VARIABLES
    setup,               \* the one of this behaviour
    closed, closeDone,   \* p.closed, and whether p.closeDone is closed
    pool,                \* innerWork: "run", "drain" or "stopped"
    closer,              \* the goroutine in Close
    cmdCh,
    enqueuing,           \* commands admitted by enqueue (enqueueWG), not yet in cmdCh
    endpoints, unavailable,
    idle,                \* idleConns
    counted, counts,     \* keys of countedConns, endpointConnCounts
    pending,             \* pendingDials
    conn,                \* what gnet knows of the connection
    addr, old,           \* its ConnContext: Endpoint, and CreatedAt is too long ago
    dial, asker,         \* the goroutine of startDial, and whose reply channel it has
    user, holds,         \* the users, and the connection each has got from Get
    reply                \* the users' reply channels: nil, an error or a connection

poolVars == <<endpoints, unavailable, idle, counted, counts>>
dialVars == <<pending, addr, dial, asker>>
userVars == <<user, holds, reply>>
closeVars == <<closed, closeDone, pool, closer>>
vars == <<setup, poolVars, dialVars, userVars, closeVars, cmdCh, enqueuing, conn, old>>

\* absent    no connection (yet), or the dial failed
\* open
\* dying     CloseConn was called, now or after a delay
\* closed    OnClose has run
\* released  the event loop has released it: SafeContext() is nil
ConnStates == {"absent", "open", "dying", "closed", "released"}

\* dialing   in Dial
\* dialed    Dial has returned, p.closed is checked next
\* reporting in the select that sends the dialResult command
\* sent      the dialResult command is in cmdCh
DialStates == {"none", "dialing", "dialed", "reporting", "sent"}

GetCmd(u) == [kind |-> "get", user |-> u]
PutCmd(c, err) == [kind |-> "put", conn |-> c, err |-> err]
UpdateCmd(all) == [kind |-> "update", all |-> all]
ClosedCmd(c, err) == [kind |-> "connClosed", conn |-> c, err |-> err]
DialCmd(c) == [kind |-> "dialResult", conn |-> c]
CloseCmd == [kind |-> "close"]

Room == Len(cmdCh) < CmdChanSize
Elems(s) == {s[i] : i \in DOMAIN s}
Queued == Elems(cmdCh) \cup enqueuing
Carries(cmd, c) == cmd.kind \in {"put", "connClosed", "dialResult"} /\ cmd.conn = c

Required == Cardinality(setup.initEndpoints) * connsPerEndpoint
Of(S, a) == {c \in S : addr[c] = a}

\* NewConnPool and initConns: one connection at least, endpoints that could not
\* be dialled are unavailable (a single one never is) and the others share the
\* required number.
Init ==
    /\ setup \in Setups
    /\ closed = FALSE /\ closeDone = FALSE /\ pool = "run" /\ closer = "idle"
    /\ cmdCh = <<>> /\ enqueuing = {}
    /\ endpoints = setup.initEndpoints
    /\ \E n \in 1..Required :
         \E f \in [1..n -> setup.initEndpoints], s \in [1..n -> Conns] :
            /\ \A i, j \in 1..n : s[i] = s[j] => i = j
            /\ idle = s
            /\ counted = Elems(s)
            /\ addr = [c \in Conns |-> IF c \in Elems(s) THEN f[CHOOSE i \in 1..n : s[i] = c] ELSE NoAddr]
            /\ counts = [a \in Addrs |-> Cardinality(Of(Elems(s), a))]
            /\ IF Cardinality(setup.initEndpoints) = 1
                 THEN unavailable = {}
                 ELSE /\ unavailable \in SUBSET setup.initEndpoints
                      /\ \A a \in setup.initEndpoints \ unavailable : counts[a] >= connsPerEndpoint
                      /\ \/ n = Required - Cardinality(unavailable)
                         \/ unavailable = setup.initEndpoints /\ n < Required - Cardinality(unavailable)
    /\ conn = [c \in Conns |-> IF c \in counted THEN "open" ELSE "absent"]
    /\ old = {}
    /\ pending = [a \in Addrs |-> 0]
    /\ dial = [c \in Conns |-> "none"]
    /\ asker = [c \in Conns |-> NoUser]
    /\ user = [u \in Users |-> "idle"]
    /\ holds = [u \in Users |-> NoConn]
    /\ reply = [u \in Users |-> "nil"]

-----------------------------------------------------------------------------
\* What the handlers of innerWork are made of.

GetRemoteAddr(c) == IF conn[c] = "released" THEN NoAddr ELSE addr[c]
Expired(c) == c \in old /\ conn[c] # "released"
IsConnUsable(c) == GetRemoteAddr(c) \in endpoints /\ ~Expired(c)

\* Mutant: an endpoint that is not in the list any more is marked as well.
MarkUnavailableAny(a) == unavailable \cup {a}

\* markUnavailable: only an endpoint of the list, and never the only one.
MarkUnavailable(a) ==
    IF a \in endpoints /\ Cardinality(endpoints) > 1 THEN unavailable \cup {a} ELSE unavailable

\* Mutant: the connections are not closed.
CloseConnForgotten(S) == conn

\* CloseConn on the connections of S; closing a closed one does nothing.
CloseConn(S) == [c \in Conns |-> IF c \in S /\ conn[c] = "open" THEN "dying" ELSE conn[c]]

Floor0(n) == IF n < 0 THEN 0 ELSE n

\* Mutant: a connection that is not counted any more is subtracted again.
CountsWithoutGuard(S) == [a \in Addrs |-> Floor0(counts[a] - Cardinality(Of(S, a)))]

\* decEndpointConnCount for each connection of S that is still counted.
CountsWithout(S) == [a \in Addrs |-> Floor0(counts[a] - Cardinality(Of(S \cap counted, a)))]
CountedWithout(S) == counted \ S

\* closeCountedConn for each connection of S.
CloseCounted(S) ==
    /\ counted' = CountedWithout(S)
    /\ counts' = CountsWithout(S)
    /\ conn' = CloseConn(S)

\* startDial, need[a] times for each endpoint a, u waiting for the result.
\* pend, dials and askers are pendingDials and the dial goroutines before.
Once(a) == [x \in Addrs |-> IF x = a THEN 1 ELSE 0]
Nowhere == [x \in Addrs |-> 0]
Unused == {c \in Conns : conn[c] = "absent" /\ dial[c] = "none"}
StartDial(need, u, pend, dials, askers) ==
    LET new == IF closed THEN Nowhere ELSE need
    IN  \E D \in {S \in SUBSET Unused : Cardinality(S) = SumFunction(new)} : \E f \in [D -> Addrs] :
        /\ \A a \in Addrs : Cardinality({c \in D : f[c] = a}) = new[a]
        /\ pending' = [a \in Addrs |-> pend[a] + new[a]]
        /\ addr' = [c \in Conns |-> IF c \in D THEN f[c] ELSE addr[c]]
        /\ dial' = [c \in Conns |-> IF c \in D THEN "dialing" ELSE dials[c]]
        /\ asker' = [c \in Conns |-> IF c \in D THEN u ELSE askers[c]]

\* A dial that is over without a connection leaves nothing behind.
AddrAfterDial(c) == IF conn[c] = "absent" THEN [addr EXCEPT ![c] = NoAddr] ELSE addr

\* Mutant: with the pool full the connection is dropped without being closed.
StoreIdleDrops(c) ==
    IF Len(idle) >= setup.size
      THEN UNCHANGED <<idle, counted, counts, conn>>
      ELSE idle' = Append(idle, c) /\ UNCHANGED <<counted, counts, conn>>

\* storeIdleConn
StoreIdle(c) ==
    IF Len(idle) >= setup.size
      THEN CloseCounted({c}) /\ UNCHANGED idle
      ELSE idle' = Append(idle, c) /\ UNCHANGED <<counted, counts, conn>>

\* handleGet: pop idle connections until one is usable, else dial.  The
\* connections of X are closed as well, without being counted.
ServeGet(u, pend, dials, askers, X) ==
    LET usable == {i \in DOMAIN idle : IsConnUsable(idle[i])}
        first == CHOOSE i \in usable : \A j \in usable : i <= j
        popped == IF usable = {} THEN Elems(idle) ELSE {idle[i] : i \in 1..(first - 1)}
    IN  /\ counted' = CountedWithout(popped)
        /\ counts' = CountsWithout(popped)
        /\ conn' = CloseConn(popped \cup X)
        /\ IF usable # {}
             THEN /\ idle' = SubSeq(idle, first + 1, Len(idle))
                  /\ reply' = [reply EXCEPT ![u] = idle[first]]
                  /\ StartDial(Nowhere, NoUser, pend, dials, askers)
             ELSE /\ idle' = <<>>
                  /\ IF endpoints \subseteq unavailable
                       THEN /\ reply' = [reply EXCEPT ![u] = "error"]
                            /\ StartDial(Nowhere, NoUser, pend, dials, askers)
                       ELSE /\ \E a \in endpoints \ unavailable : StartDial(Once(a), u, pend, dials, askers)
                            /\ UNCHANGED reply

\* getExpectedConnPerEndpoint, on the values it meets when it is called.
ExpectedConnPerEndpoint(eps, unav, cts) ==
    LET cur == SumFunction(cts)
        available == Cardinality(eps) - Cardinality(unav \cap eps)
        estimated == cur \div available
        average == ((cur + Required) \div 2) \div available
        least(x, y) == IF x < y THEN x ELSE y
        most(x, y) == IF x > y THEN x ELSE y
    IN  IF cur <= 0 \/ available <= 0 THEN 1
        ELSE most(1, IF estimated < connsPerEndpoint THEN least(estimated, average)
                                                     ELSE most(connsPerEndpoint, average))

\* rebalance: the connections it closes and the dials it starts.
Surplus(eps, unav, idl, cts) ==
    LET expected == ExpectedConnPerEndpoint(eps, unav, cts)
        sameAddr(i) == {j \in 1..i : GetRemoteAddr(idl[j]) = GetRemoteAddr(idl[i])}
    IN  {idl[i] : i \in {k \in DOMAIN idl :
            /\ GetRemoteAddr(idl[k]) # NoAddr
            /\ Cardinality(sameAddr(k)) <= cts[GetRemoteAddr(idl[k])] - expected}}
Shortage(eps, unav, cts) ==
    [a \in Addrs |->
        IF a \in eps \ unav
          THEN Floor0(ExpectedConnPerEndpoint(eps, unav, cts) - cts[a] - pending[a])
          ELSE 0]

Without(s, S) == SelectSeq(s, LAMBDA c : c \notin S)
Plus(f, g) == [a \in Addrs |-> f[a] + g[a]]

-----------------------------------------------------------------------------
\* innerWork serves the command at the head of cmdCh.

Serve(kind) ==
    /\ pool = "run"
    /\ cmdCh # <<>>
    /\ Head(cmdCh).kind = kind
    /\ cmdCh' = Tail(cmdCh)
    /\ UNCHANGED <<setup, enqueuing, old>>

\* With the pool closed the answer is ErrPoolClosed.
HandleGet ==
    /\ Serve("get")
    /\ IF closed
         THEN /\ reply' = [reply EXCEPT ![Head(cmdCh).user] = "error"]
              /\ UNCHANGED <<idle, counted, counts, conn, dialVars>>
         ELSE ServeGet(Head(cmdCh).user, pending, dial, asker, {})
    /\ UNCHANGED <<endpoints, unavailable, user, holds, closeVars>>

\* putConn(conn, err, false)
HandlePut ==
    LET c == Head(cmdCh).conn
        a == GetRemoteAddr(c)
    IN  /\ Serve("put")
        /\ IF a = NoAddr
             THEN UNCHANGED <<idle, unavailable, counted, counts, conn, dialVars>>
           ELSE IF a \notin endpoints
             THEN CloseCounted({c}) /\ UNCHANGED <<idle, unavailable, dialVars>>
           ELSE IF Head(cmdCh).err
             THEN /\ unavailable' = MarkUnavailable(a)
                  /\ CloseCounted({c})
                  /\ UNCHANGED <<idle, dialVars>>
           ELSE IF Expired(c)
             THEN /\ CloseCounted({c})
                  /\ StartDial(Once(a), NoUser, pending, dial, asker)
                  /\ UNCHANGED <<idle, unavailable>>
           ELSE StoreIdle(c) /\ UNCHANGED <<unavailable, dialVars>>
        /\ UNCHANGED <<endpoints, userVars, closeVars>>

\* Mutant: connections to deleted endpoints stay idle.
DeletedNone(eps) == {}

\* The idle connections that removeDeletedEndpointConns closes.
Deleted(eps) == {c \in Elems(idle) : GetRemoteAddr(c) \notin eps}

\* removeDeletedEndpointConns, then rebalance (the discoverer only reports
\* changes, so add or del is not empty).
HandleUpdateEndpoints ==
    LET eps == Head(cmdCh).all
        unav == unavailable \cap eps
        deleted == Deleted(eps)
        left == Without(idle, deleted)
        surplus == Surplus(eps, unav, left, CountsWithout(deleted))
    IN  /\ Serve("update")
        /\ endpoints' = eps
        /\ unavailable' = unav
        /\ idle' = Without(left, surplus)
        /\ CloseCounted(deleted \cup surplus)
        /\ StartDial(Shortage(eps, unav, CountsWithout(deleted)), NoUser, pending, dial, asker)
        /\ UNCHANGED <<userVars, closeVars>>

\* handleConnClosed, with the address that OnConnClosed has captured.
HandleConnClosed ==
    LET c == Head(cmdCh).conn
    IN  /\ Serve("connClosed")
        /\ unavailable' = IF Head(cmdCh).err THEN MarkUnavailable(addr[c]) ELSE unavailable
        /\ counted' = CountedWithout({c})
        /\ counts' = CountsWithout({c})
        /\ idle' = Without(idle, {c})
        /\ UNCHANGED <<endpoints, conn, dialVars, userVars, closeVars>>

\* pendingDials without the dial of c.
PendingAfter(c) == [pending EXCEPT ![addr[c]] = Floor0(@ - 1)]

\* handleDialResult
HandleDialResult ==
    LET c == Head(cmdCh).conn
        u == asker[c]
        pend == PendingAfter(c)
        dials == [dial EXCEPT ![c] = "none"]
        answer(x) == IF u = NoUser THEN reply ELSE [reply EXCEPT ![u] = x]
        askers == [asker EXCEPT ![c] = NoUser]
        dialOver == pending' = pend /\ dial' = dials /\ asker' = askers /\ addr' = AddrAfterDial(c)
    IN  /\ Serve("dialResult")
        /\ IF closed
             THEN /\ conn' = CloseConn({c})
                  /\ reply' = answer("error")
                  /\ dialOver
                  /\ UNCHANGED <<idle, unavailable, counted, counts>>
           ELSE IF conn[c] = "absent"
             THEN /\ unavailable' = MarkUnavailable(addr[c])
                  /\ reply' = answer("error")
                  /\ dialOver
                  /\ UNCHANGED <<idle, counted, counts, conn>>
           ELSE IF addr[c] \notin endpoints
             THEN /\ IF u = NoUser \/ endpoints \subseteq unavailable
                       THEN /\ conn' = CloseConn({c})
                            /\ reply' = answer("error")
                            /\ dialOver
                            /\ UNCHANGED <<idle, counted, counts>>
                       ELSE ServeGet(u, pend, dials, askers, {c})
                  /\ UNCHANGED unavailable
           ELSE /\ unavailable' = unavailable \ {addr[c]}
                /\ reply' = answer(c)
                /\ dialOver
                /\ IF u = NoUser /\ Len(idle) >= setup.size
                     THEN conn' = CloseConn({c}) /\ UNCHANGED <<idle, counted, counts>>
                     ELSE /\ counted' = counted \cup {c}
                          /\ counts' = IF c \in counted THEN counts ELSE [counts EXCEPT ![addr[c]] = @ + 1]
                          /\ idle' = IF u = NoUser THEN Append(idle, c) ELSE idle
                          /\ UNCHANGED conn
        /\ UNCHANGED <<endpoints, user, holds, closeVars>>

\* The close command: closeDone first, then the idle connections.
HandleClose ==
    /\ Serve("close")
    /\ closeDone' = TRUE
    /\ CloseCounted(Elems(idle))
    /\ idle' = <<>>
    /\ pool' = "drain"
    /\ UNCHANGED <<endpoints, unavailable, dialVars, userVars, closed, closer>>

\* drainCmdChOnClose, one command per step.
Drain ==
    LET cmd == Head(cmdCh)
        waiting == CASE cmd.kind = "get" -> cmd.user
                     [] cmd.kind = "dialResult" -> asker[cmd.conn]
                     [] OTHER -> NoUser
    IN  /\ pool = "drain"
        /\ cmdCh # <<>>
        /\ cmdCh' = Tail(cmdCh)
        /\ conn' = IF cmd.kind \in {"put", "dialResult"} THEN CloseConn({cmd.conn}) ELSE conn
        /\ IF cmd.kind = "dialResult"
             THEN /\ dial' = [dial EXCEPT ![cmd.conn] = "none"]
                  /\ asker' = [asker EXCEPT ![cmd.conn] = NoUser]
                  /\ addr' = AddrAfterDial(cmd.conn)
             ELSE UNCHANGED <<dial, asker, addr>>
        /\ reply' = IF waiting = NoUser THEN reply ELSE [reply EXCEPT ![waiting] = "error"]
        /\ UNCHANGED <<setup, poolVars, pending, user, holds, closeVars, enqueuing, old>>

\* cmdCh is empty: innerWork closes done and returns.
DrainEnd ==
    /\ pool = "drain"
    /\ cmdCh = <<>>
    /\ pool' = "stopped"
    /\ UNCHANGED <<poolVars, dialVars, userVars, closed, closeDone, closer, cmdCh, enqueuing, conn, old, setup>>

\* innerWork's tickers.

Tick ==
    pool = "run" /\ UNCHANGED <<setup, endpoints, unavailable, userVars, closeVars, cmdCh, enqueuing, old>>

\* rebalance once the endpoints of R have been dialled.
RebalanceAfter(R) ==
    LET surplus == Surplus(endpoints, unavailable, idle, counts)
        again == [a \in Addrs |-> IF a \in R THEN 1 ELSE 0]
    IN  /\ idle' = Without(idle, surplus)
        /\ CloseCounted(surplus)
        /\ StartDial(Plus(Shortage(endpoints, unavailable, counts), again), NoUser, pending, dial, asker)

\* reBalanceTicker
Rebalance == Tick /\ RebalanceAfter({})

\* recoverTicker: dial the unavailable endpoints whose backoff is over and that
\* nobody dials, then rebalance.
Recover ==
    /\ Tick
    /\ \E R \in SUBSET {a \in unavailable : pending[a] = 0} : R # {} /\ RebalanceAfter(R)

\* cleanExpiredConnTicker: replace the idle connections that are too old.
CleanExpiredConns ==
    LET aged == {c \in Elems(idle) : Expired(c)}
    IN  /\ Tick
        /\ setup.hasLifetime
        /\ idle' = Without(idle, aged)
        /\ CloseCounted(aged)
        /\ StartDial([a \in Addrs |-> Cardinality(Of(aged, a))], NoUser, pending, dial, asker)

-----------------------------------------------------------------------------
\* The goroutine of startDial for connection c.

\* It ends: an error to the Get that waits for it, if any.
DialGivesUp(c) ==
    /\ dial' = [dial EXCEPT ![c] = "none"]
    /\ reply' = IF asker[c] = NoUser THEN reply ELSE [reply EXCEPT ![asker[c]] = "error"]
    /\ conn' = CloseConn({c})
    /\ asker' = [asker EXCEPT ![c] = NoUser]
    /\ addr' = AddrAfterDial(c)
    /\ UNCHANGED cmdCh

DialStep == UNCHANGED <<setup, poolVars, pending, user, holds, closeVars, enqueuing, old>>

\* p.closed is checked, Dial runs and returns a connection or an error.
Dial(c) ==
    /\ dial[c] = "dialing"
    /\ IF closed
         THEN DialGivesUp(c)
         ELSE /\ dial' = [dial EXCEPT ![c] = "dialed"]
              /\ \E result \in {"open", "absent"} : conn' = [conn EXCEPT ![c] = result]
              /\ UNCHANGED <<addr, asker, reply, cmdCh>>
    /\ DialStep

\* p.closed is checked again.
DialReturned(c) ==
    /\ dial[c] = "dialed"
    /\ IF closed
         THEN DialGivesUp(c)
         ELSE dial' = [dial EXCEPT ![c] = "reporting"] /\ UNCHANGED <<addr, asker, conn, reply, cmdCh>>
    /\ DialStep

\* The select: both cases may be ready.
DialReport(c) ==
    /\ dial[c] = "reporting"
    /\ \/ /\ Room
          /\ cmdCh' = Append(cmdCh, DialCmd(c))
          /\ dial' = [dial EXCEPT ![c] = "sent"]
          /\ UNCHANGED <<addr, asker, conn, reply>>
       \/ /\ closeDone
          /\ DialGivesUp(c)
    /\ DialStep

-----------------------------------------------------------------------------
\* Get and Put.

UserStep == UNCHANGED <<setup, poolVars, dialVars, closeVars, old>>

\* Get returns ErrPoolClosed at once when the pool is closed.
GetCall(u) ==
    /\ u \in setup.callers /\ user[u] = "idle"
    /\ ~closed
    /\ user' = [user EXCEPT ![u] = "getting"]
    /\ UNCHANGED <<holds, reply, cmdCh, enqueuing, conn>>
    /\ UserStep

\* The first select of Get.
GetSend(u) ==
    /\ user[u] = "getting"
    /\ \/ Room /\ cmdCh' = Append(cmdCh, GetCmd(u)) /\ user' = [user EXCEPT ![u] = "waiting"]
       \/ closeDone /\ user' = [user EXCEPT ![u] = "idle"] /\ UNCHANGED cmdCh
    /\ UNCHANGED <<holds, reply, enqueuing, conn>>
    /\ UserStep

\* Mutant: Get waits for the reply only.
GetReturnNoClose(u) ==
    /\ user[u] = "waiting"
    /\ reply[u] # "nil"
    /\ reply' = [reply EXCEPT ![u] = "nil"]
    /\ IF reply[u] = "error"
         THEN user' = [user EXCEPT ![u] = "idle"] /\ UNCHANGED holds
         ELSE user' = [user EXCEPT ![u] = "holding"] /\ holds' = [holds EXCEPT ![u] = reply[u]]
    /\ UNCHANGED <<cmdCh, enqueuing, conn>>
    /\ UserStep

\* The second select of Get; the reply channel is dropped with what is in it.
GetReturn(u) ==
    /\ user[u] = "waiting"
    /\ \/ /\ reply[u] # "nil"
          /\ reply' = [reply EXCEPT ![u] = "nil"]
          /\ IF reply[u] = "error"
               THEN user' = [user EXCEPT ![u] = "idle"] /\ UNCHANGED holds
               ELSE user' = [user EXCEPT ![u] = "holding"] /\ holds' = [holds EXCEPT ![u] = reply[u]]
       \/ closeDone /\ user' = [user EXCEPT ![u] = "idle"] /\ UNCHANGED <<reply, holds>>
    /\ UNCHANGED <<cmdCh, enqueuing, conn>>
    /\ UserStep

\* Put checks p.closed.
PutCall(u) ==
    /\ user[u] = "holding"
    /\ IF closed
         THEN /\ conn' = CloseConn({holds[u]})
              /\ user' = [user EXCEPT ![u] = "idle"]
              /\ holds' = [holds EXCEPT ![u] = NoConn]
         ELSE user' = [user EXCEPT ![u] = "putting"] /\ UNCHANGED <<conn, holds>>
    /\ UNCHANGED <<reply, cmdCh, enqueuing>>
    /\ UserStep

\* enqueue, under enqueueMu: admitted, or dropped.
PutEnqueue(u) ==
    /\ user[u] = "putting"
    /\ IF closed
         THEN conn' = CloseConn({holds[u]}) /\ UNCHANGED enqueuing
         ELSE /\ \E err \in BOOLEAN : enqueuing' = enqueuing \cup {PutCmd(holds[u], err)}
              /\ UNCHANGED conn
    /\ user' = [user EXCEPT ![u] = "idle"]
    /\ holds' = [holds EXCEPT ![u] = NoConn]
    /\ UNCHANGED <<reply, cmdCh>>
    /\ UserStep

\* Mutant: enqueue sends the command and starts the goroutine as well.
EnqueueSendTwice(cmd) ==
    /\ Room
    /\ cmdCh' = Append(cmdCh, cmd)
    /\ UNCHANGED <<userVars, enqueuing, conn>>
    /\ UserStep

\* enqueue's send, by the caller or by the goroutine it starts when cmdCh is full.
EnqueueSend(cmd) ==
    /\ Room
    /\ cmdCh' = Append(cmdCh, cmd)
    /\ enqueuing' = enqueuing \ {cmd}
    /\ UNCHANGED <<userVars, conn>>
    /\ UserStep

\* UpdateEndpoints; its send on cmdCh after p.closed is set would only be drained.
UpdateEndpoints(all) ==
    /\ ~closed
    /\ Room
    /\ \A cmd \in Elems(cmdCh) : cmd.kind # "update"
    /\ all \in setup.reports \ {{}, endpoints}
    /\ cmdCh' = Append(cmdCh, UpdateCmd(all))
    /\ UNCHANGED <<userVars, enqueuing, conn>>
    /\ UserStep

-----------------------------------------------------------------------------
\* gnet and time.

\* The connection is closed, by the peer, by an error or by CloseConn: OnClose
\* calls OnConnClosed, which enqueues.
OnConnClosed(c, err) ==
    /\ err \in setup.closeErrors
    /\ conn[c] \in {"open", "dying"}
    /\ conn' = [conn EXCEPT ![c] = "closed"]
    /\ enqueuing' = IF closed THEN enqueuing ELSE enqueuing \cup {ClosedCmd(c, err)}
    /\ UNCHANGED <<userVars, cmdCh>>
    /\ UserStep

\* OnClose has returned, the event loop releases the connection.
Release(c) ==
    /\ conn[c] = "closed"
    /\ conn' = [conn EXCEPT ![c] = "released"]
    /\ UNCHANGED <<userVars, cmdCh, enqueuing>>
    /\ UserStep

\* maxConnLifetime is over.
Age(c) ==
    /\ setup.hasLifetime
    /\ conn[c] = "open"
    /\ c \notin old
    /\ old' = old \cup {c}
    /\ UNCHANGED <<setup, poolVars, dialVars, userVars, closeVars, cmdCh, enqueuing, conn>>

\* Nothing refers to a released connection: its name may be used again.
Collect(c) ==
    /\ conn[c] = "released"
    /\ dial[c] = "none"
    /\ c \notin counted \cup Elems(idle)
    /\ \A cmd \in Queued : ~Carries(cmd, c)
    /\ \A u \in Users : c \notin {holds[u], reply[u]}
    /\ conn' = [conn EXCEPT ![c] = "absent"]
    /\ addr' = [addr EXCEPT ![c] = NoAddr]
    /\ old' = old \ {c}
    /\ UNCHANGED <<setup, poolVars, pending, dial, asker, userVars, closeVars, cmdCh, enqueuing>>

-----------------------------------------------------------------------------
\* Close.

CloserStep == UNCHANGED <<setup, poolVars, dialVars, userVars, enqueuing, conn, old, pool, closeDone>>

\* Mutant: p.closed is not set.
CloseCallOpen ==
    /\ setup.closes /\ closer = "idle"
    /\ closer' = "admitted"
    /\ UNCHANGED <<closed, cmdCh>>
    /\ CloserStep

\* Under enqueueMu: nothing is admitted from now on.
CloseCall ==
    /\ setup.closes /\ closer = "idle"
    /\ closer' = "admitted"
    /\ closed' = TRUE
    /\ UNCHANGED cmdCh
    /\ CloserStep

\* Mutant: the close command is sent without waiting for enqueueWG.
CloseSendNoWait ==
    /\ closer = "admitted"
    /\ Room
    /\ cmdCh' = Append(cmdCh, CloseCmd)
    /\ closer' = "sent"
    /\ UNCHANGED closed
    /\ CloserStep

\* enqueueWG.Wait(), then the close command.
CloseSend ==
    /\ closer = "admitted"
    /\ enqueuing = {}
    /\ Room
    /\ cmdCh' = Append(cmdCh, CloseCmd)
    /\ closer' = "sent"
    /\ UNCHANGED closed
    /\ CloserStep

\* <-done; the wait for the dials that follows is bounded, Close returns either way.
CloseReturn ==
    /\ closer = "sent"
    /\ pool = "stopped"
    /\ closer' = "returned"
    /\ UNCHANGED <<closed, cmdCh>>
    /\ CloserStep

PoolStep ==
    \/ HandleGet \/ HandlePut \/ HandleUpdateEndpoints \/ HandleConnClosed
    \/ HandleDialResult \/ HandleClose \/ Drain \/ DrainEnd

Next ==
    \/ PoolStep
    \/ Rebalance \/ Recover \/ CleanExpiredConns
    \/ CloseCall \/ CloseSend \/ CloseReturn
    \/ \E c \in Conns :
         \/ Dial(c) \/ DialReturned(c) \/ DialReport(c)
         \/ Release(c) \/ Age(c) \/ Collect(c)
         \/ \E err \in BOOLEAN : OnConnClosed(c, err)
    \/ \E u \in Users :
         GetCall(u) \/ GetSend(u) \/ GetReturn(u) \/ PutCall(u) \/ PutEnqueue(u)
    \/ \E cmd \in enqueuing : EnqueueSend(cmd)
    \/ \E all \in SUBSET Addrs : UpdateEndpoints(all)

Spec == Init /\ [][Next]_vars

\* A goroutine that can go on does.  Go queues the senders of a full channel in
\* order, so a send that is possible again and again is done (SF).  Dial returns
\* (it has a timeout).  The tickers, the users, the peers and the discoverer do as
\* they please.
Fairness ==
    /\ WF_vars(PoolStep)
    /\ WF_vars(CloseSend)
    /\ WF_vars(CloseReturn)
    /\ SF_vars(\E cmd \in enqueuing : EnqueueSend(cmd))
    /\ \A c \in Conns : WF_vars(Dial(c) \/ DialReturned(c)) /\ SF_vars(DialReport(c))
    /\ \A u \in Users : SF_vars(GetSend(u)) /\ WF_vars(GetReturn(u))

FairSpec == Spec /\ Fairness

-----------------------------------------------------------------------------
IsCmd(cmd) ==
    CASE cmd.kind = "get" -> cmd.user \in Users
      [] cmd.kind = "update" -> cmd.all \subseteq Addrs
      [] cmd.kind \in {"put", "connClosed"} -> cmd.conn \in Conns /\ cmd.err \in BOOLEAN
      [] cmd.kind = "dialResult" -> cmd.conn \in Conns
      [] OTHER -> cmd = CloseCmd

\* Types; the counters of innerWork never go below zero and cmdCh and idleConns
\* keep their limits.
TypeOK ==
    /\ closed \in BOOLEAN /\ closeDone \in BOOLEAN
    /\ pool \in {"run", "drain", "stopped"}
    /\ closer \in {"idle", "admitted", "sent", "returned"}
    /\ Len(cmdCh) <= CmdChanSize /\ \A cmd \in Queued : IsCmd(cmd)
    /\ endpoints \subseteq Addrs /\ endpoints # {} /\ unavailable \subseteq endpoints
    /\ Elems(idle) \subseteq Conns /\ Len(idle) <= setup.size
    /\ counted \subseteq Conns /\ counts \in [Addrs -> Nat] /\ pending \in [Addrs -> Nat]
    /\ conn \in [Conns -> ConnStates] /\ dial \in [Conns -> DialStates]
    /\ addr \in [Conns -> Addrs \cup {NoAddr}] /\ old \subseteq Conns
    /\ asker \in [Conns -> Users \cup {NoUser}]
    /\ user \in [Users -> {"idle", "getting", "waiting", "holding", "putting"}]
    /\ holds \in [Users -> Conns \cup {NoConn}]
    /\ \A u \in Users : reply[u] \in Conns \cup {"nil", "error"}

\* Where connection c is: each place that could hand it out, store it or close it.
Owners(c) ==
    Cardinality({i \in DOMAIN idle : idle[i] = c})
    + Cardinality({u \in Users : holds[u] = c})
    + Cardinality({u \in Users : reply[u] = c})
    + Cardinality({i \in DOMAIN cmdCh : cmdCh[i].kind = "put" /\ cmdCh[i].conn = c})
    + Cardinality({cmd \in enqueuing : cmd.kind = "put" /\ cmd.conn = c})
    + (IF dial[c] = "none" THEN 0 ELSE 1)

\* innerWork's counters are exact.  endpointConnCounts: the number of counted
\* connections of each endpoint, whatever the order of Put, ConnClosed, expiry and
\* rebalance, which may all take the same connection out of the count.  pendingDials,
\* until Close: rebalance and recover neither dial twice for the same gap nor wait for
\* a dial that is over.
CountsExact ==
    \A a \in Addrs :
        /\ counts[a] = Cardinality(Of(counted, a))
        /\ ~closed => pending[a] = Cardinality({c \in Of(Conns, a) : dial[c] # "none"})

\* A connection is never in two places: not twice in idleConns, not handed to
\* two callers of Get, not idle while a caller still has it.
ConnHasOneOwner == \A c \in Conns : Owners(c) <= 1

\* Until the pool is torn down no open connection is lost: it is idle, on its
\* way to a caller, with a caller, on its way back or being dialled.
NoOpenConnLost == ~closeDone => \A c \in Conns : conn[c] = "open" => Owners(c) = 1

\* Until the pool is torn down rebalance sees every open connection that is not
\* being dialled: it is counted (incEndpointConnCount) until it is closed.
OpenIsCounted ==
    ~closeDone => \A c \in Conns : conn[c] = "open" /\ dial[c] = "none" => c \in counted

\* handleUpdateEndpoints, putConn and handleDialResult leave no idle connection
\* to an endpoint that is not in the list any more.
IdleIsListed == \A c \in Elems(idle) : addr[c] \in endpoints

\* What enqueue admits before Close is served: no Put and no ConnClosed is left
\* in cmdCh or in a goroutine when innerWork has returned.
NoPutStranded ==
    pool = "stopped" => enqueuing = {} /\ \A cmd \in Elems(cmdCh) : cmd.kind \in {"get", "dialResult"}

\* Where a connection is for the users of the pool; in two places it would be
\* somewhere that AbstractPool does not know.
Where(c) ==
    IF Owners(c) > 1 THEN "shared"
    ELSE IF \E u \in Users : holds[u] = c THEN CHOOSE u \in Users : holds[u] = c
    ELSE IF Owners(c) > 0 THEN "pool"
    ELSE IF conn[c] = "absent" THEN "fresh"
    ELSE "gone"

Promise == INSTANCE AbstractPool WITH
    where <- [c \in Conns |-> Where(c)],
    asking <- {u \in Users : user[u] \in {"getting", "waiting"}}



\* The bound of the model: a handler has to dial and no member of Conns is left.
OutOfConns == pool = "run" /\ cmdCh # <<>> /\ Unused = {} /\ ~ENABLED PoolStep

\* Get comes back with a connection or an error, also when Close overtakes it.
GetReturns ==
    \A u \in Users :
        user[u] \in {"getting", "waiting"} ~> (user[u] \in {"idle", "holding"} \/ OutOfConns)

\* Close comes back: the operations enqueue has admitted finish and innerWork
\* serves the close command.
CloseReturns == closer = "admitted" ~> closer = "returned"

=============================================================================
