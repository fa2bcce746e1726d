-------------------------------- MODULE Link --------------------------------
(***************************************************************************)
(* The workers' connections: how newWorker, updateConn, OnClose, failed    *)
(* writes and close() of tglog/worker.go and tglog/client.go use the pool, *)
(* with gnet's event loop, which runs OnClose and the write callbacks and  *)
(* registers what the pool dials.  The pool is the one of AbstractPool,    *)
(* with the dials that Get may have to wait for.                           *)
(***************************************************************************)
EXTENDS Integers, Sequences, FiniteSets

CONSTANTS
    WorkerSeq,           \* the workers in the order in which they are created
    Conns, NoConn,       \* connections, which bound the dials
    InitialConns,        \* those that NewConnPool has dialled
    UpdateConnChanSize,  \* of updateConnChan, 64 in the code
    MaxWrites            \* bound: writes of a worker that gnet has queued

WorkerNum == Len(WorkerSeq)
Workers == {WorkerSeq[i] : i \in 1..WorkerNum}

ASSUME LinkAssumption ==
    WorkerNum > 0 /\ Cardinality(Workers) = WorkerNum /\ UpdateConnChanSize \in Nat \ {0} /\ MaxWrites \in Nat \ {0}

VARIABLES
    where, asking,       \* AbstractPool's view of the connections
    poolOpen,
    gconn,               \* gnet: "none", "enrolling", "open", "closing", "released"
    wstate,              \* worker.state; "stopped" once close() has closed w.stop
    cur,                 \* worker.conn
    loop,                \* the worker's goroutine, in or out of updateConn
    notified,            \* length of updateConnChan
    writes,              \* [worker, conn] of an AsyncWrite that gnet has queued
    ev,                  \* gnet's event loop
    main, listed,        \* the caller of NewClient and Close; len(c.workers)
    panicked             \* a panic on the event loop, which nobody recovers

poolVars == <<where, asking, poolOpen>>
workerVars == <<wstate, cur, loop>>
queueVars == <<notified, writes>>
vars == <<poolVars, gconn, workerVars, queueVars, ev, main, listed, panicked>>

Idle == [at |-> "idle"]
Update(at, new, err) == [at |-> at, new |-> new, err |-> err]
OnLoop(at, c, i) == [at |-> at, conn |-> c, i |-> i]
EvIdle == OnLoop("idle", NoConn, 0)

Start ==
    /\ where = [c \in Conns |-> IF c \in InitialConns THEN "pool" ELSE "fresh"]
    /\ asking = {} /\ poolOpen = TRUE
    /\ gconn = [c \in Conns |-> IF where[c] = "pool" THEN "open" ELSE "none"]
    /\ wstate = [w \in Workers |-> "init"] /\ cur = [w \in Workers |-> NoConn]
    /\ loop = [w \in Workers |-> Idle]
    /\ notified = [w \in Workers |-> 0] /\ writes = {}
    /\ ev = EvIdle
    /\ main = "start" /\ listed = 0

Init == Start /\ panicked = FALSE

-----------------------------------------------------------------------------
\* The pool (ConnPool in detail).

PoolStep == ~panicked /\ UNCHANGED <<workerVars, queueVars, main, listed, panicked>>
LoopIdle == ev.at = "idle"

\* A dial of Get, rebalance or recovery that does not fail needs the event loop.
Dial(c) ==
    /\ poolOpen /\ gconn[c] = "none"
    /\ gconn' = [gconn EXCEPT ![c] = "enrolling"]
    /\ UNCHANGED <<poolVars, ev>>
    /\ PoolStep

Enroll(c) ==
    /\ gconn[c] = "enrolling" /\ LoopIdle
    /\ gconn' = [gconn EXCEPT ![c] = IF poolOpen THEN "open" ELSE "none"]
    /\ where' = [where EXCEPT ![c] = IF poolOpen THEN "pool" ELSE @]
    /\ UNCHANGED <<asking, poolOpen, ev>>
    /\ PoolStep

\* Expiry, rebalance, a deleted endpoint: CloseConn, which tells no worker; or the
\* pool learns that an idle connection was closed.
Drop(c) ==
    /\ where[c] = "pool" /\ LoopIdle
    /\ where' = [where EXCEPT ![c] = "gone"]
    /\ gconn' = [gconn EXCEPT ![c] = "released"]
    /\ UNCHANGED <<asking, poolOpen, ev>>
    /\ PoolStep

\* Nothing refers to a closed connection any more: its name may be used again.
Collect(c) ==
    /\ gconn[c] = "released" /\ where[c] = "gone"
    /\ \A w \in Workers : cur[w] # c
    /\ \A x \in writes : x.conn # c
    /\ ev.conn # c
    /\ gconn' = [gconn EXCEPT ![c] = "none"]
    /\ where' = [where EXCEPT ![c] = "fresh"]
    /\ UNCHANGED <<asking, poolOpen, ev>>
    /\ PoolStep

\* What Get returns to w: an idle connection, which may be closed already, or an
\* error when there is none and no dial either.
Served(w, c) ==
    /\ ~panicked /\ w \in asking
    /\ asking' = asking \ {w}
    /\ \/ /\ poolOpen /\ c \in Conns /\ where[c] = "pool"
          /\ where' = [where EXCEPT ![c] = w]
       \/ /\ c = NoConn
          /\ ~poolOpen \/ \A d \in Conns : where[d] # "pool" /\ gconn[d] # "enrolling"
          /\ UNCHANGED where
    /\ UNCHANGED <<poolOpen, gconn, queueVars, ev, listed, panicked>>

\* Put with a nil error; a connection whose addresses gnet has cleared is ignored.
AfterPut(w, c) ==
    [where EXCEPT ![c] =
        IF @ # w THEN "shared" ELSE IF poolOpen /\ gconn[c] # "released" THEN "pool" ELSE "gone"]

\* The worker forgets c.
AfterDrop(w, c) == [where EXCEPT ![c] = IF @ = w THEN "gone" ELSE @]

-----------------------------------------------------------------------------
\* newWorker, one worker after the other, and Close.

Current == WorkerSeq[listed + 1]
Listed == {WorkerSeq[i] : i \in 1..listed}

GetFirst ==
    /\ ~panicked /\ main = "start"
    /\ asking' = asking \cup {Current}
    /\ main' = "get"
    /\ UNCHANGED <<where, poolOpen, gconn, workerVars, queueVars, ev, listed, panicked>>

\* Without a connection the client is closed again; otherwise the worker starts.
NewWorker(c) ==
    /\ main = "get" /\ Served(Current, c)
    /\ IF c = NoConn
         THEN main' = "close" /\ UNCHANGED <<wstate, cur>>
         ELSE /\ main' = "append"
              /\ wstate' = [wstate EXCEPT ![Current] = "ready"]
              /\ cur' = [cur EXCEPT ![Current] = c]
    /\ UNCHANGED loop

AppendWorker ==
    /\ ~panicked /\ main = "append"
    /\ listed' = listed + 1
    /\ main' = IF listed' = WorkerNum THEN "ready" ELSE "start"
    /\ UNCHANGED <<poolVars, gconn, workerVars, queueVars, ev, panicked>>

CloseCall ==
    /\ ~panicked /\ main = "ready"
    /\ main' = "close"
    /\ UNCHANGED <<poolVars, gconn, workerVars, queueVars, ev, listed, panicked>>

\* close() of the listed workers in order.
Closing(w) ==
    /\ ~panicked /\ main = "close"
    /\ \E i \in 1..listed :
         w = WorkerSeq[i] /\ \A j \in 1..(i - 1) : wstate[WorkerSeq[j]] = "stopped"
MainStep == UNCHANGED <<gconn, queueVars, ev, main, listed, panicked, poolOpen, asking>>

\* handleClose up to what the worker still waits for.
HandleClose(w) ==
    /\ Closing(w) /\ wstate[w] = "ready" /\ loop[w] = Idle
    /\ wstate' = [wstate EXCEPT ![w] = "closing"]
    /\ UNCHANGED <<where, cur, loop>>
    /\ MainStep

\* closeAll: the connection goes back, then the channels are closed.
CloseAllPut(w) ==
    /\ Closing(w) /\ wstate[w] = "closing" /\ loop[w] = Idle
    /\ where' = AfterPut(w, cur[w])
    /\ loop' = [loop EXCEPT ![w] = [at |-> "closeAll"]]
    /\ UNCHANGED <<wstate, cur>>
    /\ MainStep

CloseAll(w) ==
    /\ Closing(w) /\ loop[w].at = "closeAll"
    /\ wstate' = [wstate EXCEPT ![w] = "closed"]
    /\ loop' = [loop EXCEPT ![w] = Idle]
    /\ UNCHANGED <<where, cur>>
    /\ MainStep

\* close() closes w.stop; until then the loop serves what is left in its channels.
Stop(w) ==
    /\ Closing(w) /\ wstate[w] = "closed"
    /\ wstate' = [wstate EXCEPT ![w] = "stopped"]
    /\ UNCHANGED <<where, cur, loop>>
    /\ MainStep

ClosePool ==
    /\ ~panicked /\ main = "close" /\ \A w \in Listed : wstate[w] = "stopped"
    /\ poolOpen' = FALSE
    /\ main' = "closed"
    /\ where' = [c \in Conns |-> IF where[c] = "pool" THEN "gone" ELSE where[c]]
    /\ UNCHANGED <<asking, gconn, workerVars, queueVars, ev, listed, panicked>>

-----------------------------------------------------------------------------
\* A worker's loop.

WorkerStep == UNCHANGED <<poolOpen, gconn, ev, main, listed, panicked>>

\* updateConn(nil, err) or updateConn(c, err) with the current connection: Get, ...
BeginUpdate(w, err) ==
    /\ ~panicked /\ loop[w] = Idle /\ wstate[w] \in {"ready", "closing", "closed"}
    /\ loop' = [loop EXCEPT ![w] = Update("get", NoConn, err)]
    /\ asking' = asking \cup {w}
    /\ UNCHANGED <<where, wstate, cur>>
    /\ WorkerStep

\* Mutant: no ticker.
TickNever(w) == FALSE /\ UNCHANGED vars

\* updateConnTicker, which handleClose stops.
Tick(w) ==
    /\ wstate[w] = "ready"
    /\ BeginUpdate(w, FALSE)
    /\ UNCHANGED queueVars

\* updateConnChan; what it holds when it is closed is still received.
HandleUpdateConn(w) ==
    /\ notified[w] > 0
    /\ BeginUpdate(w, TRUE)
    /\ notified' = [notified EXCEPT ![w] = @ - 1]
    /\ UNCHANGED writes

\* AsyncWrite returns an error (onErr outside the callback).
WriteRefused(w) ==
    /\ wstate[w] \in {"ready", "closing"}
    /\ BeginUpdate(w, TRUE)
    /\ UNCHANGED queueVars

GetReturns(w, c) ==
    /\ loop[w].at = "get" /\ Served(w, c)
    /\ loop' = [loop EXCEPT ![w] = Update(IF c = NoConn THEN "refused" ELSE "swap", c, @.err)]
    /\ UNCHANGED <<wstate, cur, main>>

\* Get has failed: updateConn only logs it.
Refused(w) ==
    /\ ~panicked /\ loop[w].at = "refused"
    /\ loop' = [loop EXCEPT ![w] = Idle]
    /\ UNCHANGED <<where, asking, wstate, cur, queueVars>>
    /\ WorkerStep

\* Mutant: the old connection is put back whatever the error.
SwapPutsBack(w) ==
    /\ ~panicked /\ loop[w].at = "swap"
    /\ cur' = [cur EXCEPT ![w] = loop[w].new]
    /\ where' = AfterPut(w, cur[w])
    /\ loop' = [loop EXCEPT ![w] = Idle]
    /\ UNCHANGED <<asking, wstate, queueVars>>
    /\ WorkerStep

\* ... casConn, which succeeds because only this goroutine stores the connection,
\* and Put of the old one unless there was an error.
Swap(w) ==
    /\ ~panicked /\ loop[w].at = "swap"
    /\ cur' = [cur EXCEPT ![w] = loop[w].new]
    /\ where' = IF loop[w].err THEN AfterDrop(w, cur[w]) ELSE AfterPut(w, cur[w])
    /\ loop' = [loop EXCEPT ![w] = Idle]
    /\ UNCHANGED <<asking, wstate, queueVars>>
    /\ WorkerStep

\* sendBatch
SendBatch(w) ==
    /\ ~panicked /\ loop[w] = Idle /\ wstate[w] \in {"ready", "closing"}
    /\ Cardinality({x \in writes : x.w = w}) < MaxWrites
    /\ writes' = writes \cup {[w |-> w, conn |-> cur[w]]}
    /\ UNCHANGED <<poolVars, gconn, workerVars, notified, ev, main, listed, panicked>>

-----------------------------------------------------------------------------
\* gnet's event loop.

EvWorker == WorkerSeq[ev.i]
ChanClosed(w) == wstate[w] \in {"closed", "stopped"}
EventStep == ~panicked /\ UNCHANGED <<poolVars, workerVars, main, listed>>

\* OnClose with an error; the pool is told, then the workers one by one.
OnClose(c) ==
    /\ LoopIdle /\ gconn[c] = "open"
    /\ gconn' = [gconn EXCEPT ![c] = "closing"]
    /\ ev' = OnLoop("check", c, 1)
    /\ UNCHANGED <<queueVars, panicked>>
    /\ EventStep

\* onConnClosed and the check of updateConnAsync; when all are told gnet releases
\* the connection.
OnConnClosed ==
    /\ ev.at = "check"
    /\ IF ev.i > listed
         THEN /\ gconn' = [gconn EXCEPT ![ev.conn] = "released"]
              /\ ev' = EvIdle
         ELSE /\ ev' = IF cur[EvWorker] = ev.conn /\ ~ChanClosed(EvWorker)
                         THEN [ev EXCEPT !.at = "notify"]
                         ELSE [ev EXCEPT !.i = @ + 1]
              /\ UNCHANGED gconn
    /\ UNCHANGED <<queueVars, panicked>>
    /\ EventStep


\* The select with a default: never waits, and drops the notification if there is
\* no room.
MayNotify(w) == TRUE

Notified(w) ==
    IF notified[w] < UpdateConnChanSize THEN [notified EXCEPT ![w] = @ + 1] ELSE notified

\* updateConnAsync's send, from OnClose: a closed channel panics.
UpdateConnAsync ==
    /\ ev.at = "notify"
    /\ IF ChanClosed(EvWorker)
         THEN panicked' = TRUE /\ UNCHANGED <<notified, ev>>
         ELSE /\ MayNotify(EvWorker)
              /\ notified' = Notified(EvWorker)
              /\ ev' = OnLoop("check", ev.conn, ev.i + 1)
              /\ UNCHANGED panicked
    /\ UNCHANGED <<gconn, writes>>
    /\ EventStep

\* A queued write: done, or failed if the connection is closed.
WriteDone(x) ==
    /\ LoopIdle /\ x \in writes
    /\ writes' = writes \ {x}
    /\ ev' = IF gconn[x.conn] = "open" THEN ev ELSE OnLoop("failed", x.conn, CHOOSE i \in 1..WorkerNum : WorkerSeq[i] = x.w)
    /\ UNCHANGED <<gconn, notified, panicked>>
    /\ EventStep

\* onErr in the callback: a ready worker is notified (a panic is recovered there),
\* and the failure is posted with safeSend: the channel has room, because the batch
\* has a permit, or it is closed (Worker).
OnErr ==
    /\ ev.at = "failed"
    /\ \/ /\ wstate[EvWorker] # "ready"
          /\ UNCHANGED notified
       \/ /\ wstate[EvWorker] = "ready" /\ MayNotify(EvWorker)
          /\ notified' = Notified(EvWorker)
    /\ ev' = EvIdle
    /\ UNCHANGED <<gconn, writes, panicked>>
    /\ EventStep

-----------------------------------------------------------------------------
PoolServes ==
    \/ \E c \in Conns : Enroll(c)
    \/ \E c \in Conns \cup {NoConn} : NewWorker(c) \/ \E w \in Workers : GetReturns(w, c)

StartsAndCloses ==
    \/ GetFirst \/ AppendWorker \/ ClosePool
    \/ \E w \in Workers : HandleClose(w) \/ CloseAllPut(w) \/ CloseAll(w) \/ Stop(w)

EventLoop == OnConnClosed \/ UpdateConnAsync \/ OnErr

Next ==
    \/ PoolServes \/ StartsAndCloses \/ EventLoop \/ CloseCall
    \/ \E c \in Conns : Dial(c) \/ Drop(c) \/ Collect(c) \/ OnClose(c)
    \/ \E w \in Workers :
         \/ Tick(w) \/ HandleUpdateConn(w) \/ WriteRefused(w) \/ Refused(w) \/ Swap(w)
         \/ SendBatch(w)
    \/ \E x \in writes : WriteDone(x)

Spec == Init /\ [][Next]_vars

\* The pool answers (cmdCh is a queue), a dial has its timeout, gnet serves its tasks
\* in order, and a ticker that fires again and again is served by the select.
Fairness ==
    /\ WF_vars(StartsAndCloses) /\ WF_vars(EventLoop)
    /\ SF_vars(\E c \in Conns \cup {NoConn} : NewWorker(c))
    /\ \A c \in Conns : SF_vars(Enroll(c))
    /\ \A w \in Workers :
         /\ SF_vars(\E c \in Conns \cup {NoConn} : GetReturns(w, c))
         /\ WF_vars(Refused(w) \/ Swap(w)) /\ SF_vars(Tick(w))

FairSpec == Spec /\ Fairness

-----------------------------------------------------------------------------
Promise == INSTANCE AbstractPool WITH Users <- Workers

\* The workers use the pool as AbstractPool expects: a worker puts back only a
\* connection that Get has given it and only once, also when a notification is
\* served after closeAll has put the connection back.
PoolProtocol == Promise!Spec

\* A ready worker does not stay with a closed connection, although OnClose misses a
\* worker that is being created or has not stored the connection yet, and drops
\* notifications: it gets another one, unless Get fails or the worker is closed.
DeadIsReplaced ==
    \A w \in Workers, c \in Conns :
        wstate[w] = "ready" /\ cur[w] = c /\ gconn[c] # "open"
            ~> wstate[w] # "ready" \/ cur[w] # c \/ loop[w].at = "refused" \/ panicked


\* "Before writing to these channels check whether the state is stateClosed"
\* (closeAll): with that check no callback of the event loop panics.
NoEventLoopPanic == ~panicked

=============================================================================
