------------------------------- MODULE Client -------------------------------
(***************************************************************************)
(* The client of tglog/client.go: NewV3Client and Close step by step, the  *)
(* discoverer's goroutine (discoverer/dns.go) that may report a change at  *)
(* any of those steps, and the pool's dials, which need gnet's event loop  *)
(* to finish.  The pool and the workers are modelled in detail elsewhere   *)
(* (ConnPool, Worker, Link); here they are open or closed.                 *)
(***************************************************************************)
EXTENDS Integers, FiniteSets

CONSTANTS
    Hosts,               \* what a lookup may find
    WorkersToStart       \* options.WorkerNum, at least 1

VARIABLES
    pc,                     \* the goroutine in NewV3Client, later in Close
    eps,                    \* initConns' copy of the endpoint list
    disc, hosts, handler,   \* dnsDiscoverer: its goroutine, endpointList, eventHandlers
    looking,                \* where lookup is: "no", "asking", "changed", "notify"
    pool, poolEps,          \* connPool and the endpoints it has been told (cmdCh is a queue)
    dial,                   \* a dial of the pool: "no", "connecting", "enrolling"
    gaveUp,                 \* connPool.Close has stopped waiting for the dial
    net,                    \* netClient
    workers, running,       \* len(c.workers), and those not closed yet
    crashed                 \* a panic in a goroutine without recover

discVars == <<disc, hosts, handler, looking>>
connPoolVars == <<pool, poolEps, dial, gaveUp>>
startVars == <<pc, eps, net, workers, running>>
clientVars == <<discVars, connPoolVars, startVars, crashed>>

ClientStart ==
    /\ pc = "discoverer" /\ eps = {}
    /\ disc = "none" /\ hosts = {} /\ handler = FALSE /\ looking = "no"
    /\ pool = "none" /\ poolEps = {} /\ dial = "no" /\ gaveUp = FALSE
    /\ net = "none" /\ workers = 0 /\ running = {}

ClientInit == ClientStart /\ crashed = FALSE

-----------------------------------------------------------------------------
\* initAll.  An error goes to Close, which starts with the discoverer.

At(p) == ~crashed /\ pc = p
Go(p) == pc' = p
Fail == pc' = "closeDiscoverer"

\* NewDNS: an IP needs no goroutine; a domain is looked up once (an empty result
\* is kept as an empty list) and then by the goroutine that update() starts.
NewDNS ==
    /\ At("discoverer")
    /\ \/ Fail /\ UNCHANGED <<disc, hosts>>
       \/ /\ \/ disc' = "fixed" /\ \E h \in Hosts : hosts' = {h}
             \/ disc' = "running" /\ hosts' \in SUBSET Hosts
          /\ Go("addHandler")
    /\ UNCHANGED <<handler, looking, connPoolVars, eps, net, workers, running, crashed>>

AddEventHandler ==
    /\ At("addHandler")
    /\ handler' = TRUE
    /\ Go("net")
    /\ UNCHANGED <<disc, hosts, looking, connPoolVars, eps, net, workers, running, crashed>>

\* initNetClient: c.netClient is set when the event loop runs.
InitNetClient ==
    /\ At("net")
    /\ \/ Fail /\ UNCHANGED net
       \/ net' = "started" /\ Go("endpoints")
    /\ UNCHANGED <<discVars, connPoolVars, eps, workers, running, crashed>>

\* initConns copies the endpoint list, ...
GetEndpoints ==
    /\ At("endpoints")
    /\ eps' = hosts
    /\ IF hosts = {} THEN Fail ELSE Go("conns")
    /\ UNCHANGED <<discVars, connPoolVars, net, workers, running, crashed>>

\* ... dials the first connections and then sets c.connPool.
InitConns ==
    /\ At("conns")
    /\ \/ Fail /\ UNCHANGED <<pool, poolEps>>
       \/ pool' = "open" /\ poolEps' = eps /\ Go("framer")
    /\ UNCHANGED <<discVars, dial, gaveUp, eps, net, workers, running, crashed>>

\* initFramer: NewLengthField may refuse the options.
InitFramer ==
    /\ At("framer")
    /\ Fail \/ Go("workers")
    /\ UNCHANGED <<discVars, connPoolVars, eps, net, workers, running, crashed>>

\* Mutant: c.workers is only set when the last worker is there.
CreateWorkerUnlisted ==
    /\ At("workers")
    /\ \/ Fail /\ UNCHANGED <<workers, running>>
       \/ /\ running' = running \cup {Cardinality(running)}
          /\ workers' = IF Cardinality(running) + 1 = WorkersToStart THEN WorkersToStart ELSE 0
          /\ IF Cardinality(running) + 1 = WorkersToStart THEN Go("ready") ELSE UNCHANGED pc
    /\ UNCHANGED <<discVars, connPoolVars, eps, net, crashed>>

\* initWorkers: newWorker fails if it gets no connection; a worker that runs is
\* appended to c.workers.
CreateWorker ==
    /\ At("workers")
    /\ \/ Fail /\ UNCHANGED <<workers, running>>
       \/ /\ running' = running \cup {workers}
          /\ workers' = workers + 1
          /\ IF workers + 1 = WorkersToStart THEN Go("ready") ELSE UNCHANGED pc
    /\ UNCHANGED <<discVars, connPoolVars, eps, net, crashed>>

-----------------------------------------------------------------------------
\* Close, called by NewV3Client after an error or by the user.

CloseStep == UNCHANGED <<hosts, handler, looking, poolEps, dial, eps, workers, crashed>>

Close ==
    /\ At("ready")
    /\ Go("closeDiscoverer")
    /\ UNCHANGED <<disc, pool, gaveUp, net, running>>
    /\ CloseStep

\* Mutant: the goroutine is waited for before it is told to stop.
CloseDiscovererWaits ==
    /\ At("closeDiscoverer")
    /\ disc \in {"none", "fixed", "stopped"}
    /\ Go("closeWorkers")
    /\ UNCHANGED <<disc, pool, gaveUp, net, running>>
    /\ CloseStep

\* discoverer.Close: stop the ticker, close stopCh and wait for the goroutine.
CloseDiscoverer ==
    /\ At("closeDiscoverer")
    /\ IF disc = "running"
         THEN disc' = "stopping" /\ UNCHANGED pc
         ELSE disc # "stopping" /\ Go("closeWorkers") /\ UNCHANGED disc
    /\ UNCHANGED <<pool, gaveUp, net, running>>
    /\ CloseStep

\* The workers of c.workers one after the other; each close() comes back (Worker).
CloseWorkers ==
    /\ At("closeWorkers")
    /\ LET open == {w \in running : w < workers}
       IN  IF open = {}
             THEN Go("closePool") /\ UNCHANGED running
             ELSE running' = running \ {CHOOSE w \in open : \A v \in open : w <= v} /\ UNCHANGED pc
    /\ UNCHANGED <<disc, pool, gaveUp, net>>
    /\ CloseStep

\* connPool.Close admits no dial any more and waits for the one in flight.
CloseConnPool ==
    /\ At("closePool")
    /\ pool' = IF pool = "open" THEN "closed" ELSE pool
    /\ Go(IF pool = "open" THEN "waitDials" ELSE "stopNet")
    /\ UNCHANGED <<disc, gaveUp, net, running>>
    /\ CloseStep

\* The wait ends with the dial or after defaultCloseDialWait.
WaitDials ==
    /\ At("waitDials")
    /\ gaveUp' = (dial # "no")
    /\ Go("stopNet")
    /\ UNCHANGED <<disc, pool, net, running>>
    /\ CloseStep

StopNet ==
    /\ At("stopNet")
    /\ net' = IF net = "started" THEN "stopped" ELSE net
    /\ Go("closed")
    /\ UNCHANGED <<disc, pool, gaveUp, running>>
    /\ CloseStep

-----------------------------------------------------------------------------
\* The discoverer's goroutine.

DiscStep == UNCHANGED startVars

TickLookup ==
    /\ ~crashed /\ disc = "running" /\ looking = "no"
    /\ looking' = "asking"
    /\ UNCHANGED <<disc, hosts, handler, connPoolVars, crashed>>
    /\ DiscStep

\* lookup: what it has found replaces the list; an empty result changes nothing.
Lookup ==
    /\ ~crashed /\ looking = "asking"
    /\ \E found \in SUBSET Hosts :
         /\ hosts' = IF found = {} THEN hosts ELSE found
         /\ looking' = IF hosts' = hosts THEN "no" ELSE "changed"
    /\ UNCHANGED <<disc, handler, connPoolVars, crashed>>
    /\ DiscStep

\* The handlers are copied under the lock ...
CopyHandlers ==
    /\ ~crashed /\ looking = "changed"
    /\ looking' = IF handler THEN "notify" ELSE "no"
    /\ UNCHANGED <<disc, hosts, handler, connPoolVars, crashed>>
    /\ DiscStep

\* Mutant: without a pool the update is skipped.
OnEndpointUpdateSkips ==
    /\ ~crashed /\ looking = "notify"
    /\ looking' = "no"
    /\ poolEps' = IF pool = "open" THEN hosts ELSE poolEps
    /\ UNCHANGED <<disc, hosts, handler, pool, dial, gaveUp, crashed>>
    /\ DiscStep

\* ... and called without it: OnEndpointUpdate passes the list to the pool, which
\* does not look at it when it is closed.  Without a pool it panics.
OnEndpointUpdate ==
    /\ ~crashed /\ looking = "notify"
    /\ looking' = "no"
    /\ crashed' = (pool = "none")
    /\ poolEps' = IF pool = "open" THEN hosts ELSE poolEps
    /\ UNCHANGED <<disc, hosts, handler, pool, dial, gaveUp>>
    /\ DiscStep

\* The goroutine sees stopCh between two lookups.
DiscovererStops ==
    /\ ~crashed /\ disc = "stopping" /\ looking = "no"
    /\ disc' = "stopped"
    /\ UNCHANGED <<hosts, handler, looking, connPoolVars, crashed>>
    /\ DiscStep

-----------------------------------------------------------------------------
\* A dial goroutine of the pool (startDial, client.Dial).

DialStep == UNCHANGED <<discVars, pool, poolEps, gaveUp, startVars, crashed>>

StartDial ==
    /\ ~crashed /\ pool = "open" /\ dial = "no"
    /\ dial' = "connecting"
    /\ DialStep

\* net.DialTimeout
Connect ==
    /\ ~crashed /\ dial = "connecting"
    /\ dial' \in {"no", "enrolling"}
    /\ DialStep

\* EnrollContext: the event loop registers the connection.
EnrollContext ==
    /\ ~crashed /\ dial = "enrolling" /\ net = "started"
    /\ dial' = "no"
    /\ DialStep

-----------------------------------------------------------------------------
StartStep ==
    \/ NewDNS \/ AddEventHandler \/ InitNetClient \/ GetEndpoints \/ InitConns
    \/ InitFramer \/ CreateWorker

CloseSteps ==
    \/ CloseDiscoverer \/ CloseWorkers \/ CloseConnPool \/ WaitDials \/ StopNet

Notifying == Lookup \/ CopyHandlers \/ OnEndpointUpdate \/ DiscovererStops

ClientNext ==
    \/ StartStep \/ Close \/ CloseSteps
    \/ TickLookup \/ Notifying
    \/ StartDial \/ Connect \/ EnrollContext

ClientSpec == ClientInit /\ [][ClientNext]_clientVars

\* The goroutine in NewV3Client or Close and the discoverer's go on; a dial has
\* its timeout and a lookup too.
ClientFairness ==
    /\ WF_clientVars(StartStep) /\ WF_clientVars(CloseSteps) /\ WF_clientVars(Notifying)
    /\ WF_clientVars(Connect) /\ WF_clientVars(EnrollContext)

ClientFairSpec == ClientSpec /\ ClientFairness

-----------------------------------------------------------------------------
\* Close leaves nothing running, wherever in initAll an error occurred: not the
\* discoverer's goroutine, no worker, no pool, no event loop; and no dial enters
\* EnrollContext after the event loop is gone, unless the wait for it was given up.
CleanShutdown ==
    /\ pc = "closed" =>
         /\ disc \in {"none", "fixed", "stopped"} /\ running = {}
         /\ pool # "open" /\ net # "started"
    /\ net = "stopped" /\ dial # "no" => gaveUp

\* The pool has the discoverer's list whenever the discoverer is not about to tell
\* it: no change is lost between initConns' GetEndpoints and c.connPool = pool.
PoolFollowsDiscoverer ==
    pool = "open" /\ looking \in {"no", "asking"} /\ ~crashed => poolEps = hosts

\* Close comes back: the discoverer's goroutine, the workers and the dials do not
\* wait for each other.
CloseReturns == pc = "closeDiscoverer" ~> (pc = "closed" \/ crashed)

=============================================================================
