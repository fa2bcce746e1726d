---------------------------- MODULE ClientProofs ----------------------------
(***************************************************************************)
(* Proofs about the client's life (Client), for every set of hosts and     *)
(* every number of workers: the pool follows the discoverer (FollowInv),   *)
(* and Close undoes what initAll has built (ShutInv).                      *)
(***************************************************************************)
EXTENDS Client, TLAPS

BeforePool == {"discoverer", "addHandler", "net", "endpoints", "conns"}
Quiet == looking \in {"no", "asking"} /\ ~crashed

\* PoolFollowsDiscoverer is not inductive: initConns makes it true with the list
\* that GetEndpoints has copied.  Until then a change of the list makes itself known:
\* the handler is registered, so the discoverer is about to call it, and does so
\* without a pool.
FollowInv ==
    /\ looking \in {"no", "asking", "changed", "notify"}
    /\ crashed \in BOOLEAN /\ handler \in BOOLEAN
    /\ pc \in {"net", "endpoints", "conns"} => handler
    /\ pc \in BeforePool => pool = "none"
    /\ pool = "open" => handler
    /\ pc = "conns" /\ Quiet => eps = hosts
    /\ PoolFollowsDiscoverer

\* CleanShutdown, step by step: what Close has dealt with stays dealt with, and a
\* dial that outlives the wait was given up.
ShutInv ==
    /\ disc \in {"none", "fixed", "running", "stopping", "stopped"}
    /\ workers \in Nat /\ running \subseteq Nat
    /\ \A w \in running : w < workers
    /\ pool \in {"none", "open", "closed"}
    /\ pool = "none" => dial = "no"
    /\ pool = "closed" => pc \in {"waitDials", "stopNet", "closed"}
    /\ net = "stopped" => pc = "closed"
    /\ pc \in {"closeWorkers", "closePool", "waitDials", "stopNet", "closed"} =>
         disc \in {"none", "fixed", "stopped"}
    /\ pc \in {"closePool", "waitDials", "stopNet", "closed"} => running = {}
    /\ pc \in {"waitDials", "stopNet", "closed"} => pool # "open"
    /\ pc = "closed" => net # "started"
    /\ pc \in {"stopNet", "closed"} /\ dial # "no" => gaveUp

-----------------------------------------------------------------------------
\* Before NewV3Client starts there is nothing to follow.
LEMMA FollowInit == ClientInit => FollowInv
BY DEF ClientInit, ClientStart, FollowInv, BeforePool, Quiet, PoolFollowsDiscoverer

\* No step of NewV3Client, Close, the discoverer or a dial breaks FollowInv.
LEMMA FollowStep == FollowInv /\ [ClientNext]_clientVars => FollowInv'
<1> SUFFICES ASSUME FollowInv, [ClientNext]_clientVars PROVE FollowInv'
  OBVIOUS
<1> USE DEF FollowInv, BeforePool, Quiet, PoolFollowsDiscoverer
<1> USE DEF At, Go, Fail, discVars, connPoolVars, startVars, CloseStep, DiscStep, DialStep
<1>1. CASE NewDNS
  BY <1>1 DEF NewDNS
<1>2. CASE AddEventHandler
  BY <1>2 DEF AddEventHandler
<1>3. CASE InitNetClient
  BY <1>3 DEF InitNetClient
<1>4. CASE GetEndpoints
  BY <1>4 DEF GetEndpoints
<1>5. CASE InitConns
  BY <1>5 DEF InitConns
<1>6. CASE InitFramer
  BY <1>6 DEF InitFramer
<1>7. CASE CreateWorker
  BY <1>7 DEF CreateWorker
<1>8. CASE Close
  BY <1>8 DEF Close
<1>9. CASE CloseDiscoverer
  BY <1>9 DEF CloseDiscoverer
<1>10. CASE CloseWorkers
  BY <1>10 DEF CloseWorkers
<1>11. CASE CloseConnPool
  BY <1>11 DEF CloseConnPool
<1>12. CASE WaitDials
  BY <1>12 DEF WaitDials
<1>13. CASE StopNet
  BY <1>13 DEF StopNet
<1>14. CASE TickLookup
  BY <1>14 DEF TickLookup
<1>15. CASE Lookup
  BY <1>15 DEF Lookup
<1>16. CASE CopyHandlers
  BY <1>16 DEF CopyHandlers
<1>17. CASE OnEndpointUpdate
  BY <1>17 DEF OnEndpointUpdate
<1>18. CASE DiscovererStops
  BY <1>18 DEF DiscovererStops
<1>19. CASE StartDial \/ Connect \/ EnrollContext
  BY <1>19 DEF StartDial, Connect, EnrollContext
<1>20. CASE UNCHANGED clientVars
  BY <1>20 DEF clientVars
<1> QED
  BY <1>1, <1>2, <1>3, <1>4, <1>5, <1>6, <1>7, <1>8, <1>9, <1>10, <1>11, <1>12, <1>13,
     <1>14, <1>15, <1>16, <1>17, <1>18, <1>19, <1>20
     DEF ClientNext, StartStep, CloseSteps, Notifying

\* The pool has the discoverer's list whenever the discoverer is not about to tell
\* it, wherever a lookup finds a change during NewV3Client: no update is lost between
\* initConns' GetEndpoints and c.connPool = pool.
THEOREM PoolFollows == ClientSpec => []PoolFollowsDiscoverer
<1>1. FollowInv => PoolFollowsDiscoverer
  BY DEF FollowInv
<1> QED
  BY FollowInit, FollowStep, <1>1, PTL DEF ClientSpec

-----------------------------------------------------------------------------
\* Before NewV3Client starts there is nothing to close.
LEMMA ShutInit == ClientInit => ShutInv
BY DEF ClientInit, ClientStart, ShutInv

\* Every step keeps ShutInv; FollowInv says that initConns finds no pool.
LEMMA ShutStep == ShutInv /\ FollowInv /\ [ClientNext]_clientVars => ShutInv'
<1> SUFFICES ASSUME ShutInv, FollowInv, [ClientNext]_clientVars PROVE ShutInv'
  OBVIOUS
<1> USE DEF ShutInv, At, Go, Fail, discVars, connPoolVars, startVars, CloseStep, DiscStep, DialStep
<1>1. CASE NewDNS
  BY <1>1 DEF NewDNS
<1>2. CASE AddEventHandler
  BY <1>2 DEF AddEventHandler
<1>3. CASE InitNetClient
  BY <1>3 DEF InitNetClient
<1>4. CASE GetEndpoints
  BY <1>4 DEF GetEndpoints
<1>5. CASE InitConns
  <2>1. pool = "none"
    BY <1>5 DEF InitConns, FollowInv, BeforePool
  <2> QED
    BY <1>5, <2>1 DEF InitConns
<1>6. CASE InitFramer
  BY <1>6 DEF InitFramer
<1>7. CASE CreateWorker
  <2>1. /\ workers' \in Nat /\ running' \subseteq Nat
        /\ \A w \in running' : w < workers'
    <3>1. CASE UNCHANGED <<workers, running>>
      BY <3>1
    <3>2. CASE workers' = workers + 1 /\ running' = running \cup {workers}
      <4>1. \A w \in running : w \in Nat /\ w < workers + 1
        OBVIOUS
      <4>2. workers \in Nat /\ workers + 1 \in Nat /\ workers < workers + 1
        OBVIOUS
      <4> HIDE DEF ShutInv
      <4> QED
        BY <3>2, <4>1, <4>2
    <3> QED
      BY <1>7, <3>1, <3>2 DEF CreateWorker
  <2>2. pc = "workers" /\ pc' \in {"workers", "ready", "closeDiscoverer"}
    BY <1>7 DEF CreateWorker
  <2>3. UNCHANGED <<disc, pool, dial, net, gaveUp>>
    BY <1>7 DEF CreateWorker
  <2> QED
    BY <2>1, <2>2, <2>3
<1>8. CASE Close
  BY <1>8 DEF Close
<1>9. CASE CloseDiscoverer
  BY <1>9 DEF CloseDiscoverer
<1>10. CASE CloseWorkers
  BY <1>10 DEF CloseWorkers
<1>11. CASE CloseConnPool
  BY <1>11 DEF CloseConnPool
<1>12. CASE WaitDials
  BY <1>12 DEF WaitDials
<1>13. CASE StopNet
  BY <1>13 DEF StopNet
<1>14. CASE TickLookup \/ Lookup \/ CopyHandlers \/ OnEndpointUpdate \/ DiscovererStops
  BY <1>14 DEF TickLookup, Lookup, CopyHandlers, OnEndpointUpdate, DiscovererStops
<1>15. CASE StartDial \/ Connect \/ EnrollContext
  BY <1>15 DEF StartDial, Connect, EnrollContext
<1>16. CASE UNCHANGED clientVars
  BY <1>16 DEF clientVars
<1> QED
  BY <1>1, <1>2, <1>3, <1>4, <1>5, <1>6, <1>7, <1>8, <1>9, <1>10, <1>11, <1>12, <1>13,
     <1>14, <1>15, <1>16 DEF ClientNext, StartStep, CloseSteps, Notifying

\* Close, after an error anywhere in initAll or called by the user, leaves no
\* goroutine of the discoverer, no worker, no open pool and no event loop; and a dial
\* that is still there when the event loop has ended is one whose wait was given up.
THEOREM ShutsDownCleanly == ClientSpec => []CleanShutdown
<1>1. ShutInv => CleanShutdown
  BY DEF ShutInv, CleanShutdown
<1> QED
  BY FollowInit, FollowStep, ShutInit, ShutStep, <1>1, PTL DEF ClientSpec

=============================================================================
