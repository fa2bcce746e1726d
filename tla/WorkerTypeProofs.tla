-------------------------- MODULE WorkerTypeProofs --------------------------
(***************************************************************************)
(* Types of Worker, for every number of messages, batch objects, ids and   *)
(* retries, for V1 and V3, TCP and UDP: what done, doneBatch, backoffRetry *)
(* and sendBatch keep, and the steps of the goroutines outside the loop.   *)
(*                                                                         *)
(* Most types are kept by the step that changes them.  Two are not:        *)
(* sendBatch indexes the maps with the id of its batch, so what is pending *)
(* or in a map must have been given one, and handleSendTimeout takes       *)
(* batches from unackedBatches that must still be there (TimeoutInv).      *)
(***************************************************************************)
EXTENDS Worker, FiniteSetTheorems, TLAPS

-----------------------------------------------------------------------------
\* Types.

\* TypeOK in the groups that the operators on batches change together.
CoreType ==
    /\ batch \in [Batches -> BatchReq]
    /\ result \in [Msgs -> Results]
    /\ calls \in [Msgs -> Nat]
    /\ permits \in Int
    /\ left \in Int
    /\ loop \in Loops

IOType ==
    /\ timers \subseteq Timer
    /\ writes \subseteq Write
    /\ wire \subseteq Request
    /\ unackedBatchCount \in Nat

ChanType ==
    /\ doneBatches \in Seq(DoneReq)
    /\ sendFailedBatches \in Seq(FailedReq)
    /\ retryBatches \in Seq(RetryReq)
    /\ responseBatches \in Seq(Rsp)

CallType ==
    /\ pc \in [Msgs -> {"idle", "checked", "acquired", "queued", "refused", "panicked"}]
    /\ dataChan \in Seq(Msgs)
    /\ dataOpen \in {"open", "closing", "closed"}

RestType ==
    /\ state \in {"ready", "closing", "closed"}
    /\ usedIDs \subseteq BatchIDs
    /\ pending \in Batches \cup {NoBatch}
    /\ expired \subseteq BatchIDs
    /\ drained \in Nat
    /\ closer \in {"idle", "calling", "waiting", "stopping", "done"}
    /\ chansClosed \in BOOLEAN
    /\ posts \subseteq Posted
    /\ acked \subseteq Msgs

\* b has been given an id: it is not as it came from batchPool.New.
HasID(bt, b) == bt[b].batchID \in BatchIDs

\* unackedBatches and retryingBatches hold batches that were given an id.
MapType(bt, f) ==
    /\ f \in [BatchIDs -> Batches \cup {NoBatch}]
    /\ \A id \in BatchIDs : f[id] # NoBatch => HasID(bt, f[id])

\* V1 does not use unackedBatches.
V1Empty(un) == ~IsV3 => \A id \in BatchIDs : un[id] = NoBatch

TypeInv ==
    /\ CoreType /\ IOType /\ ChanType /\ CallType /\ RestType
    /\ MapType(batch, unacked) /\ MapType(batch, retrying)
    /\ V1Empty(unacked)
    /\ pending # NoBatch => HasID(batch, pending)
    /\ loop = "sendData" => pending # NoBatch
    /\ ~IsV3 => loop # "sendTimeout"

\* In handleSendTimeout every id that is still to be treated is in unackedBatches.
TimeoutInv == loop = "sendTimeout" => expired \subseteq Unacked

\* Every operator on batches leaves the ids alone and revives no batch.
Aged == \A c \in Batches : /\ batch'[c].batchID = batch[c].batchID
                           /\ batch[c].finished => batch'[c].finished

\* Entries that stay in a map keep their type.
LEMMA MapAged ==
    ASSUME NEW f, NEW g, MapType(batch, f), Aged,
           g \in [BatchIDs -> Batches \cup {NoBatch}],
           \A id \in BatchIDs : g[id] = f[id] \/ g[id] = NoBatch
    PROVE  MapType(batch', g)
BY DEF MapType, HasID, Aged

\* batchReq.done.
LEMMA DoneType ==
    ASSUME CoreType, NEW b \in Batches, NEW err \in Results, NEW next \in Loops,
           Done(b, err, next)
    PROVE  CoreType' /\ Aged /\ loop' \in {next, "closeAll"}
<1>1. CASE batch[b].finished
  BY <1>1 DEF Done, CoreType, Aged
<1>2. CASE ~batch[b].finished
  <2> DEFINE M == batch[b].reqs
  <2>1. M \subseteq Msgs /\ batch[b] \in BatchReq
    BY DEF CoreType, BatchReq
  <2>2. Cardinality(M) \in Nat
    BY <2>1, ConstantsAssumption, FS_Subset, FS_CardinalityType
  <2>3. /\ batch' = [batch EXCEPT ![b] = Recycled(b)]
        /\ ReqDone(M, err)
        /\ permits' = permits - Cardinality(M)
        /\ left' = IF batch[b].callback THEN left - 1 ELSE left
        /\ loop' \in {next, "closeAll"}
    BY <1>2 DEF Done, Released
  <2>4. Recycled(b) \in BatchReq /\ Recycled(b).batchID = batch[b].batchID /\ Recycled(b).finished
    BY <2>1, Zenon DEF Recycled, PooledBatch, BatchReq
  <2>5. batch' \in [Batches -> BatchReq] /\ Aged
    BY <2>3, <2>4, <1>2 DEF CoreType, Aged
  <2>6. result' \in [Msgs -> Results] /\ calls' \in [Msgs -> Nat]
    BY <2>3 DEF ReqDone, CoreType
  <2>7. permits' \in Int /\ left' \in Int
    BY <2>2, <2>3 DEF CoreType
  <2>8. loop' \in Loops
    BY <2>3 DEF Loops
  <2> QED BY <2>3, <2>5, <2>6, <2>7, <2>8 DEF CoreType
<1> QED BY <1>1, <1>2

\* What doneBatch, backoffRetry and sendBatch keep.
Kept(next) ==
    /\ CoreType' /\ Aged
    /\ MapType(batch', unacked') /\ MapType(batch', retrying')
    /\ V1Empty(unacked')
    /\ loop' \in {next, "closeAll"}

\* worker.doneBatch.
LEMMA DoneBatchType ==
    ASSUME CoreType, NEW un, NEW re, MapType(batch, un), MapType(batch, re), V1Empty(un),
           NEW id \in BatchIDs, NEW b \in Batches, NEW err \in Results, NEW next \in Loops,
           DoneBatch(un, re, id, b, err, next)
    PROVE  Kept(next)
<1> DEFINE reOK == SameLife(id, b) /\ un[id] \in {NoBatch, b} /\ re[id] \in {NoBatch, b}
<1>1. CoreType' /\ Aged /\ loop' \in {next, "closeAll"}
  <2>1. CASE reOK
    <3>1. Done(b, err, next)
      BY <2>1 DEF DoneBatch
    <3> QED BY <3>1, DoneType
  <2>2. CASE ~reOK
    BY <2>2 DEF DoneBatch, CoreType, Aged
  <2> QED BY <2>1, <2>2
<1>2. /\ unacked' \in [BatchIDs -> Batches \cup {NoBatch}]
      /\ \A i \in BatchIDs : unacked'[i] = un[i] \/ unacked'[i] = NoBatch
  BY DEF DoneBatch, MapType
<1>3. /\ retrying' \in [BatchIDs -> Batches \cup {NoBatch}]
      /\ \A i \in BatchIDs : retrying'[i] = re[i] \/ retrying'[i] = NoBatch
  BY DEF DoneBatch, MapType
<1>4. MapType(batch', unacked')
  BY <1>1, <1>2, MapAged
<1>5. MapType(batch', retrying')
  BY <1>1, <1>3, MapAged
<1>6. V1Empty(unacked')
  BY <1>2 DEF V1Empty
<1> QED BY <1>1, <1>4, <1>5, <1>6 DEF Kept

\* worker.backoffRetry.
LEMMA BackoffType ==
    ASSUME CoreType, timers \subseteq Timer,
           NEW un, NEW re, MapType(batch, un), MapType(batch, re), V1Empty(un),
           NEW b \in Batches, HasID(batch, b), NEW next \in Loops,
           BackoffRetry(un, re, b, next)
    PROVE  Kept(next) /\ timers' \subseteq Timer
<1> DEFINE id == batch[b].batchID
           t == [batchID |-> id, batch |-> b, n |-> NextRetries(b)]
<1>0. id \in BatchIDs
  BY DEF HasID
<1>1. CASE re[id] # NoBatch
  <2>1. /\ unacked' = un /\ retrying' = re /\ loop' = next
        /\ UNCHANGED <<batch, result, calls, permits, left, timers>>
    BY <1>1 DEF BackoffRetry
  <2> QED BY <2>1 DEF Kept, CoreType, Aged
<1>2. CASE re[id] = NoBatch /\ (batch[b].retries >= MaxRetries \/ state # "ready")
  <2>1. DoneBatch(un, re, id, b, "timeout", next) /\ timers' = timers
    BY <1>2 DEF BackoffRetry
  <2>2. "timeout" \in Results
    BY DEF Results
  <2> QED BY <2>1, <2>2, <1>0, DoneBatchType
<1>3. CASE re[id] = NoBatch /\ ~(batch[b].retries >= MaxRetries \/ state # "ready")
  <2>1. /\ batch' = [batch EXCEPT ![b].retries = NextRetries(b)]
        /\ unacked' = un
        /\ retrying' = [re EXCEPT ![id] = b]
        /\ timers' = timers \cup {t}
        /\ loop' = next
        /\ UNCHANGED <<result, calls, permits, left>>
    BY <1>3 DEF BackoffRetry
  <2>2. batch[b] \in BatchReq /\ NextRetries(b) \in Nat
    BY DEF CoreType, BatchReq, NextRetries
  <2>3. batch' \in [Batches -> BatchReq] /\ Aged
    BY <2>1, <2>2 DEF CoreType, BatchReq, Aged
  <2>4. CoreType'
    BY <2>1, <2>3 DEF CoreType
  <2>5. MapType(batch', unacked')
    BY <2>1, <2>3, MapAged, Zenon DEF MapType
  <2>6. MapType(batch', retrying')
    BY <2>1, <2>3, <1>0 DEF MapType, HasID, Aged
  <2>7. t \in Timer
    BY <2>2, <1>0 DEF Timer
  <2> QED BY <2>1, <2>3, <2>4, <2>5, <2>6, <2>7 DEF Kept
<1> QED BY <1>1, <1>2, <1>3

\* worker.sendBatch.
LEMMA SendBatchType ==
    ASSUME CoreType, IOType, MapType(batch, unacked), V1Empty(unacked),
           NEW re, MapType(batch, re),
           NEW b \in Batches, HasID(batch, b), NEW retryOnFail \in BOOLEAN, NEW next \in Loops,
           SendBatch(re, b, retryOnFail, next)
    PROVE  Kept(next) /\ IOType'
<1> DEFINE id == batch[b].batchID
           n == batch[b].sends + 1
           req == [batchID |-> id, n |-> n, reqs |-> batch[b].reqs]
           w == [batch |-> b, retry |-> retryOnFail, req |-> req]
<1>0. id \in BatchIDs /\ batch[b] \in BatchReq
  BY DEF HasID, CoreType
<1>e. {"encodeFailed", "timeout", "writeFailed", "ok"} \subseteq Results
  BY DEF Results
<1>t. timers \subseteq Timer
  BY DEF IOType
<1>1. ASSUME NEW err \in Results, DoneBatch(unacked, re, id, b, err, next), UNCHANGED ioVars
      PROVE  Kept(next) /\ IOType'
  <2>1. Kept(next)
    BY <1>1, <1>0, DoneBatchType
  <2>2. IOType'
    BY <1>1 DEF IOType, ioVars
  <2> QED BY <2>1, <2>2
<1>2. CASE WriteRefused(re, b, retryOnFail, next)
  <2>1. CASE state = "ready" /\ retryOnFail
    <3>1. BackoffRetry(unacked, re, b, next) /\ UNCHANGED <<writes, wire, unackedBatchCount>>
      BY <1>2, <2>1 DEF WriteRefused
    <3>2. Kept(next) /\ timers' \subseteq Timer
      BY <3>1, <1>t, BackoffType
    <3> QED BY <3>1, <3>2 DEF IOType
  <2>2. CASE ~(state = "ready" /\ retryOnFail)
    <3>1. DoneBatch(unacked, re, id, b, "writeFailed", next) /\ UNCHANGED ioVars
      BY <1>2, <2>2 DEF WriteRefused, ioVars
    <3> QED BY <3>1, <1>1, <1>e
  <2> QED BY <2>1, <2>2
<1>3. CASE WriteAccepted(re, b, retryOnFail, next)
  <2>1. n \in Nat /\ req \in Request /\ w \in Write
    BY <1>0 DEF BatchReq, Request, Write
  <2>2. writes' \subseteq Write /\ wire' \subseteq Request /\ timers' \subseteq Timer
    BY <1>3, <2>1 DEF WriteAccepted, IOType
  <2>3. unackedBatchCount' \in Nat
    BY <1>3, ConstantsAssumption DEF WriteAccepted, IOType, Min2
  <2>4. CASE DoneWhenWritten /\ ~IsTCP
    <3>1. DoneBatch(unacked, re, id, b, "ok", next)
      BY <1>3, <2>4 DEF WriteAccepted
    <3>2. Kept(next)
      BY <3>1, <1>0, <1>e, DoneBatchType
    <3> QED BY <3>2, <2>2, <2>3 DEF IOType
  <2>5. CASE ~(DoneWhenWritten /\ ~IsTCP)
    <3>1. /\ batch' = [batch EXCEPT ![b].sends = n]
          /\ unacked' = IF IsV3 THEN [unacked EXCEPT ![id] = b] ELSE unacked
          /\ retrying' = re
          /\ loop' = next
          /\ UNCHANGED <<result, calls, permits, left>>
      BY <1>3, <2>5 DEF WriteAccepted
    <3>2. batch' \in [Batches -> BatchReq] /\ Aged
      BY <3>1, <2>1, <1>0 DEF CoreType, BatchReq, Aged
    <3>3. CoreType'
      BY <3>1, <3>2 DEF CoreType
    <3>4. MapType(batch', unacked') /\ V1Empty(unacked')
      BY <3>1, <3>2, <1>0 DEF MapType, HasID, Aged, V1Empty
    <3>5. MapType(batch', retrying')
      BY <3>1, <3>2, MapAged, Zenon DEF MapType
    <3> QED BY <3>1, <3>2, <3>3, <3>4, <3>5, <2>2, <2>3 DEF Kept, IOType
  <2> QED BY <2>4, <2>5
<1> QED BY <1>1, <1>2, <1>3, <1>e DEF SendBatch

\* What is received from a channel, and what is left in it.
LEMMA HeadTail ==
    ASSUME NEW S, NEW s \in Seq(S), s # <<>>
    PROVE  Head(s) \in S /\ Tail(s) \in Seq(S)
OBVIOUS

\* A step that treats batches with the operators above keeps TypeInv.
LEMMA KeptType ==
    ASSUME TypeInv, NEW next \in Loops, Kept(next),
           IOType', ChanType', CallType', RestType',
           pending' = pending \/ pending' = NoBatch,
           next = "sendData" => pending' # NoBatch,
           next = "sendTimeout" => IsV3
    PROVE  TypeInv'
<1>1. pending' # NoBatch => HasID(batch', pending')
  BY DEF TypeInv, Kept, Aged, HasID, RestType
<1>2. (loop' = "sendData" => pending' # NoBatch) /\ (~IsV3 => loop' # "sendTimeout")
  BY DEF Kept
<1> QED BY <1>1, <1>2 DEF TypeInv, Kept

\* Where handleSendData returns to.
LEMMA HomeType == Home \in Loops /\ Home \notin {"sendData", "sendTimeout"}
BY DEF Home, Loops

\* The pending batch is sent and forgotten.
LEMMA SendPendingType ==
    ASSUME TypeInv, pending # NoBatch, NEW retryOnFail \in BOOLEAN,
           NEW next \in Loops, next \notin {"sendData", "sendTimeout"},
           SendBatch(retrying, pending, retryOnFail, next), pending' = NoBatch,
           UNCHANGED <<state, usedIDs, expired, drained, closer, chansClosed, posts, acked,
                       callVars, chanVars>>
    PROVE  TypeInv'
<1>1. pending \in Batches /\ HasID(batch, pending)
  BY DEF TypeInv, RestType
<1>2. Kept(next) /\ IOType'
  BY <1>1, SendBatchType DEF TypeInv
<1>3. ChanType' /\ CallType' /\ RestType'
  BY DEF TypeInv, ChanType, CallType, RestType, chanVars, callVars
<1> QED BY <1>2, <1>3, KeptType

\* A handler that ignores a request.
LEMMA IgnoreType ==
    ASSUME TypeInv, NEW next \in Loops, Ignore(next)
    PROVE  Kept(next) /\ timers' \subseteq Timer
BY DEF TypeInv, Ignore, Kept, CoreType, Aged, IOType, Loops

\* worker.handleRetry.
LEMMA RetryType ==
    ASSUME TypeInv, retryBatches # <<>>, NEW retryOnFail \in BOOLEAN, NEW next \in Loops,
           Retry(retryOnFail, next)
    PROVE  Kept(next) /\ IOType' /\ retryBatches' \in Seq(RetryReq)
<1> DEFINE r == Head(retryBatches)
           re == [retrying EXCEPT ![r.batchID] = NoBatch]
<1>1. r \in RetryReq /\ Tail(retryBatches) \in Seq(RetryReq)
  BY HeadTail DEF TypeInv, ChanType
<1>2. r.batchID \in BatchIDs /\ r.batch \in Batches
  BY <1>1 DEF RetryReq
<1>3. CASE retrying[r.batchID] # r.batch
  <2>1. Ignore(next) /\ UNCHANGED <<writes, wire, unackedBatchCount>> /\ retryBatches' = Tail(retryBatches)
    BY <1>3 DEF Retry
  <2> QED BY <2>1, <1>1, IgnoreType DEF IOType, TypeInv
<1>4. CASE retrying[r.batchID] = r.batch
  <2>1. SendBatch(re, r.batch, retryOnFail, next) /\ retryBatches' = Tail(retryBatches)
    BY <1>4 DEF Retry
  <2>2. HasID(batch, r.batch)
    BY <1>4, <1>2, ConstantsAssumption DEF TypeInv, MapType
  <2>3. MapType(batch, re)
    BY <1>2 DEF TypeInv, MapType
  <2>4. Kept(next) /\ IOType'
    BY <2>1, <2>2, <2>3, <1>2, SendBatchType DEF TypeInv
  <2> QED BY <2>1, <2>4, <1>1
<1> QED BY <1>3, <1>4

\* newWorker.
LEMMA TypeInit == Init => TypeInv
<1> SUFFICES ASSUME Init PROVE TypeInv
  OBVIOUS
<1>1. PooledBatch \in BatchReq
  BY DEF PooledBatch, BatchReq
<1>2. CoreType
  BY <1>1 DEF Init, CoreType, Loops, Results
<1>3. IOType /\ RestType
  BY Zenon DEF Init, IOType, RestType
<1>5. ChanType
  BY DEF Init, ChanType
<1>6. CallType
  BY DEF Init, CallType
<1>4. MapType(batch, unacked) /\ MapType(batch, retrying) /\ V1Empty(unacked)
  BY DEF Init, MapType, V1Empty
<1> QED BY <1>2, <1>3, <1>4, <1>5, <1>6 DEF Init, TypeInv

\* A group of variables that a step leaves alone keeps its types.
LEMMA SameTypes ==
    ASSUME TypeInv
    PROVE  /\ UNCHANGED ioVars => IOType'
           /\ timers' \subseteq Timer /\ UNCHANGED <<writes, wire, unackedBatchCount>> => IOType'
           /\ UNCHANGED chanVars => ChanType'
           /\ UNCHANGED callVars => CallType'
           /\ UNCHANGED restVars => RestType' /\ pending' = pending
<1>1. UNCHANGED ioVars => IOType'
  BY DEF TypeInv, IOType, ioVars
<1>2. timers' \subseteq Timer /\ UNCHANGED <<writes, wire, unackedBatchCount>> => IOType'
  BY DEF TypeInv, IOType
<1>3. UNCHANGED chanVars => ChanType'
  BY DEF TypeInv, ChanType, chanVars
<1>4. UNCHANGED callVars => CallType'
  BY DEF TypeInv, CallType, callVars
<1>5. UNCHANGED restVars => RestType' /\ pending' = pending
  BY DEF TypeInv, RestType, restVars
<1> QED BY <1>1, <1>2, <1>3, <1>4, <1>5

\* A step that leaves the batches alone.
LEMMA SameSendVars ==
    ASSUME TypeInv, UNCHANGED sendVars,
           IOType', ChanType', CallType', RestType', pending' = pending
    PROVE  TypeInv'
<1>1. Kept(loop) /\ loop \in Loops
  BY DEF TypeInv, Kept, sendVars, CoreType, Aged
<1>2. (loop = "sendData" => pending' # NoBatch) /\ (loop = "sendTimeout" => IsV3)
  BY DEF TypeInv
<1> QED BY <1>1, <1>2, KeptType

\* Senders.
LEMMA SendersType ==
    ASSUME TypeInv, NEW m \in Msgs, SendStart(m) \/ SendAcquire(m) \/ SendEnqueue(m)
    PROVE  TypeInv'
<1>1. CASE SendStart(m) \/ SendAcquire(m)
  <2>1. IOType' /\ ChanType' /\ RestType'
    BY <1>1, SameTypes DEF SendStart, SendAcquire
  <2>2. CallType'
    BY <1>1 DEF SendStart, SendAcquire, TypeInv, CallType
  <2>3. result' \in [Msgs -> Results] /\ calls' \in [Msgs -> Nat]
    <3>1. result \in [Msgs -> Results] /\ calls \in [Msgs -> Nat]
      BY DEF TypeInv, CoreType
    <3>2. \/ UNCHANGED <<result, calls>>
          \/ \E err \in Results : ReqDone({m}, err)
      BY <1>1 DEF SendStart, SendAcquire, Refusal, Results
    <3> QED BY <3>1, <3>2 DEF ReqDone
  <2>4. permits' \in Int
    <3>1. permits \in Int
      BY DEF TypeInv, CoreType
    <3>2. permits' = permits \/ permits' = permits + 1
      BY <1>1 DEF SendStart, SendAcquire
    <3> QED BY <3>1, <3>2
  <2>5. UNCHANGED <<batch, unacked, retrying, left, loop>>
    BY <1>1 DEF SendStart, SendAcquire
  <2>6. Kept(loop) /\ loop \in Loops /\ pending' = pending
    BY <1>1, <2>3, <2>4, <2>5 DEF SendStart, SendAcquire, TypeInv, Kept, CoreType, Aged, restVars
  <2>7. (loop = "sendData" => pending' # NoBatch) /\ (loop = "sendTimeout" => IsV3)
    BY <2>6 DEF TypeInv
  <2> QED BY <2>1, <2>2, <2>6, <2>7, KeptType
<1>2. CASE SendEnqueue(m)
  <2>1. IOType' /\ ChanType' /\ RestType' /\ pending' = pending
    BY <1>2, SameTypes DEF SendEnqueue
  <2>2. CallType'
    BY <1>2 DEF SendEnqueue, TypeInv, CallType
  <2> QED BY <1>2, <2>1, <2>2, SameSendVars DEF SendEnqueue
<1> QED BY <1>1, <1>2

\* close(), the backoff goroutines, gnet's callbacks.
LEMMA OthersType ==
    ASSUME TypeInv,
           \/ CloseCall \/ CloseDataChan \/ CloseStop
           \/ \E t \in timers : TimerFires(t) \/ TimerCancelled(t)
           \/ \E w \in writes : WriteDone(w) \/ WriteFails(w)
           \/ \E q \in wire : Response(q)
           \/ \E x \in posts : Post(x)
    PROVE  TypeInv'
<1>m. /\ CoreType /\ IOType /\ V1Empty(unacked)
      /\ MapType(batch, unacked) /\ MapType(batch, retrying)
  BY DEF TypeInv
<1>1. CASE CloseCall \/ CloseStop
  <2>1. IOType' /\ ChanType' /\ CallType' /\ RestType' /\ pending' = pending /\ UNCHANGED sendVars
    <3>1. IOType' /\ ChanType' /\ CallType' /\ UNCHANGED sendVars
      BY <1>1, SameTypes DEF CloseCall, CloseStop
    <3>2. RestType' /\ pending' = pending
      BY <1>1 DEF CloseCall, CloseStop, TypeInv, RestType
    <3> QED BY <3>1, <3>2
  <2> QED BY <2>1, SameSendVars
<1>2. CASE CloseDataChan
  <2>1. IOType' /\ ChanType' /\ CallType' /\ RestType' /\ pending' = pending /\ UNCHANGED sendVars
    <3>1. IOType' /\ ChanType' /\ RestType' /\ pending' = pending /\ UNCHANGED sendVars
      BY <1>2, SameTypes DEF CloseDataChan
    <3>2. CallType'
      BY <1>2 DEF CloseDataChan, TypeInv, CallType
    <3> QED BY <3>1, <3>2
  <2> QED BY <2>1, SameSendVars
<1>3. ASSUME NEW t \in timers, TimerFires(t)
      PROVE  TypeInv'
  <2>1. t \in Timer
    BY DEF TypeInv, IOType
  <2>2. "timeout" \in Results
    BY DEF Results
  <2>3. posts' \subseteq Posted
    <3>1. /\ [to |-> "retry", n |-> t.n,
               req |-> [batchID |-> t.batchID, batch |-> t.batch]] \in Posted
          /\ [to |-> "done", n |-> t.n,
               req |-> [batchID |-> t.batchID, batch |-> t.batch, err |-> "timeout"]] \in Posted
      BY <2>1, <2>2 DEF Timer, Posted, RetryReq, DoneReq
    <3>2. posts \subseteq Posted
      BY DEF TypeInv, RestType
    <3>3. CASE state = "ready"
      BY <1>3, <3>1, <3>2, <3>3 DEF TimerFires
    <3>4. CASE state # "ready"
      BY <1>3, <3>1, <3>2, <3>4 DEF TimerFires
    <3> QED BY <3>3, <3>4
  <2>4. IOType' /\ ChanType' /\ CallType'
    <3>1. ChanType' /\ CallType'
      BY <1>3, SameTypes DEF TimerFires
    <3>2. IOType'
      BY <1>3 DEF TimerFires, TypeInv, IOType
    <3> QED BY <3>1, <3>2
  <2>5. RestType' /\ pending' = pending /\ UNCHANGED sendVars
    BY <1>3, <2>3 DEF TypeInv, TimerFires, RestType
  <2> QED BY <2>4, <2>5, SameSendVars
<1>4. ASSUME NEW t \in timers, TimerCancelled(t)
      PROVE  TypeInv'
  <2>1. IOType' /\ ChanType' /\ CallType' /\ RestType' /\ pending' = pending /\ UNCHANGED sendVars
    <3>1. ChanType' /\ CallType' /\ RestType' /\ pending' = pending /\ UNCHANGED sendVars
      BY <1>4, SameTypes DEF TimerCancelled
    <3>2. IOType'
      BY <1>4 DEF TimerCancelled, TypeInv, IOType
    <3> QED BY <3>1, <3>2
  <2> QED BY <2>1, SameSendVars
<1>5. ASSUME NEW w \in writes, WriteDone(w)
      PROVE  TypeInv'
  <2>1. w \in Write /\ w.req \in Request /\ w.req.batchID \in BatchIDs /\ w.batch \in Batches
    BY DEF TypeInv, IOType, Write, Request
  <2>2. IOType' /\ ChanType' /\ CallType' /\ RestType' /\ pending' = pending
    <3>1. ChanType' /\ CallType' /\ RestType' /\ pending' = pending
      BY <1>5, <2>1, SameTypes DEF WriteDone
    <3>2. IOType'
      BY <1>5, <2>1 DEF WriteDone, TypeInv, IOType
    <3> QED BY <3>1, <3>2
  <2>3. CASE IsV3
    BY <1>5, <2>2, <2>3, SameSendVars DEF WriteDone, DoneWhenWritten
  <2>4. CASE ~IsV3
    <3>1. DoneBatch(unacked, retrying, w.req.batchID, w.batch, "ok", loop)
      BY <1>5, <2>4 DEF WriteDone, DoneWhenWritten
    <3>2. "ok" \in Results /\ loop \in Loops
      BY DEF TypeInv, Results, CoreType
    <3>3. Kept(loop)
      BY <1>m, <3>1, <3>2, <2>1, DoneBatchType
    <3>4. (loop = "sendData" => pending' # NoBatch) /\ (loop = "sendTimeout" => IsV3)
      BY <2>2 DEF TypeInv
    <3> QED BY <2>2, <3>2, <3>3, <3>4, KeptType
  <2> QED BY <2>3, <2>4
<1>6. ASSUME NEW w \in writes, WriteFails(w)
      PROVE  TypeInv'
  <2>1. w \in Write /\ w.req \in Request
    BY DEF TypeInv, IOType, Write
  <2>2. "writeFailed" \in Results
    BY DEF Results
  <2>3. posts' \subseteq Posted
    <3>1. /\ [to |-> "failed", n |-> w.req.n,
               req |-> [batchID |-> w.req.batchID, batch |-> w.batch, retry |-> w.retry]] \in Posted
          /\ [to |-> "done", n |-> w.req.n,
               req |-> [batchID |-> w.req.batchID, batch |-> w.batch,
                        err |-> "writeFailed"]] \in Posted
      BY <2>1, <2>2 DEF Write, Request, Posted, FailedReq, DoneReq
    <3>2. posts \subseteq Posted
      BY DEF TypeInv, RestType
    <3>3. CASE state = "ready"
      BY <1>6, <3>1, <3>2, <3>3 DEF WriteFails
    <3>4. CASE state # "ready"
      BY <1>6, <3>1, <3>2, <3>4 DEF WriteFails
    <3> QED BY <3>3, <3>4
  <2>4. IOType' /\ ChanType' /\ CallType'
    <3>1. ChanType' /\ CallType'
      BY <1>6, SameTypes DEF WriteFails
    <3>2. IOType'
      BY <1>6 DEF WriteFails, TypeInv, IOType
    <3> QED BY <3>1, <3>2
  <2>5. RestType' /\ pending' = pending /\ UNCHANGED sendVars
    BY <1>6, <2>3 DEF TypeInv, WriteFails, RestType
  <2> QED BY <2>4, <2>5, SameSendVars
<1>7. ASSUME NEW q \in wire, Response(q)
      PROVE  TypeInv'
  <2>1. q \in Request
    BY DEF TypeInv, IOType
  <2>3. posts' \subseteq Posted /\ acked' \subseteq Msgs
    <3>1. PICK ok \in BOOLEAN :
             /\ acked' = IF ok THEN acked \cup q.reqs ELSE acked
             /\ posts' = IF state = "closed" THEN posts
                         ELSE posts \cup {[to |-> "rsp", n |-> q.n,
                                           req |-> [batchID |-> q.batchID, ok |-> ok]]}
      BY <1>7, Zenon DEF Response
    <3>2. [to |-> "rsp", n |-> q.n, req |-> [batchID |-> q.batchID, ok |-> ok]] \in Posted
      BY <2>1 DEF Request, Posted, Rsp
    <3>3. posts \subseteq Posted /\ acked \subseteq Msgs /\ q.reqs \subseteq Msgs
      BY <2>1 DEF TypeInv, RestType, Request
    <3>4. posts' \subseteq Posted
      BY <3>1, <3>2, <3>3
    <3>5. acked' \subseteq Msgs
      BY <3>1, <3>3
    <3> QED BY <3>4, <3>5
  <2>4. IOType' /\ ChanType' /\ CallType'
    <3>1. ChanType' /\ CallType'
      BY <1>7, SameTypes DEF Response
    <3>2. IOType'
      BY <1>7 DEF Response, TypeInv, IOType
    <3> QED BY <3>1, <3>2
  <2>5. RestType' /\ pending' = pending /\ UNCHANGED sendVars
    BY <1>7, <2>3 DEF TypeInv, Response, RestType
  <2> QED BY <2>4, <2>5, SameSendVars
<1>8. ASSUME NEW x \in posts, Post(x)
      PROVE  TypeInv'
  <2>1. /\ x.to = "done" => x.req \in DoneReq
        /\ x.to = "failed" => x.req \in FailedReq
        /\ x.to = "retry" => x.req \in RetryReq
        /\ x.to = "rsp" => x.req \in Rsp
    BY DEF TypeInv, RestType, Posted
  <2>2. doneBatches' \in Seq(DoneReq) /\ sendFailedBatches' \in Seq(FailedReq)
    <3>1. doneBatches \in Seq(DoneReq) /\ sendFailedBatches \in Seq(FailedReq)
      BY DEF TypeInv, ChanType
    <3>2. doneBatches' = IF x.to = "done" /\ ~chansClosed THEN Append(doneBatches, x.req) ELSE doneBatches
      BY <1>8, Zenon DEF Post
    <3>3. sendFailedBatches' = IF x.to = "failed" /\ ~chansClosed
                                 THEN Append(sendFailedBatches, x.req) ELSE sendFailedBatches
      BY <1>8, Zenon DEF Post
    <3> QED BY <2>1, <3>1, <3>2, <3>3
  <2>3. retryBatches' \in Seq(RetryReq) /\ responseBatches' \in Seq(Rsp)
    <3>1. retryBatches \in Seq(RetryReq) /\ responseBatches \in Seq(Rsp)
      BY DEF TypeInv, ChanType
    <3>2. retryBatches' = IF x.to = "retry" /\ ~chansClosed THEN Append(retryBatches, x.req) ELSE retryBatches
      BY <1>8, Zenon DEF Post
    <3>3. responseBatches' = IF x.to = "rsp" /\ ~chansClosed THEN Append(responseBatches, x.req) ELSE responseBatches
      BY <1>8, Zenon DEF Post
    <3> QED BY <2>1, <3>1, <3>2, <3>3
  <2>4. IOType' /\ CallType' /\ RestType' /\ pending' = pending /\ UNCHANGED sendVars
    <3>1. IOType' /\ CallType' /\ UNCHANGED sendVars
      BY <1>8, SameTypes DEF Post
    <3>2. RestType' /\ pending' = pending
      BY <1>8 DEF Post, TypeInv, RestType
    <3> QED BY <3>1, <3>2
  <2> QED BY <2>2, <2>3, <2>4, SameSendVars DEF TypeInv, ChanType
<1> QED BY <1>1, <1>2, <1>3, <1>4, <1>5, <1>6, <1>7, <1>8

=============================================================================
