------------------------------- MODULE Worker -------------------------------
(***************************************************************************)
(* One worker of tglog/worker.go with the batches of tglog/request.go: the *)
(* goroutines that call doSendAsync, the worker's select loop, the gnet    *)
(* event loop that completes asynchronous writes and delivers responses,   *)
(* the backoff goroutines of backoffRetry, and the goroutine in close().   *)
(*                                                                         *)
(* Every select case of the loop is one action, or a few when a handler    *)
(* runs sendBatch on a batch it has just changed; `loop' says where the    *)
(* loop is.  The other goroutines check the worker's state in one step and *)
(* send on a channel in a later one, as they do in the code: `posts' holds *)
(* the goroutines between the two.                                         *)
(*                                                                         *)
(* A batch object comes from batchPool and goes back there when it is      *)
(* done, so a request that still points to it may meet its next life: the  *)
(* object is a member of Batches, the life is its batchID.  Choosing the   *)
(* connection (getConn, updateConn, putConn) is not part of this module.   *)
(***************************************************************************)
EXTENDS Integers, Sequences, FiniteSets

CONSTANTS
    Msgs,                 \* the messages of the run, each is sent once
    Size,                 \* Size[m]: length of the payload of m
    Batches, NoBatch,     \* the objects of batchPool, and nil
    BatchIDs, NoID,       \* the ids buildBatchID may return, and ""
    IsV3, IsTCP,          \* options.isV3 (else V1) and options.isTCP (else UDP)
    BlockIfQueueIsFull,
    MaxPendingMessages,   \* capacity of the semaphore and of the channels
    BatchingMaxMessages,
    BatchingMaxSize,
    MaxRetries,
    maxUDPReqSizeV1, maxUDPReqSizeV3, maxTCPReqSizeV1,
    defaultMapCleanThreshold

\* What ValidateAndSetDefault guarantees; payload sizes are lengths; ids are unique.
ASSUME ConstantsAssumption ==
    /\ IsFiniteSet(Msgs) /\ IsFiniteSet(BatchIDs)
    /\ Size \in [Msgs -> Nat]
    /\ NoBatch \notin Batches
    /\ NoID \notin BatchIDs
    /\ {IsV3, IsTCP, BlockIfQueueIsFull} \subseteq BOOLEAN
    /\ {MaxPendingMessages, BatchingMaxMessages, BatchingMaxSize, MaxRetries} \subseteq Nat \ {0}
    /\ {maxUDPReqSizeV1, maxUDPReqSizeV3, maxTCPReqSizeV1} \subseteq Nat
    /\ defaultMapCleanThreshold \in Nat

VARIABLES
    \* the callers of doSendAsync
    pc,                   \* where the call for each message is
    result,               \* the error its callback got, "none" before
    calls,                \* how often its callback was called
    permits,              \* dataSemaphore
    dataChan, dataOpen,   \* dataChan and whether it is open, being closed, closed
    \* the worker's loop
    state,                \* w.state
    loop,                 \* where the loop is
    batch,                \* the fields of the batch objects
    usedIDs,              \* ids returned by buildBatchID so far
    pending,              \* pendingBatches (it has one key)
    unacked, retrying,    \* unackedBatches, retryingBatches
    unackedBatchCount,
    expired,              \* handleSendTimeout: the ids still to be treated
    drained,              \* handleClose: i of the draining loops
    left,                 \* handleClose: left
    closer,               \* where the goroutine in close() is
    \* the worker's channels
    doneBatches, sendFailedBatches, retryBatches, responseBatches,
    chansClosed,          \* closeAll has closed them
    \* the other goroutines and the network
    timers,               \* backoff goroutines that wait
    writes,               \* AsyncWrites queued in gnet
    posts,                \* goroutines about to send on one of the channels
    wire,                 \* requests that reached the server and have no response
    acked                 \* messages the server has confirmed

sendVars == <<batch, unacked, retrying, result, calls, permits, left, loop>>
ioVars   == <<timers, writes, wire, unackedBatchCount>>
chanVars == <<doneBatches, sendFailedBatches, retryBatches, responseBatches>>
callVars == <<pc, dataChan, dataOpen>>
restVars == <<state, usedIDs, pending, expired, drained, closer, chansClosed, posts, acked>>
vars == <<sendVars, ioVars, chanVars, callVars, restVars>>

Results == {"none", "ok", "badLog", "closed", "tooLong", "full", "expired",
            "timeout", "writeFailed", "serverError", "encodeFailed"}

BatchReq == [batchID : BatchIDs \cup {NoID}, reqs : SUBSET Msgs, dataSize : Nat,
             retries : Nat, finished : BOOLEAN, callback : BOOLEAN, sends : Nat]

\* An object that is in batchPool counts as finished.
PooledBatch == [batchID |-> NoID, reqs |-> {}, dataSize |-> 0, retries |-> 0,
                finished |-> TRUE, callback |-> FALSE, sends |-> 0]

NewBatch(id) == [PooledBatch EXCEPT !.batchID = id, !.finished = FALSE]

Live == {b \in Batches : ~batch[b].finished}

Init ==
    /\ pc = [m \in Msgs |-> "idle"]
    /\ result = [m \in Msgs |-> "none"]
    /\ calls = [m \in Msgs |-> 0]
    /\ permits = 0
    /\ dataChan = <<>> /\ dataOpen = "open"
    /\ state = "ready" /\ loop = "select"
    /\ batch = [b \in Batches |-> PooledBatch]
    /\ usedIDs = {}
    /\ pending = NoBatch
    /\ unacked = [id \in BatchIDs |-> NoBatch]
    /\ retrying = [id \in BatchIDs |-> NoBatch]
    /\ unackedBatchCount = 0
    /\ expired = {} /\ drained = 0 /\ left = 0 /\ closer = "idle"
    /\ doneBatches = <<>> /\ sendFailedBatches = <<>>
    /\ retryBatches = <<>> /\ responseBatches = <<>>
    /\ chansClosed = FALSE
    /\ timers = {} /\ writes = {} /\ posts = {} /\ wire = {} /\ acked = {}

-----------------------------------------------------------------------------
\* Callers: doSendAsync.

\* sendDataReq.done for the messages of M: the callback gets err.
ReqDone(M, err) ==
    /\ result' = [m \in Msgs |-> IF m \in M THEN err ELSE result[m]]
    /\ calls' = [m \in Msgs |-> IF m \in M THEN calls[m] + 1 ELSE calls[m]]

MaxReqSize == IF IsTCP THEN maxTCPReqSizeV1 ELSE maxUDPReqSizeV1

\* Why doSendAsync turns m away before it asks for a permit.
Refusal(m) ==
    IF Size[m] = 0 THEN "badLog"
    ELSE IF state # "ready" THEN "closed"
    ELSE IF Size[m] > MaxReqSize THEN "tooLong"
    ELSE "none"

SendStart(m) ==
    /\ pc[m] = "idle"
    /\ IF Refusal(m) = "none"
         THEN /\ pc' = [pc EXCEPT ![m] = "checked"]
              /\ UNCHANGED <<result, calls>>
         ELSE /\ pc' = [pc EXCEPT ![m] = "refused"]
              /\ ReqDone({m}, Refusal(m))
    /\ UNCHANGED <<permits, dataChan, dataOpen, batch, unacked, retrying, left, loop,
                   ioVars, chanVars, restVars>>

\* Mutant: the semaphore has one permit too many.
SendAcquireOneMore(m) ==
    /\ pc[m] = "checked"
    /\ permits <= MaxPendingMessages
    /\ permits' = permits + 1
    /\ pc' = [pc EXCEPT ![m] = "acquired"]
    /\ UNCHANGED <<dataChan, dataOpen, batch, unacked, retrying, result, calls, left, loop,
                   ioVars, chanVars, restVars>>

\* TryAcquire, or Acquire(ctx) that waits for a permit until ctx expires.
SendAcquire(m) ==
    /\ pc[m] = "checked"
    /\ \/ /\ permits < MaxPendingMessages
          /\ permits' = permits + 1
          /\ pc' = [pc EXCEPT ![m] = "acquired"]
          /\ UNCHANGED <<result, calls>>
       \/ /\ permits >= MaxPendingMessages
          /\ ReqDone({m}, IF BlockIfQueueIsFull THEN "expired" ELSE "full")
          /\ pc' = [pc EXCEPT ![m] = "refused"]
          /\ UNCHANGED permits
    /\ UNCHANGED <<dataChan, dataOpen, batch, unacked, retrying, left, loop,
                   ioVars, chanVars, restVars>>

\* w.dataChan <- req, which panics when the channel is closed.
SendEnqueue(m) ==
    /\ pc[m] = "acquired"
    /\ IF dataOpen = "closed"
         THEN /\ pc' = [pc EXCEPT ![m] = "panicked"]
              /\ UNCHANGED dataChan
         ELSE /\ Len(dataChan) < MaxPendingMessages
              /\ dataChan' = Append(dataChan, m)
              /\ pc' = [pc EXCEPT ![m] = "queued"]
    /\ UNCHANGED <<dataOpen, sendVars, ioVars, chanVars, restVars>>

-----------------------------------------------------------------------------
\* Completing, retrying and sending a batch.  These operators give sendVars (and
\* ioVars) their next values; `un' and `re' are unackedBatches and
\* retryingBatches as the caller leaves them, `next' is where the loop goes on.

\* Mutant: done releases one permit for the whole batch.
ReleasedOnce(M) == 1

\* The permits that sendDataReq.done gives back for the messages of M.
Released(M) == Cardinality(M)

\* Mutant: dataReqs is not emptied.
RecycledWithReqs(b) ==
    [PooledBatch EXCEPT !.batchID = batch[b].batchID, !.reqs = batch[b].reqs]

\* The object back in the pool: it keeps its batchID until it is used again; its
\* sizes and counters are dead until then.
Recycled(b) == [PooledBatch EXCEPT !.batchID = batch[b].batchID]

\* batchReq.done: complete the messages, release their permits, call the
\* callback of handleClose (the last one starts closeAll), back to the pool.
Done(b, err, next) ==
    LET M == batch[b].reqs
        last == batch[b].callback /\ left <= 1
    IN  IF batch[b].finished
          THEN /\ loop' = next
               /\ UNCHANGED <<batch, result, calls, permits, left>>
          ELSE /\ batch' = [batch EXCEPT ![b] = Recycled(b)]
               /\ ReqDone(M, err)
               /\ permits' = permits - Released(M)
               /\ left' = IF batch[b].callback THEN left - 1 ELSE left
               /\ loop' = IF last THEN "closeAll" ELSE next

\* Mutant: the batchID of the object is not compared with the request's.
SameLifeAssumed(id, b) == TRUE

\* Is b still in the life that the request for batchID id was made in?
SameLife(id, b) == batch[b].batchID = id

\* worker.doneBatch.
DoneBatch(un, re, id, b, err, next) ==
    LET unOK == SameLife(id, b) /\ un[id] \in {NoBatch, b}
        reOK == unOK /\ re[id] \in {NoBatch, b}
    IN  /\ unacked' = IF unOK THEN [un EXCEPT ![id] = NoBatch] ELSE un
        /\ retrying' = IF reOK THEN [re EXCEPT ![id] = NoBatch] ELSE re
        /\ IF reOK THEN Done(b, err, next)
                   ELSE /\ loop' = next
                        /\ UNCHANGED <<batch, result, calls, permits, left>>

\* A request that no longer concerns anybody is dropped.
Ignore(next) ==
    /\ loop' = next
    /\ UNCHANGED <<batch, unacked, retrying, result, calls, permits, left, timers>>

\* Mutant: a retry is not counted.
NextRetriesSame(b) == batch[b].retries

\* Mutant: retries counts down.
NextRetriesDown(b) == batch[b].retries - 1

NextRetries(b) == batch[b].retries + 1

\* worker.backoffRetry.
BackoffRetry(un, re, b, next) ==
    LET id == batch[b].batchID
    IN  IF re[id] # NoBatch
          THEN /\ unacked' = un /\ retrying' = re /\ loop' = next
               /\ UNCHANGED <<batch, result, calls, permits, left, timers>>
        ELSE IF batch[b].retries >= MaxRetries \/ state # "ready"
          THEN /\ DoneBatch(un, re, id, b, "timeout", next)
               /\ UNCHANGED timers
        ELSE /\ batch' = [batch EXCEPT ![b].retries = NextRetries(b)]
             /\ unacked' = un
             /\ retrying' = [re EXCEPT ![id] = b]
             /\ timers' = timers \cup {[batchID |-> id, batch |-> b, n |-> NextRetries(b)]}
             /\ loop' = next
             /\ UNCHANGED <<result, calls, permits, left>>

\* AsyncWrite returned an error: onErr(conn, err, false).
WriteRefused(re, b, retryOnFail, next) ==
    /\ IF state = "ready" /\ retryOnFail
         THEN BackoffRetry(unacked, re, b, next)
         ELSE /\ DoneBatch(unacked, re, batch[b].batchID, b, "writeFailed", next)
              /\ UNCHANGED timers
    /\ UNCHANGED <<writes, wire, unackedBatchCount>>

\* Mutant: onOK finishes the batch for V3 too.
DoneWhenWrittenAlways == TRUE

\* onOK: V1 has no responses, a batch that is written is done.
DoneWhenWritten == ~IsV3

Min2(x, y) == IF x < y THEN x ELSE y

\* AsyncWrite returned nil.  On TCP the data is queued in gnet, on UDP it is
\* sent: V1 is done with it, V3 waits for the response.  The counter of map
\* writes is only compared with the threshold, so it stops there.
WriteAccepted(re, b, retryOnFail, next) ==
    LET id == batch[b].batchID
        n == batch[b].sends + 1
        req == [batchID |-> id, n |-> n, reqs |-> batch[b].reqs]
    IN  /\ writes' = IF IsTCP THEN writes \cup {[batch |-> b, retry |-> retryOnFail, req |-> req]}
                              ELSE writes
        /\ wire' = IF IsV3 /\ ~IsTCP THEN wire \cup {req} ELSE wire
        /\ UNCHANGED timers
        /\ IF DoneWhenWritten /\ ~IsTCP
             THEN /\ DoneBatch(unacked, re, id, b, "ok", next)
                  /\ UNCHANGED unackedBatchCount
             ELSE /\ batch' = [batch EXCEPT ![b].sends = n]
                  /\ unacked' = IF IsV3 THEN [unacked EXCEPT ![id] = b] ELSE unacked
                  /\ unackedBatchCount' = IF IsV3
                         THEN Min2(unackedBatchCount + 1, defaultMapCleanThreshold)
                         ELSE unackedBatchCount
                  /\ retrying' = re
                  /\ loop' = next
                  /\ UNCHANGED <<result, calls, permits, left>>

\* worker.sendBatch.  encode may fail (the key, the marshalling), but only the
\* first time: a retry finds the encoded buffer.
SendBatch(re, b, retryOnFail, next) ==
    \/ /\ batch[b].retries = 0 \/ batch[b].retries > MaxRetries
       /\ DoneBatch(unacked, re, batch[b].batchID, b,
                    IF batch[b].retries = 0 THEN "encodeFailed" ELSE "timeout", next)
       /\ UNCHANGED ioVars
    \/ /\ batch[b].retries <= MaxRetries
       /\ WriteRefused(re, b, retryOnFail, next)
    \/ /\ batch[b].retries <= MaxRetries
       /\ WriteAccepted(re, b, retryOnFail, next)

-----------------------------------------------------------------------------
\* The select loop.

\* Mutant: the size is checked without the message that is to be appended.
OverflowsLate ==
    /\ pending # NoBatch
    /\ ~IsTCP
    /\ batch[pending].dataSize > (IF IsV3 THEN maxUDPReqSizeV3 ELSE maxUDPReqSizeV1)

\* Does the head of dataChan not fit into the pending batch's datagram?
Overflows ==
    /\ pending # NoBatch
    /\ ~IsTCP
    /\ Size[Head(dataChan)] + batch[pending].dataSize
           > (IF IsV3 THEN maxUDPReqSizeV3 ELSE maxUDPReqSizeV1)

\* handleSendData runs from the loop, and from handleClose while it drains dataChan.
Home == IF state = "ready" THEN "select" ELSE "drainData"

\* handleSendData, first part: send the pending batch that has no room left.
SplitBatch ==
    /\ loop = Home /\ dataChan # <<>> /\ Overflows
    /\ SendBatch(retrying, pending, TRUE, "append")
    /\ pending' = NoBatch
    /\ UNCHANGED <<state, usedIDs, expired, drained, closer, chansClosed, posts, acked,
                   callVars, chanVars>>

\* handleSendData, second part: append to the pending or to a new batch.  flush
\* is the request's flushImmediately (Send sets it, SendAsync does not).
AppendData ==
    /\ dataChan # <<>>
    /\ loop = "append" \/ (loop = Home /\ ~Overflows)
    /\ dataChan' = Tail(dataChan)
    /\ LET m == Head(dataChan)
           Add(r) == [r EXCEPT !.reqs = @ \cup {m}, !.dataSize = @ + Size[m]]
       IN  /\ \/ /\ pending # NoBatch
                 /\ batch' = [batch EXCEPT ![pending] = Add(@)]
                 /\ UNCHANGED <<pending, usedIDs>>
              \/ /\ pending = NoBatch
                 /\ \E b \in Batches \ Live, id \in BatchIDs \ usedIDs :
                       /\ batch' = [batch EXCEPT ![b] = Add(NewBatch(id))]
                       /\ pending' = b
                       /\ usedIDs' = usedIDs \cup {id}
           /\ \E flush \in BOOLEAN :
                 loop' = IF \/ flush
                            \/ Cardinality(batch'[pending'].reqs) >= BatchingMaxMessages
                            \/ batch'[pending'].dataSize >= BatchingMaxSize
                         THEN "sendData" ELSE Home
    /\ UNCHANGED <<pc, dataOpen, unacked, retrying, result, calls, permits, left,
                   state, expired, drained, closer, chansClosed, posts, acked, ioVars, chanVars>>

\* handleSendData, last part: send the batch and forget it.
SendData ==
    /\ loop = "sendData"
    /\ SendBatch(retrying, pending, TRUE, Home)
    /\ pending' = NoBatch
    /\ UNCHANGED <<state, usedIDs, expired, drained, closer, chansClosed, posts, acked,
                   callVars, chanVars>>

\* handleBatchTimeout; the ticker is stopped when the worker closes.
HandleBatchTimeout ==
    /\ loop = "select" /\ state = "ready" /\ pending # NoBatch
    /\ SendBatch(retrying, pending, TRUE, "select")
    /\ pending' = NoBatch
    /\ UNCHANGED <<state, usedIDs, expired, drained, closer, chansClosed, posts, acked,
                   callVars, chanVars>>

Unacked == {id \in BatchIDs : unacked[id] # NoBatch}
Retrying == {id \in BatchIDs : retrying[id] # NoBatch}

\* Mutant: the ticker is stopped as soon as the worker closes.
SendTimeoutTickWhenReady ==
    /\ loop = "select" /\ state = "ready"
    /\ expired' \in (SUBSET Unacked) \ {{}}
    /\ loop' = "sendTimeout"
    /\ UNCHANGED <<batch, unacked, retrying, result, calls, permits, left,
                   state, usedIDs, pending, drained, closer, chansClosed, posts, acked,
                   callVars, ioVars, chanVars>>

\* handleSendTimeout: some unacked batches are too old.  The ticker runs for V3
\* until closeAll; unackedBatches is empty for V1.
SendTimeoutTick ==
    /\ loop = "select" /\ state # "closed"
    /\ expired' \in (SUBSET Unacked) \ {{}}
    /\ loop' = "sendTimeout"
    /\ UNCHANGED <<batch, unacked, retrying, result, calls, permits, left,
                   state, usedIDs, pending, drained, closer, chansClosed, posts, acked,
                   callVars, ioVars, chanVars>>

\* handleSendTimeout: one round of its loop.
HandleSendTimeout ==
    /\ loop = "sendTimeout"
    /\ \E id \in expired :
          /\ expired' = expired \ {id}
          /\ BackoffRetry([unacked EXCEPT ![id] = NoBatch], retrying, unacked[id],
                          IF expired' = {} THEN "select" ELSE "sendTimeout")
    /\ UNCHANGED <<writes, wire, unackedBatchCount, state, usedIDs, pending, drained, closer,
                   chansClosed, posts, acked, callVars, chanVars>>

\* handleCleanMap: fresh copies of the two maps, counter reset.
HandleCleanMap ==
    /\ loop = "select" /\ state = "ready" /\ IsV3
    /\ unackedBatchCount >= defaultMapCleanThreshold
    /\ unacked' = [id \in BatchIDs |-> unacked[id]]
    /\ retrying' = [id \in BatchIDs |-> retrying[id]]
    /\ unackedBatchCount' = 0
    /\ UNCHANGED <<batch, result, calls, permits, left, loop, timers, writes, wire,
                   callVars, chanVars, restVars>>

\* doneBatches: doneBatch for a batch another goroutine has given up.
HandleDone ==
    /\ loop = "select" /\ doneBatches # <<>>
    /\ LET r == Head(doneBatches)
       IN  DoneBatch(unacked, retrying, r.batchID, r.batch, r.err, "select")
    /\ doneBatches' = Tail(doneBatches)
    /\ UNCHANGED <<sendFailedBatches, retryBatches, responseBatches, callVars, ioVars, restVars>>

\* Mutant: a batch that is not retried is taken out of unackedBatches, not done.
HandleSendFailedDrops ==
    /\ loop = "select" /\ sendFailedBatches # <<>>
    /\ LET r == Head(sendFailedBatches)
       IN  IF unacked[r.batchID] = r.batch /\ ~(r.retry /\ state = "ready")
             THEN /\ unacked' = [unacked EXCEPT ![r.batchID] = NoBatch]
                  /\ loop' = "select"
                  /\ UNCHANGED <<batch, retrying, result, calls, permits, left, timers>>
             ELSE Ignore("select")
    /\ sendFailedBatches' = Tail(sendFailedBatches)
    /\ UNCHANGED <<doneBatches, retryBatches, responseBatches, writes, wire, unackedBatchCount,
                   callVars, restVars>>

\* Mutant: the check for an unacked batch is made for V1 too.
HandleSendFailedUnacked ==
    /\ loop = "select" /\ sendFailedBatches # <<>>
    /\ unacked[Head(sendFailedBatches).batchID] # Head(sendFailedBatches).batch
    /\ Ignore("select")
    /\ sendFailedBatches' = Tail(sendFailedBatches)
    /\ UNCHANGED <<doneBatches, retryBatches, responseBatches, writes, wire, unackedBatchCount,
                   callVars, restVars>>

\* handleSendFailed.
HandleSendFailed ==
    /\ loop = "select" /\ sendFailedBatches # <<>>
    /\ LET r == Head(sendFailedBatches)
           un == IF IsV3 THEN [unacked EXCEPT ![r.batchID] = NoBatch] ELSE unacked
       IN  IF \/ ~SameLife(r.batchID, r.batch)
              \/ IsV3 /\ unacked[r.batchID] # r.batch
             THEN Ignore("select")
           ELSE IF r.retry /\ state = "ready"
             THEN BackoffRetry(un, retrying, r.batch, "select")
           ELSE /\ DoneBatch(un, retrying, r.batchID, r.batch, "writeFailed", "select")
                /\ UNCHANGED timers
    /\ sendFailedBatches' = Tail(sendFailedBatches)
    /\ UNCHANGED <<doneBatches, retryBatches, responseBatches, writes, wire, unackedBatchCount,
                   callVars, restVars>>

\* handleRetry of the request at the head of retryBatches.
Retry(retryOnFail, next) ==
    LET r == Head(retryBatches)
    IN  /\ retryBatches' = Tail(retryBatches)
        /\ IF retrying[r.batchID] # r.batch
              THEN Ignore(next) /\ UNCHANGED <<writes, wire, unackedBatchCount>>
              ELSE SendBatch([retrying EXCEPT ![r.batchID] = NoBatch], r.batch, retryOnFail, next)

HandleRetry ==
    /\ loop = "select" /\ retryBatches # <<>>
    /\ Retry(TRUE, "select")
    /\ UNCHANGED <<doneBatches, sendFailedBatches, responseBatches, callVars, restVars>>

\* handleRsp: the batch is waiting for the response, or for its next attempt.
HandleRsp ==
    /\ loop = "select" /\ responseBatches # <<>>
    /\ LET r == Head(responseBatches)
           err == IF r.ok THEN "ok" ELSE "serverError"
           b == IF unacked[r.batchID] # NoBatch THEN unacked[r.batchID] ELSE retrying[r.batchID]
       IN  IF b = NoBatch
             THEN Ignore("select")
             ELSE DoneBatch(unacked, retrying, r.batchID, b, err, "select") /\ UNCHANGED timers
    /\ responseBatches' = Tail(responseBatches)
    /\ UNCHANGED <<doneBatches, sendFailedBatches, retryBatches, writes, wire, unackedBatchCount,
                   callVars, restVars>>

-----------------------------------------------------------------------------
\* Closing.

\* close(): the request waits for the loop on the unbuffered cmdChan.
CloseCall ==
    /\ closer = "idle" /\ state = "ready"
    /\ closer' = "calling"
    /\ UNCHANGED <<sendVars, ioVars, chanVars, callVars, state, usedIDs, pending, expired, drained,
                   chansClosed, posts, acked>>

\* handleClose: stop the tickers, let a goroutine close dataChan.
HandleClose ==
    /\ loop = "select" /\ closer = "calling"
    /\ state' = "closing" /\ closer' = "waiting"
    /\ dataOpen' = "closing"
    /\ loop' = "drainData"
    /\ UNCHANGED <<pc, dataChan, batch, unacked, retrying, result, calls, permits, left,
                   usedIDs, pending, expired, drained, chansClosed, posts, acked, ioVars, chanVars>>

\* The goroutine that closes dataChan.
CloseDataChan ==
    /\ dataOpen = "closing"
    /\ dataOpen' = "closed"
    /\ UNCHANGED <<pc, dataChan, sendVars, ioVars, chanVars, restVars>>

\* Mutant: the pending batch is forgotten.
FlushPendingSkipped ==
    /\ loop = "drainData" /\ dataChan = <<>> /\ dataOpen = "closed"
    /\ Ignore("drainDone")
    /\ pending' = NoBatch
    /\ UNCHANGED <<writes, wire, unackedBatchCount, state, usedIDs, expired, drained, closer,
                   chansClosed, posts, acked, callVars, chanVars>>

\* `range w.dataChan' ends when the channel is closed and empty; then the
\* pending batch is sent once.
FlushPending ==
    /\ loop = "drainData" /\ dataChan = <<>> /\ dataOpen = "closed"
    /\ IF pending = NoBatch
         THEN Ignore("drainDone") /\ UNCHANGED <<writes, wire, unackedBatchCount>>
         ELSE SendBatch(retrying, pending, FALSE, "drainDone")
    /\ pending' = NoBatch
    /\ UNCHANGED <<state, usedIDs, expired, drained, closer, chansClosed, posts, acked,
                   callVars, chanVars>>

\* for i := 0; i < len(w.doneBatches); i++
DrainDone ==
    /\ loop = "drainDone"
    /\ IF drained < Len(doneBatches)
         THEN /\ LET r == Head(doneBatches)
                 IN  DoneBatch(unacked, retrying, r.batchID, r.batch, r.err, "drainDone")
              /\ doneBatches' = Tail(doneBatches)
              /\ drained' = drained + 1
              /\ UNCHANGED timers
         ELSE /\ Ignore("drainRetry")
              /\ drained' = 0
              /\ UNCHANGED doneBatches
    /\ UNCHANGED <<sendFailedBatches, retryBatches, responseBatches, writes, wire, unackedBatchCount,
                   callVars, state, usedIDs, pending, expired, closer, chansClosed, posts, acked>>

\* for i := 0; i < len(w.retryBatches); i++
DrainRetry ==
    /\ loop = "drainRetry"
    /\ IF drained < Len(retryBatches)
         THEN /\ Retry(FALSE, "drainRetry")
              /\ drained' = drained + 1
         ELSE /\ Ignore("flushRetrying")
              /\ drained' = 0
              /\ UNCHANGED <<retryBatches, writes, wire, unackedBatchCount>>
    /\ UNCHANGED <<doneBatches, sendFailedBatches, responseBatches,
                   callVars, state, usedIDs, pending, expired, closer, chansClosed, posts, acked>>

\* Mutant: the batches that back off are forgotten.
FlushRetryingSkipped ==
    /\ loop = "flushRetrying"
    /\ Ignore("register")
    /\ UNCHANGED <<writes, wire, unackedBatchCount, callVars, chanVars, restVars>>

\* Batches that back off are sent at once, for the last time.
FlushRetrying ==
    /\ loop = "flushRetrying"
    /\ IF Retrying = {}
         THEN Ignore("register") /\ UNCHANGED <<writes, wire, unackedBatchCount>>
         ELSE \E id \in Retrying :
                SendBatch([retrying EXCEPT ![id] = NoBatch], retrying[id], FALSE, "flushRetrying")
    /\ UNCHANGED <<callVars, chanVars, restVars>>

\* Mutant: left is one too small.
RegisterCallbacksShort ==
    /\ loop = "register"
    /\ left' = Cardinality(Unacked) - 1
    /\ loop' = IF Unacked = {} THEN "closeAll" ELSE "select"
    /\ batch' = [b \in Batches |-> IF \E id \in Unacked : unacked[id] = b
                                   THEN [batch[b] EXCEPT !.callback = TRUE] ELSE batch[b]]
    /\ UNCHANGED <<unacked, retrying, result, calls, permits, ioVars, chanVars, callVars, restVars>>

\* End of handleClose: closeAll now, or when the last unacked batch is done.
RegisterCallbacks ==
    /\ loop = "register"
    /\ left' = Cardinality(Unacked)
    /\ loop' = IF Unacked = {} THEN "closeAll" ELSE "select"
    /\ batch' = [b \in Batches |-> IF \E id \in Unacked : unacked[id] = b
                                   THEN [batch[b] EXCEPT !.callback = TRUE] ELSE batch[b]]
    /\ UNCHANGED <<unacked, retrying, result, calls, permits, ioVars, chanVars, callVars, restVars>>

\* closeAll: first the state, then the channels and doneCh.
CloseAllState ==
    /\ loop = "closeAll"
    /\ state' = "closed"
    /\ loop' = "closeChans"
    /\ UNCHANGED <<batch, unacked, retrying, result, calls, permits, left, ioVars, chanVars, callVars,
                   usedIDs, pending, expired, drained, closer, chansClosed, posts, acked>>

\* Mutant: the channels stay open.
CloseAllChansForgotten ==
    /\ loop = "closeChans"
    /\ closer' = "stopping"
    /\ loop' = "select"
    /\ UNCHANGED <<batch, unacked, retrying, result, calls, permits, left, ioVars, chanVars, callVars,
                   state, usedIDs, pending, expired, drained, chansClosed, posts, acked>>

CloseAllChans ==
    /\ loop = "closeChans"
    /\ chansClosed' = TRUE
    /\ closer' = "stopping"
    /\ loop' = "select"
    /\ UNCHANGED <<batch, unacked, retrying, result, calls, permits, left, ioVars, chanVars, callVars,
                   state, usedIDs, pending, expired, drained, posts, acked>>

\* close() is woken and closes w.stop.
CloseStop ==
    /\ closer = "stopping"
    /\ closer' = "done"
    /\ UNCHANGED <<sendVars, ioVars, chanVars, callVars, state, usedIDs, pending, expired, drained,
                   chansClosed, posts, acked>>

\* The loop may take w.stop before what is left in the channels.
StopLoop ==
    /\ loop = "select" /\ closer = "done"
    /\ loop' = "stopped"
    /\ UNCHANGED <<batch, unacked, retrying, result, calls, permits, left,
                   ioVars, chanVars, callVars, restVars>>

-----------------------------------------------------------------------------
\* The other goroutines.

\* The backoff timer fires: retry, or give the batch up when the worker closes.
TimerFires(t) ==
    /\ timers' = timers \ {t}
    /\ posts' = posts \cup
          {IF state = "ready"
             THEN [to |-> "retry", n |-> t.n, req |-> [batchID |-> t.batchID, batch |-> t.batch]]
             ELSE [to |-> "done", n |-> t.n,
                   req |-> [batchID |-> t.batchID, batch |-> t.batch, err |-> "timeout"]]}
    /\ UNCHANGED <<writes, wire, unackedBatchCount, sendVars, chanVars, callVars,
                   state, usedIDs, pending, expired, drained, closer, chansClosed, acked>>

\* retryCtx is cancelled when the entry of retryingBatches goes away.  (A timer
\* that is cancelled may still fire: the select takes either case.)
TimerCancelled(t) ==
    /\ retrying[t.batchID] # t.batch \/ batch[t.batch].retries # t.n
    /\ timers' = timers \ {t}
    /\ UNCHANGED <<writes, wire, unackedBatchCount, sendVars, chanVars, callVars, restVars>>

\* gnet has written the data and calls back: V1 completes the batch right there.
WriteDone(w) ==
    /\ writes' = writes \ {w}
    /\ wire' = IF IsV3 THEN wire \cup {w.req} ELSE wire
    /\ IF DoneWhenWritten
         THEN DoneBatch(unacked, retrying, w.req.batchID, w.batch, "ok", loop)
         ELSE UNCHANGED sendVars
    /\ UNCHANGED <<timers, unackedBatchCount, chanVars, callVars, restVars>>

\* gnet could not write the data and calls back: onErr(c, e, true).
WriteFails(w) ==
    /\ writes' = writes \ {w}
    /\ posts' = posts \cup
          {IF state = "ready"
             THEN [to |-> "failed", n |-> w.req.n,
                   req |-> [batchID |-> w.req.batchID, batch |-> w.batch, retry |-> w.retry]]
             ELSE [to |-> "done", n |-> w.req.n,
                   req |-> [batchID |-> w.req.batchID, batch |-> w.batch, err |-> "writeFailed"]]}
    /\ UNCHANGED <<timers, wire, unackedBatchCount, sendVars, chanVars, callVars,
                   state, usedIDs, pending, expired, drained, closer, chansClosed, acked>>

\* The server answers a request (or never does) and onRsp passes the answer on.
Response(q) ==
    /\ wire' = wire \ {q}
    /\ \E ok \in BOOLEAN :
          /\ acked' = IF ok THEN acked \cup q.reqs ELSE acked
          /\ posts' = IF state = "closed" THEN posts
                      ELSE posts \cup {[to |-> "rsp", n |-> q.n,
                                        req |-> [batchID |-> q.batchID, ok |-> ok]]}
    /\ UNCHANGED <<timers, writes, unackedBatchCount, sendVars, chanVars, callVars,
                   state, usedIDs, pending, expired, drained, closer, chansClosed>>

\* safeSend: waits while the channel is full, drops the value when it is closed.
\* (A retry or a failure that is dropped is then offered to doneBatches, which
\* closeAll has closed before.)
Post(x) ==
    LET Offer(chan, to) == IF x.to = to /\ ~chansClosed THEN Append(chan, x.req) ELSE chan
    IN  /\ posts' = posts \ {x}
        /\ doneBatches' = Offer(doneBatches, "done")
        /\ sendFailedBatches' = Offer(sendFailedBatches, "failed")
        /\ retryBatches' = Offer(retryBatches, "retry")
        /\ responseBatches' = Offer(responseBatches, "rsp")
        /\ \A c \in {doneBatches', sendFailedBatches', retryBatches', responseBatches'} :
              Len(c) <= MaxPendingMessages
        /\ UNCHANGED <<sendVars, ioVars, callVars, state, usedIDs, pending, expired, drained,
                       closer, chansClosed, acked>>

-----------------------------------------------------------------------------
LoopStep ==
    \/ SplitBatch \/ AppendData \/ SendData
    \/ HandleBatchTimeout \/ SendTimeoutTick \/ HandleSendTimeout \/ HandleCleanMap
    \/ HandleDone \/ HandleSendFailed \/ HandleRetry \/ HandleRsp
    \/ HandleClose \/ FlushPending \/ DrainDone \/ DrainRetry \/ FlushRetrying
    \/ RegisterCallbacks \/ CloseAllState \/ CloseAllChans \/ StopLoop

Next ==
    \/ LoopStep
    \/ \E m \in Msgs : SendStart(m) \/ SendAcquire(m) \/ SendEnqueue(m)
    \/ CloseCall \/ CloseDataChan \/ CloseStop
    \/ \E t \in timers : TimerFires(t) \/ TimerCancelled(t)
    \/ \E w \in writes : WriteDone(w) \/ WriteFails(w)
    \/ \E q \in wire : Response(q)
    \/ \E x \in posts : Post(x)

Spec == Init /\ [][Next]_vars

\* The scheduler runs every goroutine that can run, the tickers tick, gnet calls
\* back for every write.  The server need not answer, nobody has to send or close.
Fairness ==
    /\ WF_vars(LoopStep)
    /\ WF_vars(CloseDataChan) /\ WF_vars(CloseStop)
    /\ \A m \in Msgs : WF_vars(SendAcquire(m)) /\ WF_vars(SendEnqueue(m))
    /\ WF_vars(\E t \in timers : TimerFires(t) \/ TimerCancelled(t))
    /\ WF_vars(\E w \in writes : WriteDone(w) \/ WriteFails(w))
    /\ WF_vars(\E x \in posts : Post(x))

FairSpec == Spec /\ Fairness

-----------------------------------------------------------------------------
DoneReq   == [batchID : BatchIDs, batch : Batches, err : Results]
FailedReq == [batchID : BatchIDs, batch : Batches, retry : BOOLEAN]
RetryReq  == [batchID : BatchIDs, batch : Batches]
Rsp       == [batchID : BatchIDs, ok : BOOLEAN]
Request   == [batchID : BatchIDs, n : Nat, reqs : SUBSET Msgs]
Timer     == [batchID : BatchIDs, batch : Batches, n : Nat]
Write     == [batch : Batches, retry : BOOLEAN, req : Request]
Posted    == [to : {"done"}, n : Nat, req : DoneReq] \cup [to : {"failed"}, n : Nat, req : FailedReq]
               \cup [to : {"retry"}, n : Nat, req : RetryReq] \cup [to : {"rsp"}, n : Nat, req : Rsp]

\* Where the loop can be.
Loops == {"select", "append", "sendData", "sendTimeout", "drainData", "drainDone",
          "drainRetry", "flushRetrying", "register", "closeAll", "closeChans", "stopped"}

\* Types of the worker's state.
TypeOK ==
    /\ pc \in [Msgs -> {"idle", "checked", "acquired", "queued", "refused", "panicked"}]
    /\ result \in [Msgs -> Results]
    /\ calls \in [Msgs -> Nat]
    /\ permits \in Int
    /\ dataChan \in Seq(Msgs)
    /\ dataOpen \in {"open", "closing", "closed"}
    /\ state \in {"ready", "closing", "closed"}
    /\ loop \in Loops
    /\ batch \in [Batches -> BatchReq]
    /\ usedIDs \subseteq BatchIDs
    /\ pending \in Batches \cup {NoBatch}
    /\ unacked \in [BatchIDs -> Batches \cup {NoBatch}]
    /\ retrying \in [BatchIDs -> Batches \cup {NoBatch}]
    /\ unackedBatchCount \in Nat
    /\ expired \subseteq BatchIDs
    /\ drained \in Nat
    /\ left \in Int
    /\ closer \in {"idle", "calling", "waiting", "stopping", "done"}
    /\ doneBatches \in Seq(DoneReq)
    /\ sendFailedBatches \in Seq(FailedReq)
    /\ retryBatches \in Seq(RetryReq)
    /\ responseBatches \in Seq(Rsp)
    /\ chansClosed \in BOOLEAN
    /\ timers \subseteq Timer
    /\ writes \subseteq Write
    /\ posts \subseteq Posted
    /\ wire \subseteq Request
    /\ acked \subseteq Msgs

\* The batches a worker is responsible for: every batch that is not done is in
\* exactly one of pendingBatches, unackedBatches and retryingBatches, under its
\* own id, and these maps hold no batch that is done (a done batch is in
\* batchPool and may already serve somebody else).  Late responses, failed
\* writes, timers and close must neither lose a batch nor finish it twice.
BatchHasOneOwner ==
    /\ pending # NoBatch => pending \in Live
    /\ \A id \in BatchIDs :
          /\ unacked[id] # NoBatch => unacked[id] \in Live /\ batch[unacked[id]].batchID = id
          /\ retrying[id] # NoBatch => retrying[id] \in Live /\ batch[retrying[id]].batchID = id
    /\ \A b \in Live :
          LET id == batch[b].batchID
          IN  \/ pending = b /\ unacked[id] # b /\ retrying[id] # b
              \/ pending # b /\ unacked[id] = b /\ retrying[id] # b
              \/ pending # b /\ unacked[id] # b /\ retrying[id] = b

\* V1 over TCP keeps a batch that gnet is writing in no map.  Until closeAll closes
\* the channels every batch that is not done is in a map or something still
\* refers to it: a queued write, a goroutine about to report, a report.
BatchReachable ==
    ~chansClosed => \A b \in Live :
        LET id == batch[b].batchID
            OfB(r) == r.batchID = id /\ r.batch = b
        IN  \/ pending = b \/ unacked[id] = b \/ retrying[id] = b
            \/ \E w \in writes : w.batch = b /\ w.req.batchID = id
            \/ \E x \in posts : x.to \in {"failed", "done"} /\ OfB(x.req)
            \/ \E i \in 1..Len(sendFailedBatches) : OfB(sendFailedBatches[i])
            \/ \E i \in 1..Len(doneBatches) : OfB(doneBatches[i])

\* A message that doSendAsync has put into dataChan is in the channel, or in one
\* batch that is not done, or its callback was called, once; nothing is called
\* twice, for a refused message neither.
MessageHasOneHome ==
    \A m \in Msgs :
        Cardinality({i \in 1..Len(dataChan) : dataChan[i] = m})
          + Cardinality({b \in Batches : m \in batch[b].reqs})
          + calls[m]
        = IF pc[m] \in {"queued", "refused"} THEN 1 ELSE 0

\* dataSemaphore: its permits are the messages that were admitted and are not
\* completed; none is lost and none is released twice.
PermitsConserved ==
    permits = Cardinality({m \in Msgs : /\ pc[m] \in {"acquired", "queued", "panicked"}
                                        /\ calls[m] = 0})

\* The semaphore guards dataChan: whoever has a permit finds room in the channel
\* and does not block in `w.dataChan <- req'.
PermitMeansRoom ==
    \A m \in Msgs : pc[m] = "acquired" => Len(dataChan) < MaxPendingMessages

\* sendBatch hands a batch to gnet at most 1 + MaxRetries times, the resend of
\* handleClose and retries caused by stale failures included.
TransmissionsBounded == \A b \in Batches : batch[b].sends <= MaxRetries + 1

\* V3: a callback reports success only for a message that the server has
\* confirmed (handleRsp is the only way to success).
SuccessMeansAcked == IsV3 => \A m \in Msgs : result[m] = "ok" => m \in acked

\* When closeAll has set stateClosed, every message that was put into dataChan
\* has had its callback: closing loses nothing.
ClosedMeansCompleted ==
    state = "closed" => \A m \in Msgs : pc[m] = "queued" => calls[m] = 1


\* A V1 batch over UDP never exceeds the datagram limit: doSendAsync refuses longer
\* payloads and handleSendData splits.  (For V3 doSendAsync uses the V1 limit too.)
BatchFitsTransport ==
    ~IsTCP /\ ~IsV3 => \A b \in Live : batch[b].dataSize <= maxUDPReqSizeV1

\* Every message that entered dataChan gets its callback, whether the server
\* answers or not.
QueuedIsCompleted == \A m \in Msgs : pc[m] = "queued" ~> calls[m] > 0

\* close() returns.
CloseReturns == closer = "calling" ~> closer = "done"

\* No backoff goroutine and no gnet callback stays behind, blocked in safeSend.
NobodyStuck == timers \cup posts # {} ~> timers \cup posts = {}

=============================================================================
