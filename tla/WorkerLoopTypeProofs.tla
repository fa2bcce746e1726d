------------------------ MODULE WorkerLoopTypeProofs ------------------------
(***************************************************************************)
(* Types of Worker: the steps of the worker's loop, and TypeStep for all.  *)
(* That handleSendTimeout finds its batches (TimeoutInv) follows from the  *)
(* ownership of batches, so TypeStep assumes it and WorkerProofs proves    *)
(* both in one induction.                                                  *)
(***************************************************************************)
EXTENDS WorkerTypeProofs

-----------------------------------------------------------------------------
\* handleSendData: the head of dataChan goes into the pending or a new batch.
LEMMA AppendType ==
    ASSUME TypeInv, AppendData
    PROVE  TypeInv'
<1> DEFINE m == Head(dataChan)
           Add(r) == [r EXCEPT !.reqs = @ \cup {m}, !.dataSize = @ + Size[m]]
<1>1. m \in Msgs /\ Tail(dataChan) \in Seq(Msgs)
  BY HeadTail, Zenon DEF AppendData, TypeInv, CallType
<1>2. ASSUME NEW r \in BatchReq
      PROVE  Add(r) \in BatchReq /\ Add(r).batchID = r.batchID
  <2>s. Size[m] \in Nat
    BY <1>1, ConstantsAssumption
  <2> HIDE DEF m
  <2>r. r.reqs \in SUBSET Msgs /\ r.dataSize \in Nat
    BY DEF BatchReq
  <2>1. r.reqs \cup {m} \in SUBSET Msgs /\ r.dataSize + Size[m] \in Nat
    BY <1>1, <2>s, <2>r
  <2>2. Add(r) = [r EXCEPT !.reqs = r.reqs \cup {m}, !.dataSize = r.dataSize + Size[m]]
    BY DEF BatchReq
  <2> QED BY <2>1, <2>2, Zenon DEF BatchReq
<1>3. ASSUME NEW id \in BatchIDs
      PROVE  NewBatch(id) \in BatchReq /\ NewBatch(id).batchID = id
  BY Zenon DEF NewBatch, PooledBatch, BatchReq
<1>4. /\ batch' \in [Batches -> BatchReq]
      /\ pending' \in Batches /\ usedIDs' \subseteq BatchIDs
      /\ HasID(batch', pending')
      /\ \A c \in Batches : HasID(batch, c) => HasID(batch', c)
  <2>0. batch \in [Batches -> BatchReq] /\ usedIDs \subseteq BatchIDs
    BY DEF TypeInv, CoreType, RestType
  <2>1. CASE pending # NoBatch
    <3>1. batch' = [batch EXCEPT ![pending] = Add(@)] /\ UNCHANGED <<pending, usedIDs>>
      BY <2>1, Zenon DEF AppendData
    <3>2. pending \in Batches /\ HasID(batch, pending)
      BY <2>1 DEF TypeInv, RestType
    <3>3. Add(batch[pending]) \in BatchReq /\ Add(batch[pending]).batchID = batch[pending].batchID
      BY <3>2, <2>0, <1>2, Zenon
    <3> HIDE DEF Add
    <3> QED BY <3>1, <3>2, <3>3, <2>0 DEF HasID
  <2>2. CASE pending = NoBatch
    <3>1. PICK b \in Batches \ Live, id \in BatchIDs \ usedIDs :
             /\ batch' = [batch EXCEPT ![b] = Add(NewBatch(id))]
             /\ pending' = b
             /\ usedIDs' = usedIDs \cup {id}
      BY <2>2, Zenon DEF AppendData
    <3>2. Add(NewBatch(id)) \in BatchReq /\ Add(NewBatch(id)).batchID = id
      BY <1>2, <1>3, Zenon
    <3> HIDE DEF Add
    <3> QED BY <3>1, <3>2, <2>0 DEF HasID
  <2> QED BY <2>1, <2>2
<1>5. loop' \in Loops /\ loop' # "sendTimeout"
  BY HomeType, Zenon DEF AppendData, Loops
<1>6. CoreType'
  BY <1>4, <1>5, Zenon DEF AppendData, TypeInv, CoreType
<1>7. IOType' /\ ChanType' /\ CallType'
  <2>1. IOType' /\ ChanType'
    BY <1>1, SameTypes, Zenon DEF AppendData
  <2>2. CallType'
    BY <1>1, Zenon DEF AppendData, TypeInv, CallType
  <2> QED BY <2>1, <2>2
<1>8. RestType'
  BY <1>4, Zenon DEF AppendData, TypeInv, RestType
<1>9. MapType(batch', unacked') /\ MapType(batch', retrying') /\ V1Empty(unacked')
  BY <1>4, Zenon DEF AppendData, TypeInv, MapType
<1> QED BY <1>4, <1>5, <1>6, <1>7, <1>8, <1>9, ConstantsAssumption DEF TypeInv

\* handleSendTimeout: a batch that is due is still in unackedBatches.
LEMMA SendTimeoutType ==
    ASSUME TypeInv, loop = "sendTimeout" => expired \subseteq Unacked,
           SendTimeoutTick \/ HandleSendTimeout
    PROVE  TypeInv'
<1>1. CASE SendTimeoutTick
  <2>1. expired' \subseteq Unacked /\ expired' # {} /\ loop' = "sendTimeout"
        /\ UNCHANGED <<batch, unacked, retrying, result, calls, permits, left, pending>>
    BY <1>1 DEF SendTimeoutTick
  <2>2. IsV3
    BY <2>1 DEF TypeInv, V1Empty, Unacked
  <2>3. IOType' /\ ChanType' /\ CallType' /\ RestType'
    <3>1. IOType' /\ ChanType' /\ CallType'
      BY <1>1, <2>1, SameTypes DEF SendTimeoutTick
    <3>2. RestType'
      BY <1>1, <2>1 DEF SendTimeoutTick, Unacked, TypeInv, RestType
    <3> QED BY <3>1, <3>2
  <2>4. Kept("sendTimeout") /\ "sendTimeout" \in Loops
    BY <2>1 DEF TypeInv, Kept, CoreType, Aged, Loops
  <2> QED BY <2>1, <2>2, <2>3, <2>4, KeptType
<1>2. CASE HandleSendTimeout
  <2>1. PICK id \in expired :
           /\ expired' = expired \ {id}
           /\ BackoffRetry([unacked EXCEPT ![id] = NoBatch], retrying, unacked[id],
                            IF expired' = {} THEN "select" ELSE "sendTimeout")
    BY <1>2 DEF HandleSendTimeout
  <2> DEFINE un == [unacked EXCEPT ![id] = NoBatch]
             next == IF expired' = {} THEN "select" ELSE "sendTimeout"
  <2>2. id \in BatchIDs /\ unacked[id] # NoBatch /\ loop = "sendTimeout"
    BY <1>2 DEF HandleSendTimeout, Unacked
  <2>3. unacked[id] \in Batches /\ HasID(batch, unacked[id])
    BY <2>2 DEF TypeInv, MapType
  <2>4. MapType(batch, un) /\ V1Empty(un)
    BY <2>2 DEF TypeInv, MapType, V1Empty
  <2>5. next \in Loops /\ next \in {"select", "sendTimeout"} /\ IsV3
    BY <2>2 DEF Loops, TypeInv
  <2> HIDE DEF un, next
  <2>6. BackoffRetry(un, retrying, unacked[id], next)
    BY <2>1 DEF un, next
  <2>7. Kept(next) /\ timers' \subseteq Timer
    BY <2>3, <2>4, <2>5, <2>6, BackoffType DEF TypeInv, IOType
  <2>8. IOType' /\ ChanType' /\ CallType' /\ RestType' /\ pending' = pending
    <3>1. IOType' /\ ChanType' /\ CallType'
      BY <1>2, <2>1, <2>7, SameTypes DEF HandleSendTimeout
    <3>2. RestType' /\ pending' = pending
      BY <1>2, <2>1, <2>7 DEF HandleSendTimeout, TypeInv, RestType
    <3> QED BY <3>1, <3>2
  <2> QED BY <2>5, <2>7, <2>8, KeptType
<1> QED BY <1>1, <1>2

\* The handlers of the four channels.
LEMMA HandlersType ==
    ASSUME TypeInv, HandleDone \/ HandleSendFailed \/ HandleRetry \/ HandleRsp
    PROVE  TypeInv'
<1>m. /\ CoreType /\ IOType /\ V1Empty(unacked)
      /\ MapType(batch, unacked) /\ MapType(batch, retrying)
  BY DEF TypeInv
<1>0. "select" \in Loops /\ {"ok", "serverError", "writeFailed"} \subseteq Results
  BY DEF Loops, Results
<1>1. CASE HandleDone
  <2> DEFINE r == Head(doneBatches)
  <2>1. r \in DoneReq /\ Tail(doneBatches) \in Seq(DoneReq)
    BY <1>1, HeadTail DEF TypeInv, HandleDone, ChanType
  <2>2. r.batchID \in BatchIDs /\ r.batch \in Batches /\ r.err \in Results
    BY <2>1 DEF DoneReq
  <2>3. Kept("select")
    BY <1>1, <1>m, <1>0, <2>2, DoneBatchType DEF HandleDone
  <2>4. IOType' /\ ChanType' /\ CallType' /\ RestType' /\ pending' = pending
    <3>1. IOType' /\ CallType' /\ RestType' /\ pending' = pending
      BY <1>1, <2>1, SameTypes DEF HandleDone
    <3>2. ChanType'
      BY <1>1, <2>1 DEF HandleDone, TypeInv, ChanType
    <3> QED BY <3>1, <3>2
  <2> QED BY <1>0, <2>3, <2>4, KeptType
<1>2. CASE HandleSendFailed
  <2> DEFINE r == Head(sendFailedBatches)
             un == IF IsV3 THEN [unacked EXCEPT ![r.batchID] = NoBatch] ELSE unacked
  <2>1. r \in FailedReq /\ Tail(sendFailedBatches) \in Seq(FailedReq)
    BY <1>2, HeadTail DEF TypeInv, HandleSendFailed, ChanType
  <2>2. r.batchID \in BatchIDs /\ r.batch \in Batches
    BY <2>1 DEF FailedReq
  <2>3. MapType(batch, un) /\ V1Empty(un)
    BY <2>2 DEF TypeInv, MapType, V1Empty
  <2>t. timers \subseteq Timer
    BY DEF TypeInv, IOType
  <2>4. Kept("select") /\ timers' \subseteq Timer
    <3>1. CASE Ignore("select")
      BY <3>1, <1>0, IgnoreType
    <3>2. CASE SameLife(r.batchID, r.batch) /\ BackoffRetry(un, retrying, r.batch, "select")
      <4>1. HasID(batch, r.batch)
        BY <3>2, <2>2 DEF HasID, SameLife
      <4> QED BY <1>m, <3>2, <4>1, <2>2, <2>3, <2>t, <1>0, BackoffType
    <3>3. CASE DoneBatch(un, retrying, r.batchID, r.batch, "writeFailed", "select") /\ UNCHANGED timers
      BY <1>m, <3>3, <2>2, <2>3, <2>t, <1>0, DoneBatchType
    <3> QED BY <1>2, <3>1, <3>2, <3>3 DEF HandleSendFailed
  <2>5. IOType' /\ ChanType' /\ CallType' /\ RestType' /\ pending' = pending
    <3>1. IOType' /\ CallType' /\ RestType' /\ pending' = pending
      BY <1>2, <2>1, <2>4, SameTypes DEF HandleSendFailed
    <3>2. ChanType'
      BY <1>2, <2>1, <2>4 DEF HandleSendFailed, TypeInv, ChanType
    <3> QED BY <3>1, <3>2
  <2> QED BY <1>0, <2>4, <2>5, KeptType
<1>3. CASE HandleRetry
  <2>1. Kept("select") /\ IOType' /\ retryBatches' \in Seq(RetryReq)
    BY <1>3, <1>0, RetryType, Zenon DEF HandleRetry
  <2>2. ChanType' /\ CallType' /\ RestType' /\ pending' = pending
    <3>1. CallType' /\ RestType' /\ pending' = pending
      BY <1>3, <2>1, SameTypes DEF HandleRetry
    <3>2. ChanType'
      BY <1>3, <2>1 DEF HandleRetry, TypeInv, ChanType
    <3> QED BY <3>1, <3>2
  <2> QED BY <1>0, <2>1, <2>2, KeptType
<1>4. CASE HandleRsp
  <2> DEFINE r == Head(responseBatches)
             err == IF r.ok THEN "ok" ELSE "serverError"
             b == IF unacked[r.batchID] # NoBatch THEN unacked[r.batchID] ELSE retrying[r.batchID]
  <2>1. r \in Rsp /\ Tail(responseBatches) \in Seq(Rsp)
    BY <1>4, HeadTail DEF TypeInv, HandleRsp, ChanType
  <2>2. r.batchID \in BatchIDs /\ b \in Batches \cup {NoBatch} /\ err \in Results
    BY <2>1, <1>0 DEF TypeInv, Rsp, MapType
  <2>3. Kept("select") /\ timers' \subseteq Timer
    <3>1. CASE b = NoBatch
      BY <1>4, <3>1, <1>0, IgnoreType DEF HandleRsp
    <3>2. CASE b # NoBatch
      <4>1. DoneBatch(unacked, retrying, r.batchID, b, err, "select") /\ UNCHANGED timers
        BY <1>4, <3>2 DEF HandleRsp
      <4> HIDE DEF b, err
      <4>2. Kept("select")
        BY <1>m, <4>1, <3>2, <2>2, <1>0, DoneBatchType
      <4> QED BY <4>1, <4>2 DEF TypeInv, IOType
    <3> QED BY <3>1, <3>2
  <2>4. IOType' /\ ChanType' /\ CallType' /\ RestType' /\ pending' = pending
    <3>1. IOType' /\ CallType' /\ RestType' /\ pending' = pending
      BY <1>4, <2>1, <2>3, SameTypes DEF HandleRsp
    <3>2. ChanType'
      BY <1>4, <2>1, <2>3 DEF HandleRsp, TypeInv, ChanType
    <3> QED BY <3>1, <3>2
  <2> QED BY <1>0, <2>3, <2>4, KeptType
<1> QED BY <1>1, <1>2, <1>3, <1>4

\* Sending the pending batch: full datagram, full batch, timeout, close.
LEMMA SendingType ==
    ASSUME TypeInv, SplitBatch \/ SendData \/ HandleBatchTimeout \/ FlushPending
    PROVE  TypeInv'
<1>1. CASE SplitBatch
  <2>1. pending # NoBatch /\ "append" \in Loops
    BY <1>1 DEF SplitBatch, Overflows, Loops
  <2> QED BY <1>1, <2>1, SendPendingType, Zenon DEF SplitBatch
<1>2. CASE SendData
  <2>1. pending # NoBatch
    BY <1>2 DEF SendData, TypeInv
  <2> QED BY <1>2, <2>1, HomeType, SendPendingType, Zenon DEF SendData
<1>3. CASE HandleBatchTimeout
  <2>1. pending # NoBatch /\ "select" \in Loops
    BY <1>3 DEF HandleBatchTimeout, Loops
  <2> QED BY <1>3, <2>1, SendPendingType, Zenon DEF HandleBatchTimeout
<1>4. CASE FlushPending
  <2>0. "drainDone" \in Loops
    BY DEF Loops
  <2>1. CASE pending # NoBatch
    BY <1>4, <2>0, <2>1, SendPendingType, Zenon DEF FlushPending
  <2>2. CASE pending = NoBatch
    <3>1. Ignore("drainDone") /\ UNCHANGED <<writes, wire, unackedBatchCount>> /\ pending' = pending
      BY <1>4, <2>2 DEF FlushPending
    <3>2. Kept("drainDone") /\ timers' \subseteq Timer
      BY <2>0, <3>1, IgnoreType
    <3>3. IOType' /\ ChanType' /\ CallType' /\ RestType'
      <4>1. IOType' /\ ChanType' /\ CallType'
        BY <1>4, <3>1, <3>2, SameTypes DEF FlushPending
      <4>2. RestType'
        BY <1>4, <3>1, <3>2 DEF FlushPending, TypeInv, RestType
      <4> QED BY <4>1, <4>2
    <3> QED BY <2>0, <3>1, <3>2, <3>3, KeptType
  <2> QED BY <2>1, <2>2
<1> QED BY <1>1, <1>2, <1>3, <1>4

\* The draining loops of handleClose.
LEMMA DrainType ==
    ASSUME TypeInv, DrainDone \/ DrainRetry \/ FlushRetrying
    PROVE  TypeInv'
<1>m. /\ CoreType /\ IOType /\ V1Empty(unacked)
      /\ MapType(batch, unacked) /\ MapType(batch, retrying)
  BY DEF TypeInv
<1>0. {"drainDone", "drainRetry", "flushRetrying", "register"} \subseteq Loops
  BY DEF Loops
<1>1. CASE DrainDone
  <2> DEFINE r == Head(doneBatches)
  <2>1. CASE drained < Len(doneBatches)
    <3>1. doneBatches # <<>>
      BY <2>1 DEF TypeInv, ChanType, RestType
    <3>2. r \in DoneReq /\ Tail(doneBatches) \in Seq(DoneReq)
      BY <3>1, HeadTail DEF TypeInv, ChanType
    <3>3. r.batchID \in BatchIDs /\ r.batch \in Batches /\ r.err \in Results
      BY <3>2 DEF DoneReq
    <3>4. /\ DoneBatch(unacked, retrying, r.batchID, r.batch, r.err, "drainDone")
          /\ doneBatches' = Tail(doneBatches)
          /\ drained' = drained + 1
          /\ UNCHANGED timers
      BY <1>1, <2>1 DEF DrainDone
    <3>5. Kept("drainDone")
      BY <1>m, <1>0, <3>3, <3>4, DoneBatchType
    <3>6. IOType' /\ ChanType' /\ CallType' /\ RestType' /\ pending' = pending
      <4>1. IOType' /\ CallType'
        BY <1>m, <1>1, <3>2, <3>4, SameTypes DEF DrainDone, IOType
      <4>2. ChanType'
        BY <1>1, <3>2, <3>4 DEF DrainDone, TypeInv, ChanType
      <4>3. UNCHANGED <<state, usedIDs, pending, expired, closer, chansClosed, posts, acked>>
        BY <1>1 DEF DrainDone
      <4>4. drained \in Nat
        BY DEF TypeInv, RestType
      <4>5. drained' \in Nat
        BY <4>4, <3>4
      <4>6. RestType'
        BY <4>3, <4>5 DEF TypeInv, RestType
      <4> QED BY <4>1, <4>2, <4>3, <4>6
    <3> QED BY <1>0, <3>5, <3>6, KeptType
  <2>2. CASE ~(drained < Len(doneBatches))
    <3>1. Ignore("drainRetry") /\ drained' = 0 /\ UNCHANGED doneBatches
      BY <1>1, <2>2 DEF DrainDone
    <3>2. Kept("drainRetry") /\ timers' \subseteq Timer
      BY <1>0, <3>1, IgnoreType
    <3>3. IOType' /\ ChanType' /\ CallType' /\ RestType' /\ pending' = pending
      <4>1. IOType' /\ CallType'
        BY <1>1, <3>1, <3>2, SameTypes DEF DrainDone
      <4>2. ChanType'
        BY <1>1, <3>1, <3>2 DEF DrainDone, TypeInv, ChanType
      <4>3. RestType' /\ pending' = pending
        BY <1>1, <3>1, <3>2 DEF DrainDone, TypeInv, RestType
      <4> QED BY <4>1, <4>2, <4>3
    <3> QED BY <1>0, <3>2, <3>3, KeptType
  <2> QED BY <2>1, <2>2
<1>2. CASE DrainRetry
  <2>1. CASE drained < Len(retryBatches)
    <3>1. retryBatches # <<>>
      BY <2>1 DEF TypeInv, ChanType, RestType
    <3>2. Retry(FALSE, "drainRetry") /\ drained' = drained + 1
      BY <1>2, <2>1, Zenon DEF DrainRetry
    <3>3. Kept("drainRetry") /\ IOType' /\ retryBatches' \in Seq(RetryReq)
      BY <1>0, <3>1, <3>2, RetryType, Zenon
    <3>4. ChanType' /\ CallType' /\ RestType' /\ pending' = pending
      <4>1. CallType'
        BY <1>2, <3>2, <3>3, SameTypes DEF DrainRetry
      <4>2. ChanType'
        BY <1>2, <3>2, <3>3 DEF DrainRetry, TypeInv, ChanType
      <4>3. UNCHANGED <<state, usedIDs, pending, expired, closer, chansClosed, posts, acked>>
        BY <1>2 DEF DrainRetry
      <4>4. drained \in Nat
        BY DEF TypeInv, RestType
      <4>5. drained' \in Nat
        BY <4>4, <3>2
      <4>6. RestType'
        BY <4>3, <4>5 DEF TypeInv, RestType
      <4> QED BY <4>1, <4>2, <4>3, <4>6
    <3> QED BY <1>0, <3>3, <3>4, KeptType
  <2>2. CASE ~(drained < Len(retryBatches))
    <3>1. /\ Ignore("flushRetrying") /\ drained' = 0
          /\ UNCHANGED <<retryBatches, writes, wire, unackedBatchCount>>
      BY <1>2, <2>2 DEF DrainRetry
    <3>2. Kept("flushRetrying") /\ timers' \subseteq Timer
      BY <1>0, <3>1, IgnoreType
    <3>3. IOType' /\ ChanType' /\ CallType' /\ RestType' /\ pending' = pending
      <4>1. IOType' /\ CallType'
        BY <1>2, <3>1, <3>2, SameTypes DEF DrainRetry
      <4>2. ChanType'
        BY <1>2, <3>1, <3>2 DEF DrainRetry, TypeInv, ChanType
      <4>3. RestType' /\ pending' = pending
        BY <1>2, <3>1, <3>2 DEF DrainRetry, TypeInv, RestType
      <4> QED BY <4>1, <4>2, <4>3
    <3> QED BY <1>0, <3>2, <3>3, KeptType
  <2> QED BY <2>1, <2>2
<1>3. CASE FlushRetrying
  <2>0. ChanType' /\ CallType' /\ RestType' /\ pending' = pending
    BY <1>3, SameTypes DEF FlushRetrying
  <2>1. CASE Retrying = {}
    <3>1. Ignore("register") /\ UNCHANGED <<writes, wire, unackedBatchCount>>
      BY <1>3, <2>1 DEF FlushRetrying
    <3>2. Kept("register") /\ timers' \subseteq Timer
      BY <1>0, <3>1, IgnoreType
    <3>3. IOType'
      BY <3>1, <3>2 DEF TypeInv, IOType
    <3> QED BY <1>0, <2>0, <3>2, <3>3, KeptType
  <2>2. CASE Retrying # {}
    <3>1. PICK id \in Retrying :
             SendBatch([retrying EXCEPT ![id] = NoBatch], retrying[id], FALSE, "flushRetrying")
      BY <1>3, <2>2, Zenon DEF FlushRetrying
    <3>2. /\ id \in BatchIDs /\ retrying[id] \in Batches /\ HasID(batch, retrying[id])
          /\ MapType(batch, [retrying EXCEPT ![id] = NoBatch])
      BY DEF TypeInv, Retrying, MapType
    <3>3. Kept("flushRetrying") /\ IOType'
      BY <1>m, <1>0, <3>1, <3>2, SendBatchType, Zenon
    <3> QED BY <1>0, <2>0, <3>3, KeptType
  <2> QED BY <2>1, <2>2
<1> QED BY <1>1, <1>2, <1>3

\* The steps of the loop that move it and complete, retry or send no batch.
LEMMA ClosingType ==
    ASSUME TypeInv,
           \/ HandleCleanMap \/ HandleClose \/ RegisterCallbacks
           \/ CloseAllState \/ CloseAllChans \/ StopLoop
    PROVE  TypeInv'
<1>0. {"select", "drainData", "closeAll", "closeChans", "stopped"} \subseteq Loops
  BY DEF Loops
<1>1. CASE HandleCleanMap
  <2>1. unacked' = unacked /\ retrying' = retrying
    BY <1>1 DEF TypeInv, HandleCleanMap, MapType
  <2>2. UNCHANGED sendVars
    BY <1>1, <2>1 DEF HandleCleanMap, sendVars
  <2>3. IOType' /\ ChanType' /\ CallType' /\ RestType' /\ pending' = pending
    <3>1. ChanType' /\ CallType' /\ RestType' /\ pending' = pending
      BY <1>1, SameTypes DEF HandleCleanMap
    <3>2. IOType'
      BY <1>1 DEF HandleCleanMap, TypeInv, IOType
    <3> QED BY <3>1, <3>2
  <2> QED BY <2>2, <2>3, SameSendVars
<1>2. CASE HandleClose
  <2>1. IOType' /\ ChanType' /\ CallType' /\ RestType' /\ pending' = pending
    <3>1. IOType' /\ ChanType'
      BY <1>2, SameTypes DEF HandleClose
    <3>2. CallType'
      BY <1>2 DEF HandleClose, TypeInv, CallType
    <3>3. RestType' /\ pending' = pending
      BY <1>2 DEF HandleClose, TypeInv, RestType
    <3> QED BY <3>1, <3>2, <3>3
  <2>2. Kept("drainData")
    BY <1>0, <1>2 DEF TypeInv, HandleClose, Kept, CoreType, Aged
  <2> QED BY <1>0, <2>1, <2>2, KeptType
<1>3. CASE RegisterCallbacks
  <2>1. IOType' /\ ChanType' /\ CallType' /\ RestType' /\ pending' = pending
    BY <1>3, SameTypes DEF RegisterCallbacks
  <2>2. Cardinality(Unacked) \in Int
    <3>1. IsFiniteSet(BatchIDs) /\ Unacked \subseteq BatchIDs
      BY ConstantsAssumption DEF Unacked
    <3>2. IsFiniteSet(Unacked)
      BY <3>1, FS_Subset
    <3> QED BY <3>2, FS_CardinalityType
  <2>3. batch' \in [Batches -> BatchReq] /\ Aged
    <3>1. \A b \in Batches : \/ batch'[b] = batch[b]
                             \/ batch'[b] = [batch[b] EXCEPT !.callback = TRUE]
      BY <1>3 DEF RegisterCallbacks
    <3>2. ASSUME NEW b \in Batches
          PROVE  batch'[b] \in BatchReq
      <4>1. batch[b] \in BatchReq
        BY DEF TypeInv, CoreType
      <4>2. [batch[b] EXCEPT !.callback = TRUE] \in BatchReq
        BY <4>1, Zenon DEF BatchReq
      <4> QED BY <3>1, <4>1, <4>2
    <3>3. batch' = [b \in Batches |-> batch'[b]]
      BY <1>3 DEF RegisterCallbacks
    <3>4. Aged
      BY <3>1, Zenon DEF TypeInv, CoreType, BatchReq, Aged
    <3> QED BY <3>2, <3>3, <3>4
  <2>4. CoreType' /\ loop' \in {"select", "closeAll"}
    BY <1>0, <1>3, <2>2, <2>3 DEF TypeInv, RegisterCallbacks, CoreType
  <2>5. UNCHANGED <<unacked, retrying>>
    BY <1>3 DEF RegisterCallbacks
  <2>6. MapType(batch', unacked') /\ MapType(batch', retrying') /\ V1Empty(unacked')
    BY <2>3, <2>5, MapAged DEF TypeInv, MapType
  <2>7. Kept("select")
    BY <2>3, <2>4, <2>6 DEF Kept
  <2> QED BY <1>0, <2>1, <2>7, KeptType
<1>4. CASE CloseAllState \/ CloseAllChans
  <2>1. IOType' /\ ChanType' /\ CallType' /\ RestType' /\ pending' = pending
    <3>1. IOType' /\ ChanType' /\ CallType'
      BY <1>4, SameTypes DEF CloseAllState, CloseAllChans
    <3>2. RestType' /\ pending' = pending
      BY <1>4, Zenon DEF CloseAllState, CloseAllChans, TypeInv, RestType
    <3> QED BY <3>1, <3>2
  <2>2. Kept("closeChans") \/ Kept("select")
    BY <1>0, <1>4 DEF TypeInv, CloseAllState, CloseAllChans, Kept, CoreType, Aged
  <2> QED BY <1>0, <2>1, <2>2, KeptType
<1>5. CASE StopLoop
  <2>1. IOType' /\ ChanType' /\ CallType' /\ RestType' /\ pending' = pending
    BY <1>5, SameTypes DEF StopLoop
  <2>2. Kept("stopped")
    BY <1>0, <1>5 DEF TypeInv, StopLoop, Kept, CoreType, Aged
  <2> QED BY <1>0, <2>1, <2>2, KeptType
<1> QED BY <1>1, <1>2, <1>3, <1>4, <1>5

\* Every step of every goroutine.
LEMMA TypeStep ==
    ASSUME TypeInv, TimeoutInv, [Next]_vars
    PROVE  TypeInv'
<1>1. CASE LoopStep
  BY <1>1, AppendType, SendTimeoutType, HandlersType, SendingType, DrainType, ClosingType
     DEF LoopStep, TimeoutInv
<1>2. CASE UNCHANGED vars
  <2>1. IOType' /\ ChanType' /\ CallType' /\ RestType' /\ pending' = pending /\ UNCHANGED sendVars
    BY <1>2 DEF vars, TypeInv, IOType, ChanType, CallType, RestType,
                ioVars, chanVars, callVars, restVars
  <2> QED BY <2>1, SameSendVars
<1> QED BY <1>1, <1>2, SendersType, OthersType DEF Next

\* TypeInv is TypeOK and more.
LEMMA TypeInvImplies == TypeInv => TypeOK
BY DEF TypeInv, TypeOK, CoreType, IOType, ChanType, CallType, RestType, MapType

=============================================================================
