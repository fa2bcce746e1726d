-------------------------- MODULE WorkerStepProofs --------------------------
(***************************************************************************)
(* The steps of Worker that keep OwnInv: those of the callers, of close(), *)
(* of gnet and of the backoff goroutines, and those that fill and send the *)
(* pending batch.                                                          *)
(***************************************************************************)
EXTENDS WorkerBatchProofs

-----------------------------------------------------------------------------
\* Callers, close(), timers, gnet and posts: none of them moves a batch.
LEMMA OthersOwn ==
    ASSUME TypeInv, OwnInv, Owned,
           \/ \E m \in Msgs : SendStart(m) \/ SendAcquire(m) \/ SendEnqueue(m)
           \/ CloseCall \/ CloseDataChan \/ CloseStop
           \/ \E t \in timers : TimerFires(t) \/ TimerCancelled(t)
           \/ \E w \in writes : WriteDone(w) \/ WriteFails(w)
           \/ \E q \in wire : Response(q)
           \/ \E x \in posts : Post(x)
    PROVE  OwnInv'
<1> DEFINE Same == /\ UNCHANGED <<batch, unacked, retrying, loop, usedIDs, pending, expired>>
                   /\ UNCHANGED <<timers, writes, posts, doneBatches, sendFailedBatches>>
<1>1. CASE Same
  <2>1. \A id \in BatchIDs : Fresh(id) => Fresh(id)'
    BY <1>1 DEF Fresh
  <2>2. NoLateFailure'
    BY <1>1 DEF OwnInv, NoLateFailure
  <2> QED BY <1>1, <2>1, <2>2, OutsideOwn
<1>2. ASSUME NEW m \in Msgs, SendStart(m) \/ SendAcquire(m) \/ SendEnqueue(m)
      PROVE  Same
  BY <1>2 DEF SendStart, SendAcquire, SendEnqueue, sendVars, ioVars, chanVars, restVars
<1>3. ASSUME CloseCall \/ CloseDataChan \/ CloseStop
      PROVE  Same
  BY <1>3 DEF CloseCall, CloseDataChan, CloseStop, sendVars, ioVars, chanVars, restVars
<1>4. ASSUME NEW t \in timers, TimerFires(t)
      PROVE  OwnInv'
  <2>0. UNCHANGED <<batch, unacked, retrying, loop, usedIDs, pending, expired, writes,
                    doneBatches, sendFailedBatches>>
    BY <1>4 DEF TimerFires, sendVars, chanVars
  <2>1. \A x \in posts' : x \in posts \/ (x.to # "failed" /\ (x.to = "done" => x.req.batchID = t.batchID))
    <3> DEFINE y == IF state = "ready"
                      THEN [to |-> "retry", n |-> t.n, req |-> [batchID |-> t.batchID, batch |-> t.batch]]
                      ELSE [to |-> "done", n |-> t.n,
                            req |-> [batchID |-> t.batchID, batch |-> t.batch, err |-> "timeout"]]
    <3>1. posts' = posts \cup {y}
      BY <1>4, Zenon DEF TimerFires
    <3>2. y.to # "failed" /\ (y.to = "done" => y.req.batchID = t.batchID)
      OBVIOUS
    <3> HIDE DEF y
    <3> QED BY <3>1, <3>2
  <2>2. \A id \in BatchIDs : Fresh(id) => Fresh(id)'
    BY <1>4, <2>0, <2>1 DEF Fresh, TimerFires
  <2>3. NoLateFailure'
    BY <2>0, <2>1 DEF OwnInv, NoLateFailure
  <2> QED BY <2>0, <2>2, <2>3, OutsideOwn
<1>5. ASSUME NEW t \in timers, TimerCancelled(t)
      PROVE  OwnInv'
  <2>0. UNCHANGED <<batch, unacked, retrying, loop, usedIDs, pending, expired, writes, posts,
                    doneBatches, sendFailedBatches>>
    BY <1>5 DEF TimerCancelled, sendVars, chanVars, restVars
  <2>2. \A id \in BatchIDs : Fresh(id) => Fresh(id)'
    BY <1>5, <2>0 DEF Fresh, TimerCancelled
  <2>3. NoLateFailure'
    BY <2>0 DEF OwnInv, NoLateFailure
  <2> QED BY <2>0, <2>2, <2>3, OutsideOwn
<1>6. ASSUME NEW w \in writes, WriteDone(w)
      PROVE  OwnInv'
  <2>1. IsV3
    BY DEF Owned, OwnInv, NoLateFailure
  <2>0. UNCHANGED <<batch, unacked, retrying, loop, usedIDs, pending, expired, timers, posts,
                    doneBatches, sendFailedBatches>>
    BY <1>6, <2>1 DEF WriteDone, DoneWhenWritten, sendVars, chanVars, restVars
  <2>2. \A id \in BatchIDs : Fresh(id) => Fresh(id)'
    BY <1>6, <2>0 DEF Fresh, WriteDone
  <2>3. NoLateFailure'
    BY <1>6, <2>0 DEF OwnInv, NoLateFailure, WriteDone
  <2> QED BY <2>0, <2>2, <2>3, OutsideOwn
<1>7. ASSUME NEW w \in writes, WriteFails(w)
      PROVE  OwnInv'
  <2>1. IsTCP
    BY DEF OwnInv, NoLateFailure
  <2>0. UNCHANGED <<batch, unacked, retrying, loop, usedIDs, pending, expired, timers,
                    doneBatches, sendFailedBatches>>
    BY <1>7 DEF WriteFails, sendVars, chanVars
  <2>2. \A x \in posts' : x \in posts \/ (x.to = "done" => x.req.batchID = w.req.batchID)
    <3> DEFINE y == IF state = "ready"
                      THEN [to |-> "failed", n |-> w.req.n,
                            req |-> [batchID |-> w.req.batchID, batch |-> w.batch, retry |-> w.retry]]
                      ELSE [to |-> "done", n |-> w.req.n,
                            req |-> [batchID |-> w.req.batchID, batch |-> w.batch,
                                     err |-> "writeFailed"]]
    <3>1. posts' = posts \cup {y}
      BY <1>7, Zenon DEF WriteFails
    <3>2. y.to = "done" => y.req.batchID = w.req.batchID
      OBVIOUS
    <3> HIDE DEF y
    <3> QED BY <3>1, <3>2
  <2>3. \A id \in BatchIDs : Fresh(id) => Fresh(id)'
    BY <1>7, <2>0, <2>2 DEF Fresh, WriteFails
  <2>4. NoLateFailure'
    BY <2>1 DEF NoLateFailure
  <2> QED BY <2>0, <2>3, <2>4, OutsideOwn
<1>8. ASSUME NEW q \in wire, Response(q)
      PROVE  OwnInv'
  <2>0. UNCHANGED <<batch, unacked, retrying, loop, usedIDs, pending, expired, timers, writes,
                    doneBatches, sendFailedBatches>>
    BY <1>8 DEF Response, sendVars, chanVars
  <2>1. \A x \in posts' : x \in posts \/ x.to = "rsp"
    <3>1. PICK ok \in BOOLEAN :
             posts' = IF state = "closed" THEN posts
                      ELSE posts \cup {[to |-> "rsp", n |-> q.n,
                                        req |-> [batchID |-> q.batchID, ok |-> ok]]}
      BY <1>8, Zenon DEF Response
    <3> DEFINE y == [to |-> "rsp", n |-> q.n, req |-> [batchID |-> q.batchID, ok |-> ok]]
    <3>2. y.to = "rsp"
      OBVIOUS
    <3>3. posts' = posts \/ posts' = posts \cup {y}
      BY <3>1
    <3> HIDE DEF y
    <3> QED BY <3>2, <3>3
  <2>2. \A id \in BatchIDs : Fresh(id) => Fresh(id)'
    BY <2>0, <2>1 DEF Fresh
  <2>3. NoLateFailure'
    BY <2>0, <2>1 DEF OwnInv, NoLateFailure
  <2> QED BY <2>0, <2>2, <2>3, OutsideOwn
<1>9. ASSUME NEW x \in posts, Post(x)
      PROVE  OwnInv'
  <2>0. UNCHANGED <<batch, unacked, retrying, loop, usedIDs, pending, expired, timers, writes>>
    BY <1>9 DEF Post, sendVars, ioVars
  <2>1. posts' \subseteq posts
    BY <1>9 DEF Post
  <2>2. ASSUME NEW id \in BatchIDs, Fresh(id)
        PROVE  Fresh(id)'
    <3>1. doneBatches \in Seq(DoneReq)
      BY DEF TypeInv, ChanType
    <3>2. CASE x.to = "done" /\ ~chansClosed
      <4>1. doneBatches' = Append(doneBatches, x.req) /\ x.req.batchID # id /\ x.req \in DoneReq
        BY <1>9, <2>2, <3>2 DEF Post, Fresh, TypeInv, RestType, Posted
      <4>2. \A k \in 1..Len(doneBatches') : doneBatches'[k].batchID # id
        <5>1. \A k \in 1..Len(doneBatches) : doneBatches[k].batchID # id
          BY <2>2 DEF Fresh
        <5>2. /\ Len(doneBatches') = Len(doneBatches) + 1 /\ Len(doneBatches) \in Nat
              /\ \A k \in 1..Len(doneBatches) : doneBatches'[k] = doneBatches[k]
              /\ doneBatches'[Len(doneBatches) + 1] = x.req
          BY <3>1, <4>1, SMTT(30)
        <5> TAKE k \in 1..Len(doneBatches')
        <5>3. CASE k \in 1..Len(doneBatches)
          BY <5>1, <5>2, <5>3, SMTT(30)
        <5>4. CASE k = Len(doneBatches) + 1
          BY <4>1, <5>2, <5>4, SMTT(30)
        <5>5. k \in 1..Len(doneBatches) \/ k = Len(doneBatches) + 1
          BY <5>2, SMTT(30)
        <5> QED BY <5>3, <5>4, <5>5
      <4> QED BY <2>0, <2>1, <2>2, <4>2 DEF Fresh
    <3>3. CASE ~(x.to = "done" /\ ~chansClosed)
      <4>1. doneBatches' = doneBatches
        BY <1>9, <3>3 DEF Post
      <4> QED BY <2>0, <2>1, <2>2, <4>1 DEF Fresh
    <3> QED BY <3>2, <3>3
  <2>3. NoLateFailure'
    <3>1. ASSUME ~IsTCP
          PROVE  sendFailedBatches' = sendFailedBatches
      BY <1>9, <3>1 DEF OwnInv, NoLateFailure, Post
    <3> QED BY <2>0, <2>1, <3>1 DEF OwnInv, NoLateFailure
  <2> QED BY <2>0, <2>2, <2>3, OutsideOwn
<1> QED BY <1>1, <1>2, <1>3, <1>4, <1>5, <1>6, <1>7, <1>8, <1>9

\* Steps of the loop.

\* The pending batch is sent.
LEMMA SendPendingOwn ==
    ASSUME TypeInv, OwnInv, Owned, pending # NoBatch, NEW retryOnFail \in BOOLEAN,
           NEW next \in Loops, next # "sendTimeout",
           SendBatch(retrying, pending, retryOnFail, next),
           pending' = NoBatch, UNCHANGED <<usedIDs, posts, doneBatches, sendFailedBatches>>
    PROVE  OwnInv'
<1>1. pending \in Batches /\ HasID(batch, pending)
  BY DEF TypeInv, RestType
<1>2. Own({pending}, batch, NoBatch, unacked, retrying)
  BY <1>1, TakePending DEF OwnInv
<1>3. Own({}, batch', NoBatch, unacked', retrying') /\ IOGrows(batch[pending].batchID)
  BY <1>1, <1>2, Maps, SendBatchOwn
<1>4. Kept(next)
  BY <1>1, SendBatchType DEF TypeInv
<1>5. Aged /\ TimeoutInv'
  BY <1>4 DEF Kept, TimeoutInv
<1>6. batch[pending].batchID \in usedIDs
  BY DEF OwnInv, Own, IDsUsed
<1>7. Own({}, batch', pending', unacked', retrying') /\ Popped
  BY <1>3 DEF Popped
<1> QED BY <1>3, <1>5, <1>6, <1>7, HandlerOwn

\* A batch that backs off is sent.
LEMMA SendRetryingOwn ==
    ASSUME TypeInv, OwnInv, Owned, NEW id \in BatchIDs, retrying[id] # NoBatch,
           NEW retryOnFail \in BOOLEAN, NEW next \in Loops, next # "sendTimeout",
           SendBatch([retrying EXCEPT ![id] = NoBatch], retrying[id], retryOnFail, next),
           UNCHANGED <<pending, usedIDs, posts, doneBatches, sendFailedBatches>>
    PROVE  OwnInv'
<1> DEFINE b == retrying[id]
           re == [retrying EXCEPT ![id] = NoBatch]
<1>1. b \in Batches /\ HasID(batch, b) /\ MapType(batch, re) /\ re \in BatchMap
  BY DEF TypeInv, MapType, BatchMap
<1>e. Entry(b, id, batch, pending)
  BY <1>1, OwnEntry DEF OwnInv
<1>2. b \in LiveIn(batch) /\ batch[b].batchID = id
  BY <1>e DEF Entry
<1>3. pending # NoBatch => batch[pending].batchID # id
  BY <1>e DEF Entry
<1>u. unacked[id] = NoBatch
  BY DEF OwnInv, Own
<1>4. id \in usedIDs
  BY <1>2 DEF OwnInv, IDsUsed
<1>5. [unacked EXCEPT ![id] = NoBatch] = unacked
  BY <1>u, Maps DEF BatchMap
<1>6. Own({b}, batch, pending, [unacked EXCEPT ![id] = NoBatch], re)
  BY <1>1, Maps, TakeEntry DEF OwnInv
<1> HIDE DEF b, re
<1>7. SendBatch(re, b, retryOnFail, next)
  BY DEF b, re
<1>8. Own({b}, batch, pending, unacked, re)
  BY <1>5, <1>6
<1>9. Own({}, batch', pending, unacked', retrying') /\ IOGrows(batch[b].batchID)
  BY <1>1, <1>7, <1>8, Maps, SendBatchOwn
<1>10. Kept(next)
  BY <1>1, <1>7, SendBatchType DEF TypeInv
<1>11. Aged /\ TimeoutInv'
  BY <1>10 DEF Kept, TimeoutInv
<1>12. Own({}, batch', pending', unacked', retrying') /\ Popped /\ IOGrows(id)
  BY <1>2, <1>9 DEF Popped
<1> QED BY <1>3, <1>4, <1>11, <1>12, HandlerOwn

\* A request is ignored.
LEMMA IgnoreOwn ==
    ASSUME TypeInv, OwnInv, NEW next, next # "sendTimeout", Ignore(next), Popped,
           UNCHANGED <<writes, pending, usedIDs, posts>>
    PROVE  OwnInv'
<1>1. Aged /\ TimeoutInv' /\ timers' = timers
  BY DEF Ignore, Aged, TimeoutInv
<1>2. Own({}, batch', pending, unacked', retrying')
  BY DEF OwnInv, Ignore
<1> QED BY <1>1, <1>2, QuietHandlerOwn

\* A batch is finished on request.
LEMMA DoneOwn ==
    ASSUME TypeInv, OwnInv, NEW id \in BatchIDs, NEW b \in Batches, NEW err \in Results,
           NEW next \in Loops, next # "sendTimeout",
           pending # NoBatch => batch[pending].batchID # id,
           DoneBatch(unacked, retrying, id, b, err, next), Popped,
           UNCHANGED <<timers, writes, pending, usedIDs, posts>>
    PROVE  OwnInv'
<1>1. Kept(next)
  BY DoneBatchType DEF TypeInv
<1>2. Aged /\ TimeoutInv'
  BY <1>1 DEF Kept, TimeoutInv
<1>3. Own({}, batch', pending, unacked', retrying')
  BY Maps, DoneRequestOwn DEF OwnInv
<1> QED BY <1>2, <1>3, QuietHandlerOwn

\* The four places where the pending batch is sent.
LEMMA SendingOwn ==
    ASSUME TypeInv, OwnInv, Owned, SplitBatch \/ SendData \/ HandleBatchTimeout \/ FlushPending
    PROVE  OwnInv'
<1>0. {"append", "select", "drainDone"} \subseteq Loops
  BY DEF Loops
<1>1. CASE SplitBatch
  <2>1. /\ pending # NoBatch /\ SendBatch(retrying, pending, TRUE, "append") /\ pending' = NoBatch
        /\ UNCHANGED <<usedIDs, posts, doneBatches, sendFailedBatches>>
    BY <1>1, Zenon DEF SplitBatch, Overflows, chanVars
  <2> QED BY <1>0, <2>1, SendPendingOwn, Zenon
<1>2. CASE SendData
  <2>1. /\ pending # NoBatch /\ SendBatch(retrying, pending, TRUE, Home) /\ pending' = NoBatch
        /\ UNCHANGED <<usedIDs, posts, doneBatches, sendFailedBatches>>
    BY <1>2, Zenon DEF SendData, TypeInv, chanVars
  <2>2. Home \in Loops /\ Home # "sendTimeout"
    BY HomeType
  <2> QED BY <2>1, <2>2, SendPendingOwn, Zenon
<1>3. CASE HandleBatchTimeout
  <2>1. /\ pending # NoBatch /\ SendBatch(retrying, pending, TRUE, "select") /\ pending' = NoBatch
        /\ UNCHANGED <<usedIDs, posts, doneBatches, sendFailedBatches>>
    BY <1>3, Zenon DEF HandleBatchTimeout, chanVars
  <2> QED BY <1>0, <2>1, SendPendingOwn, Zenon
<1>4. CASE FlushPending
  <2>1. /\ pending' = NoBatch
        /\ UNCHANGED <<usedIDs, posts, doneBatches, sendFailedBatches>>
    BY <1>4, Zenon DEF FlushPending, chanVars
  <2>2. CASE pending # NoBatch
    <3>1. SendBatch(retrying, pending, FALSE, "drainDone")
      BY <1>4, <2>2, Zenon DEF FlushPending
    <3> QED BY <1>0, <2>1, <2>2, <3>1, SendPendingOwn, Zenon
  <2>3. CASE pending = NoBatch
    <3>1. Ignore("drainDone") /\ writes' = writes
      BY <1>4, <2>3, Zenon DEF FlushPending
    <3>2. Popped /\ pending' = pending
      BY <2>1, <2>3 DEF Popped
    <3> QED BY <2>1, <3>1, <3>2, IgnoreOwn
  <2> QED BY <2>2, <2>3
<1> QED BY <1>1, <1>2, <1>3, <1>4

\* handleSendData appends to the pending batch or starts a new one.
LEMMA AppendOwn ==
    ASSUME TypeInv, OwnInv, AppendData
    PROVE  OwnInv'
<1> DEFINE m == Head(dataChan)
           Add(r) == [r EXCEPT !.reqs = @ \cup {m}, !.dataSize = @ + Size[m]]
<1>0. /\ UNCHANGED <<timers, writes, posts, doneBatches, sendFailedBatches, unacked, retrying>>
      /\ loop' \in {"sendData", Home}
  BY Zenon DEF AppendData, ioVars, chanVars
<1>1. TimeoutInv'
  BY <1>0, HomeType DEF TimeoutInv
<1>2. \A r \in BatchReq : Add(r).batchID = r.batchID /\ Add(r).finished = r.finished
  BY DEF BatchReq
<1>3. batch \in [Batches -> BatchReq]
  BY DEF TypeInv, CoreType
<1>4. CASE pending # NoBatch
  <2>1. batch' = [batch EXCEPT ![pending] = Add(@)] /\ UNCHANGED <<pending, usedIDs>>
    BY <1>4, Zenon DEF AppendData
  <2>2. pending \in Batches
    BY <1>4 DEF TypeInv, RestType
  <2> HIDE DEF Add
  <2>3. \A c \in Batches : /\ batch'[c].batchID = batch[c].batchID
                           /\ batch'[c].finished = batch[c].finished
    BY <1>2, <1>3, <2>1, <2>2
  <2>4. Own({}, batch', pending, unacked', retrying')
    BY <1>0, <2>3, SameLivesOwn DEF OwnInv
  <2>5. Aged /\ Popped
    BY <1>0, <2>3 DEF Aged, Popped
  <2> QED BY <1>0, <1>1, <2>1, <2>4, <2>5, QuietHandlerOwn
<1>5. CASE pending = NoBatch
  <2>1. PICK b \in Batches \ Live, id \in BatchIDs \ usedIDs :
           /\ batch' = [batch EXCEPT ![b] = Add(NewBatch(id))]
           /\ pending' = b
           /\ usedIDs' = usedIDs \cup {id}
    BY <1>5, Zenon DEF AppendData
  <2>2. NewBatch(id) \in BatchReq /\ NewBatch(id).batchID = id /\ ~NewBatch(id).finished
    BY Zenon DEF NewBatch, PooledBatch, BatchReq
  <2>3. Add(NewBatch(id)).batchID = id /\ ~Add(NewBatch(id)).finished
    BY <1>2, <2>2, Zenon
  <2> HIDE DEF Add
  <2>4. /\ batch'[b].batchID = id /\ ~batch'[b].finished
        /\ \A c \in Batches \ {b} : batch'[c] = batch[c]
    BY <1>3, <2>1, <2>3
  <2>5. b \notin LiveIn(batch) /\ \A c \in LiveIn(batch) : batch[c].batchID # id
    BY DEF Live, LiveIn, OwnInv, IDsUsed
  <2>6. Own({}, batch, NoBatch, unacked, retrying)
    BY <1>5 DEF OwnInv
  <2>7. Own({}, batch', b, unacked, retrying)
    BY <2>4, <2>5, <2>6, NewOwn
  <2>8. Own({}, batch', pending', unacked', retrying')
    BY <1>0, <2>1, <2>7
  <2>9. IDsUsed(batch', usedIDs')
    BY <2>1, <2>4 DEF OwnInv, IDsUsed, LiveIn
  <2>10. FreshInv'
    <3> SUFFICES ASSUME NEW i \in BatchIDs,
                        i \notin usedIDs' \/ (pending' # NoBatch /\ i = batch'[pending'].batchID)
                 PROVE  Fresh(i)'
      BY DEF FreshInv
    <3>1. i \notin usedIDs
      BY <2>1, <2>4
    <3>2. Fresh(i)
      BY <3>1 DEF OwnInv, FreshInv
    <3> QED BY <1>0, <3>2 DEF Fresh
  <2>11. NoLateFailure'
    BY <1>0 DEF OwnInv, NoLateFailure
  <2> QED BY <1>1, <2>8, <2>9, <2>10, <2>11 DEF OwnInv
<1> QED BY <1>4, <1>5

=============================================================================
