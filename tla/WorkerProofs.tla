---------------------------- MODULE WorkerProofs ----------------------------
(***************************************************************************)
(* Ownership of the batches of Worker, for every number of messages, batch *)
(* objects, ids and retries:                                               *)
(*                                                                         *)
(*   - TypeOK, for V1 and V3, TCP and UDP;                                 *)
(*   - BatchHasOneOwner, for V3, and for V1 over UDP (V1 over TCP keeps a  *)
(*     batch that gnet is writing in no map, see BatchReachable).          *)
(*                                                                         *)
(* BatchHasOneOwner is not inductive: a report that carries the id of the  *)
(* pending batch would finish it.  WorkerInv adds that ids are not used    *)
(* twice and that nothing refers to a batch before it is sent.             *)
(***************************************************************************)
EXTENDS WorkerLoopTypeProofs, WorkerStepProofs

-----------------------------------------------------------------------------
\* handleSendTimeout.
LEMMA TimeoutOwn ==
    ASSUME TypeInv, OwnInv, SendTimeoutTick \/ HandleSendTimeout
    PROVE  OwnInv'
<1>1. CASE SendTimeoutTick
  <2>1. /\ expired' \subseteq Unacked
        /\ UNCHANGED <<batch, unacked, retrying, timers, writes, pending, posts, usedIDs,
                       doneBatches, sendFailedBatches>>
    BY <1>1, Zenon DEF SendTimeoutTick, ioVars, chanVars
  <2>2. Aged /\ TimeoutInv' /\ Popped
    BY <2>1 DEF Aged, TimeoutInv, Unacked, Popped
  <2>3. Own({}, batch', pending, unacked', retrying')
    BY <2>1 DEF OwnInv
  <2> QED BY <2>1, <2>2, <2>3, QuietHandlerOwn
<1>2. CASE HandleSendTimeout
  <2>1. PICK id \in expired :
           /\ expired' = expired \ {id}
           /\ BackoffRetry([unacked EXCEPT ![id] = NoBatch], retrying, unacked[id],
                            IF expired' = {} THEN "select" ELSE "sendTimeout")
    BY <1>2, Zenon DEF HandleSendTimeout
  <2> DEFINE un == [unacked EXCEPT ![id] = NoBatch]
             b == unacked[id]
             next == IF expired' = {} THEN "select" ELSE "sendTimeout"
  <2>2. UNCHANGED <<writes, pending, posts, usedIDs, doneBatches, sendFailedBatches>>
    BY <1>2, Zenon DEF HandleSendTimeout, chanVars
  <2>3. id \in BatchIDs /\ b # NoBatch /\ expired \subseteq Unacked
    BY <1>2, Zenon DEF HandleSendTimeout, OwnInv, TimeoutInv, Unacked
  <2>4. b \in Batches /\ HasID(batch, b) /\ MapType(batch, un) /\ V1Empty(un) /\ un \in BatchMap
    BY <2>3 DEF TypeInv, MapType, V1Empty, BatchMap
  <2>e. Entry(b, id, batch, pending)
    BY <2>3, <2>4, OwnEntry DEF OwnInv
  <2>5. b \in LiveIn(batch) /\ batch[b].batchID = id
    BY <2>e DEF Entry
  <2>6. pending # NoBatch => batch[pending].batchID # id
    BY <2>e DEF Entry
  <2>u. retrying[id] = NoBatch
    BY <2>3 DEF OwnInv, Own
  <2>7. id \in usedIDs
    BY <2>5 DEF OwnInv, IDsUsed
  <2>8. [retrying EXCEPT ![id] = NoBatch] = retrying
    BY <2>3, <2>u, Maps DEF BatchMap
  <2>9. Own({b}, batch, pending, un, [retrying EXCEPT ![id] = NoBatch])
    BY <2>3, <2>4, Maps, TakeEntry DEF OwnInv
  <2>10. next \in Loops
    BY DEF Loops
  <2>11. \A i \in BatchIDs : i # id => un[i] = unacked[i]
    BY Maps DEF BatchMap
  <2> HIDE DEF un, b, next
  <2>12. BackoffRetry(un, retrying, b, next)
    BY <2>1 DEF un, b, next
  <2>13. Own({b}, batch, pending, un, retrying)
    BY <2>8, <2>9
  <2>14. /\ Own({}, batch', pending, unacked', retrying') /\ unacked' = un
         /\ \A t \in timers' : t \in timers \/ t.batchID = batch[b].batchID
    BY <2>4, <2>12, <2>13, Maps, BackoffOwn
  <2>15. Kept(next)
    BY <2>4, <2>10, <2>12, BackoffType DEF TypeInv, IOType
  <2>16. TimeoutInv'
    BY <2>1, <2>3, <2>11, <2>14 DEF TimeoutInv, Unacked
  <2>17. Aged /\ IOGrows(id) /\ Popped
    BY <2>2, <2>5, <2>14, <2>15 DEF Kept, IOGrows, Popped
  <2>18. Own({}, batch', pending', unacked', retrying')
    BY <2>2, <2>14
  <2> QED BY <2>2, <2>6, <2>7, <2>16, <2>17, <2>18, HandlerOwn
<1> QED BY <1>1, <1>2

\* What doneBatches says is not about the pending batch.
LEMMA DoneReqIsOld ==
    ASSUME TypeInv, OwnInv, doneBatches # <<>>
    PROVE  /\ Head(doneBatches).batchID \in BatchIDs
           /\ Head(doneBatches).batch \in Batches
           /\ Head(doneBatches).err \in Results
           /\ pending # NoBatch => batch[pending].batchID # Head(doneBatches).batchID
<1>1. doneBatches \in Seq(DoneReq)
  BY DEF TypeInv, ChanType
<1>2. Head(doneBatches) \in DoneReq
  BY <1>1, HeadTail
<1>3. Len(doneBatches) \in Nat \ {0} /\ Head(doneBatches) = doneBatches[1]
  BY <1>1
<1>4. ASSUME pending # NoBatch
      PROVE  batch[pending].batchID # Head(doneBatches).batchID
  <2>1. batch[pending].batchID \in BatchIDs
    BY <1>4 DEF TypeInv, HasID
  <2>2. Fresh(batch[pending].batchID)
    BY <1>4, <2>1 DEF OwnInv, FreshInv
  <2>3. 1 \in 1..Len(doneBatches)
    BY <1>3
  <2> QED BY <1>3, <2>2, <2>3 DEF Fresh
<1> QED BY <1>2, <1>4 DEF DoneReq

\* handleRetry.
LEMMA RetryOwn ==
    ASSUME TypeInv, OwnInv, Owned, retryBatches # <<>>, NEW retryOnFail \in BOOLEAN,
           NEW next \in Loops, next # "sendTimeout", Retry(retryOnFail, next),
           UNCHANGED <<pending, usedIDs, posts, doneBatches, sendFailedBatches>>
    PROVE  OwnInv'
<1> DEFINE id == Head(retryBatches).batchID
           b == Head(retryBatches).batch
<1>1. id \in BatchIDs /\ b \in Batches
  <2>1. Head(retryBatches) \in RetryReq
    BY HeadTail DEF TypeInv, ChanType
  <2> QED BY <2>1 DEF RetryReq
<1>2. CASE retrying[id] # b
  <2>1. Ignore(next) /\ writes' = writes
    BY <1>2, Zenon DEF Retry
  <2>2. Popped
    BY DEF Popped
  <2> QED BY <2>1, <2>2, IgnoreOwn
<1>3. CASE retrying[id] = b
  <2>1. SendBatch([retrying EXCEPT ![id] = NoBatch], b, retryOnFail, next)
    BY <1>3, Zenon DEF Retry
  <2> HIDE DEF id, b
  <2>2. retrying[id] # NoBatch
    BY <1>1, <1>3, ConstantsAssumption
  <2>3. SendBatch([retrying EXCEPT ![id] = NoBatch], retrying[id], retryOnFail, next)
    BY <1>3, <2>1
  <2> QED BY <1>1, <2>2, <2>3, SendRetryingOwn
<1> QED BY <1>2, <1>3

\* handleSendFailed.
LEMMA SendFailedOwn ==
    ASSUME TypeInv, OwnInv, Owned, HandleSendFailed
    PROVE  OwnInv'
<1> DEFINE r == Head(sendFailedBatches)
           id == r.batchID
           b == r.batch
           un == [unacked EXCEPT ![id] = NoBatch]
<1>1. /\ loop = "select" /\ sendFailedBatches # <<>> /\ sendFailedBatches' = Tail(sendFailedBatches)
      /\ UNCHANGED <<writes, pending, posts, usedIDs, doneBatches>>
  BY Zenon DEF HandleSendFailed, restVars
<1>2. IsV3
  BY <1>1 DEF Owned, OwnInv, NoLateFailure
<1>3. id \in BatchIDs /\ b \in Batches
  <2>1. r \in FailedReq
    BY <1>1, HeadTail DEF TypeInv, ChanType
  <2> QED BY <2>1 DEF FailedReq
<1>4. Popped
  BY <1>1 DEF Popped
<1>5. CASE Ignore("select")
  BY <1>1, <1>4, <1>5, IgnoreOwn
<1>6. CASE ~Ignore("select")
  <2>1. /\ unacked[id] = b
        /\ \/ BackoffRetry(un, retrying, b, "select")
           \/ DoneBatch(un, retrying, id, b, "writeFailed", "select") /\ timers' = timers
    BY <1>2, <1>6, Zenon DEF HandleSendFailed
  <2> HIDE DEF id, b
  <2>2. HasID(batch, b) /\ MapType(batch, un) /\ V1Empty(un) /\ un \in BatchMap /\ b # NoBatch
    BY <1>3, <2>1, ConstantsAssumption DEF TypeInv, MapType, V1Empty, BatchMap
  <2>e. Entry(b, id, batch, pending)
    BY <1>3, <2>1, OwnEntry DEF OwnInv
  <2>3. b \in LiveIn(batch) /\ batch[b].batchID = id
    BY <2>e DEF Entry
  <2>4. pending # NoBatch => batch[pending].batchID # id
    BY <2>e DEF Entry
  <2>u. retrying[id] = NoBatch
    BY <1>3, <2>1, <2>2 DEF OwnInv, Own
  <2>5. id \in usedIDs
    BY <2>3 DEF OwnInv, IDsUsed
  <2>6. [retrying EXCEPT ![id] = NoBatch] = retrying
    BY <1>3, <2>u, Maps DEF BatchMap
  <2>7. Own({b}, batch, pending, un, [retrying EXCEPT ![id] = NoBatch])
    BY <1>3, <2>1, Maps, TakeEntry DEF OwnInv
  <2> HIDE DEF un
  <2>8. Own({b}, batch, pending, un, retrying)
    BY <2>6, <2>7
  <2>9. "select" \in Loops /\ "writeFailed" \in Results
    BY DEF Loops, Results
  <2>10. CASE BackoffRetry(un, retrying, b, "select")
    <3>1. /\ Own({}, batch', pending, unacked', retrying')
          /\ \A t \in timers' : t \in timers \/ t.batchID = batch[b].batchID
      BY <1>3, <2>2, <2>8, <2>10, Maps, BackoffOwn
    <3>2. Kept("select")
      BY <1>3, <2>2, <2>9, <2>10, BackoffType DEF TypeInv, IOType
    <3>3. Aged /\ IOGrows(id) /\ TimeoutInv'
      BY <1>1, <2>3, <3>1, <3>2 DEF Kept, IOGrows, TimeoutInv
    <3>4. Own({}, batch', pending', unacked', retrying')
      BY <1>1, <3>1
    <3> QED BY <1>1, <1>4, <2>4, <2>5, <3>3, <3>4, HandlerOwn
  <2>11. CASE DoneBatch(un, retrying, id, b, "writeFailed", "select") /\ timers' = timers
    <3>1. DoneBatch(un, retrying, batch[b].batchID, b, "writeFailed", "select")
      BY <2>3, <2>11
    <3>2. Own({}, batch', pending, unacked', retrying')
      BY <1>3, <2>2, <2>8, <3>1, Maps, DoneBatchOwn
    <3>3. Kept("select")
      BY <1>3, <2>2, <2>9, <2>11, DoneBatchType DEF TypeInv
    <3>4. Aged /\ TimeoutInv'
      BY <3>3 DEF Kept, TimeoutInv
    <3> QED BY <1>1, <1>4, <2>11, <3>2, <3>4, QuietHandlerOwn
  <2> QED BY <2>1, <2>10, <2>11
<1> QED BY <1>5, <1>6

\* The handlers of doneBatches, retryBatches and responseBatches.
LEMMA HandlersOwn ==
    ASSUME TypeInv, OwnInv, Owned, HandleDone \/ HandleRetry \/ HandleRsp
    PROVE  OwnInv'
<1>0. "select" \in Loops /\ "ok" \in Results /\ "serverError" \in Results
  BY DEF Loops, Results
<1>1. CASE HandleDone
  <2> DEFINE r == Head(doneBatches)
  <2>1. /\ doneBatches # <<>> /\ doneBatches' = Tail(doneBatches)
        /\ DoneBatch(unacked, retrying, r.batchID, r.batch, r.err, "select")
        /\ UNCHANGED <<timers, writes, pending, usedIDs, posts, sendFailedBatches>>
    BY <1>1, Zenon DEF HandleDone, ioVars, restVars
  <2>2. /\ r.batchID \in BatchIDs /\ r.batch \in Batches /\ r.err \in Results
        /\ pending # NoBatch => batch[pending].batchID # r.batchID
    BY <2>1, DoneReqIsOld
  <2>3. Popped
    BY <2>1 DEF Popped
  <2> HIDE DEF r
  <2> QED BY <1>0, <2>1, <2>2, <2>3, DoneOwn
<1>2. CASE HandleRetry
  <2>1. /\ retryBatches # <<>> /\ Retry(TRUE, "select")
        /\ UNCHANGED <<pending, usedIDs, posts, doneBatches, sendFailedBatches>>
    BY <1>2, Zenon DEF HandleRetry, restVars
  <2> QED BY <1>0, <2>1, RetryOwn, Zenon
<1>3. CASE HandleRsp
  <2> DEFINE r == Head(responseBatches)
             id == r.batchID
             err == IF r.ok THEN "ok" ELSE "serverError"
             b == IF unacked[id] # NoBatch THEN unacked[id] ELSE retrying[id]
  <2>1. /\ responseBatches # <<>>
        /\ UNCHANGED <<writes, pending, usedIDs, posts, doneBatches, sendFailedBatches>>
    BY <1>3, Zenon DEF HandleRsp, restVars
  <2>2. id \in BatchIDs
    <3>1. r \in Rsp
      BY <2>1, HeadTail DEF TypeInv, ChanType
    <3> QED BY <3>1 DEF Rsp
  <2>3. Popped
    BY <2>1 DEF Popped
  <2>4. CASE b = NoBatch
    <3>1. Ignore("select")
      BY <1>3, <2>4, Zenon DEF HandleRsp
    <3> QED BY <2>1, <2>3, <3>1, IgnoreOwn
  <2>5. CASE b # NoBatch
    <3>1. DoneBatch(unacked, retrying, id, b, err, "select") /\ timers' = timers
      BY <1>3, <2>5, Zenon DEF HandleRsp
    <3>2. b \in Batches /\ err \in Results
      BY <1>0, <2>2, <2>5, Maps DEF BatchMap
    <3>3. b = unacked[id] \/ b = retrying[id]
      OBVIOUS
    <3> HIDE DEF id, b, err
    <3>4. Entry(b, id, batch, pending)
      BY <2>2, <3>2, <3>3, OwnEntry DEF OwnInv
    <3>5. pending # NoBatch => batch[pending].batchID # id
      BY <3>4 DEF Entry
    <3> QED BY <1>0, <2>1, <2>2, <2>3, <3>1, <3>2, <3>5, DoneOwn
  <2> QED BY <2>4, <2>5
<1> QED BY <1>1, <1>2, <1>3

\* The draining loops of handleClose.
LEMMA DrainOwn ==
    ASSUME TypeInv, OwnInv, Owned, DrainDone \/ DrainRetry \/ FlushRetrying
    PROVE  OwnInv'
<1>0. {"drainDone", "drainRetry", "flushRetrying", "register"} \subseteq Loops
  BY DEF Loops
<1>1. CASE DrainDone
  <2> DEFINE r == Head(doneBatches)
  <2>1. UNCHANGED <<writes, pending, usedIDs, posts, sendFailedBatches>>
    BY <1>1, Zenon DEF DrainDone
  <2>2. CASE drained < Len(doneBatches)
    <3>1. /\ doneBatches' = Tail(doneBatches) /\ timers' = timers
          /\ DoneBatch(unacked, retrying, r.batchID, r.batch, r.err, "drainDone")
      BY <1>1, <2>2, Zenon DEF DrainDone
    <3>2. doneBatches # <<>>
      BY <2>2 DEF TypeInv, ChanType, RestType
    <3>3. /\ r.batchID \in BatchIDs /\ r.batch \in Batches /\ r.err \in Results
          /\ pending # NoBatch => batch[pending].batchID # r.batchID
      BY <3>2, DoneReqIsOld
    <3>4. Popped
      BY <2>1, <3>1, <3>2 DEF Popped
    <3> HIDE DEF r
    <3> QED BY <1>0, <2>1, <3>1, <3>3, <3>4, DoneOwn
  <2>3. CASE ~(drained < Len(doneBatches))
    <3>1. Ignore("drainRetry") /\ doneBatches' = doneBatches
      BY <1>1, <2>3, Zenon DEF DrainDone
    <3>2. Popped
      BY <2>1, <3>1 DEF Popped
    <3> QED BY <2>1, <3>1, <3>2, IgnoreOwn
  <2> QED BY <2>2, <2>3
<1>2. CASE DrainRetry
  <2>1. UNCHANGED <<pending, usedIDs, posts, doneBatches, sendFailedBatches>>
    BY <1>2, Zenon DEF DrainRetry
  <2>2. CASE drained < Len(retryBatches)
    <3>1. Retry(FALSE, "drainRetry")
      BY <1>2, <2>2, Zenon DEF DrainRetry
    <3>2. retryBatches # <<>>
      BY <2>2 DEF TypeInv, ChanType, RestType
    <3> QED BY <1>0, <2>1, <3>1, <3>2, RetryOwn, Zenon
  <2>3. CASE ~(drained < Len(retryBatches))
    <3>1. Ignore("flushRetrying") /\ writes' = writes
      BY <1>2, <2>3, Zenon DEF DrainRetry
    <3>2. Popped
      BY <2>1 DEF Popped
    <3> QED BY <2>1, <3>1, <3>2, IgnoreOwn
  <2> QED BY <2>2, <2>3
<1>3. CASE FlushRetrying
  <2>1. UNCHANGED <<pending, usedIDs, posts, doneBatches, sendFailedBatches>>
    BY <1>3, Zenon DEF FlushRetrying, chanVars, restVars
  <2>2. CASE Retrying = {}
    <3>1. Ignore("register") /\ writes' = writes
      BY <1>3, <2>2, Zenon DEF FlushRetrying
    <3>2. Popped
      BY <2>1 DEF Popped
    <3> QED BY <2>1, <3>1, <3>2, IgnoreOwn
  <2>3. CASE Retrying # {}
    <3>1. PICK id \in Retrying :
             SendBatch([retrying EXCEPT ![id] = NoBatch], retrying[id], FALSE, "flushRetrying")
      BY <1>3, <2>3, Zenon DEF FlushRetrying
    <3>2. id \in BatchIDs /\ retrying[id] # NoBatch
      BY DEF Retrying
    <3> QED BY <1>0, <2>1, <3>1, <3>2, SendRetryingOwn, Zenon
  <2> QED BY <2>2, <2>3
<1> QED BY <1>1, <1>2, <1>3

\* The steps of the loop that move it and touch no owner.
LEMMA ClosingOwn ==
    ASSUME TypeInv, OwnInv,
           \/ HandleCleanMap \/ HandleClose \/ RegisterCallbacks
           \/ CloseAllState \/ CloseAllChans \/ StopLoop
    PROVE  OwnInv'
<1>1. /\ UNCHANGED <<timers, writes, pending, posts, usedIDs, doneBatches, sendFailedBatches>>
      /\ loop' # "sendTimeout"
  BY Zenon DEF HandleCleanMap, HandleClose, RegisterCallbacks, CloseAllState, CloseAllChans, StopLoop,
               ioVars, chanVars, restVars
<1>2. unacked' = unacked /\ retrying' = retrying
  <2>1. CASE HandleCleanMap
    BY <2>1, Maps DEF HandleCleanMap, BatchMap
  <2>2. CASE ~HandleCleanMap
    BY <2>2, Zenon DEF HandleClose, RegisterCallbacks, CloseAllState, CloseAllChans, StopLoop
  <2> QED BY <2>1, <2>2
<1>3. \A c \in Batches : /\ batch'[c].batchID = batch[c].batchID
                         /\ batch'[c].finished = batch[c].finished
  <2>1. CASE RegisterCallbacks
    <3>1. ASSUME NEW c \in Batches
          PROVE  batch'[c] = batch[c] \/ batch'[c] = [batch[c] EXCEPT !.callback = TRUE]
      BY <2>1 DEF RegisterCallbacks
    <3>2. \A c \in Batches : batch[c] \in BatchReq
      BY DEF TypeInv, CoreType
    <3> QED BY <3>1, <3>2, Zenon DEF BatchReq
  <2>2. CASE ~RegisterCallbacks
    <3>1. batch' = batch
      BY <2>2, Zenon DEF HandleCleanMap, HandleClose, CloseAllState, CloseAllChans, StopLoop
    <3> QED BY <3>1
  <2> QED BY <2>1, <2>2
<1>4. Own({}, batch', pending, unacked', retrying')
  BY <1>2, <1>3, SameLivesOwn DEF OwnInv
<1>5. Aged /\ Popped /\ TimeoutInv'
  BY <1>1, <1>3 DEF Aged, Popped, TimeoutInv
<1> QED BY <1>1, <1>4, <1>5, QuietHandlerOwn

\* All steps of the loop.
LEMMA LoopOwn ==
    ASSUME TypeInv, OwnInv, Owned, LoopStep
    PROVE  OwnInv'
BY SendingOwn, AppendOwn, TimeoutOwn, SendFailedOwn, HandlersOwn, DrainOwn, ClosingOwn DEF LoopStep

-----------------------------------------------------------------------------
\* The induction.

\* newWorker establishes the invariant.
LEMMA WorkerInvInit == Init => WorkerInv
<1> SUFFICES ASSUME Init PROVE WorkerInv
  OBVIOUS
<1>1. \A b \in Batches : batch[b].finished
  BY DEF Init, PooledBatch
<1>2. LiveIn(batch) = {}
  BY <1>1 DEF LiveIn
<1>3. pending = NoBatch /\ \A id \in BatchIDs : unacked[id] = NoBatch /\ retrying[id] = NoBatch
  BY DEF Init
<1>4. Own({}, batch, pending, unacked, retrying) /\ IDsUsed(batch, usedIDs)
  BY <1>2, <1>3 DEF Own, IDsUsed
<1>5. FreshInv
  <2>1. \A id \in BatchIDs : Fresh(id)
    BY DEF Init, Fresh
  <2> QED BY <2>1 DEF FreshInv
<1>6. NoLateFailure
  BY DEF Init, NoLateFailure
<1>7. TimeoutInv
  BY DEF Init, TimeoutInv
<1> QED BY <1>4, <1>5, <1>6, <1>7, TypeInit DEF WorkerInv, OwnInv

\* Every step of every goroutine keeps it.
LEMMA WorkerInvStep == WorkerInv /\ [Next]_vars => WorkerInv'
<1> SUFFICES ASSUME WorkerInv, [Next]_vars PROVE WorkerInv'
  OBVIOUS
<1>1. TypeInv /\ (Owned => OwnInv)
  BY DEF WorkerInv
<1>2. TimeoutInv
  BY <1>1 DEF Owned, OwnInv, TypeInv, TimeoutInv
<1>3. TypeInv'
  BY <1>1, <1>2, TypeStep
<1>4. ASSUME Owned
      PROVE  OwnInv'
  <2>1. CASE UNCHANGED vars
    <3>1. /\ UNCHANGED <<batch, unacked, retrying, loop, usedIDs, pending, expired>>
          /\ UNCHANGED <<timers, writes, posts, doneBatches, sendFailedBatches>>
      BY <2>1 DEF vars, sendVars, ioVars, chanVars, restVars
    <3>2. \A id \in BatchIDs : Fresh(id) => Fresh(id)'
      BY <3>1 DEF Fresh
    <3>3. NoLateFailure'
      BY <1>1, <1>4, <3>1 DEF OwnInv, NoLateFailure
    <3> QED BY <1>1, <1>4, <3>1, <3>2, <3>3, OutsideOwn
  <2>2. CASE LoopStep
    BY <1>1, <1>4, <2>2, LoopOwn
  <2> QED BY <1>1, <1>4, <2>1, <2>2, OthersOwn DEF Next
<1> QED BY <1>3, <1>4 DEF WorkerInv, Owned

\* The inductive invariant.
LEMMA WorkerInvariant == Spec => []WorkerInv
BY WorkerInvInit, WorkerInvStep, PTL DEF Spec

\* The worker's variables keep their types, for V1 and V3 over TCP and UDP:
\* the channels carry requests of their own kind and the maps hold batches that
\* were given an id.
THEOREM WorkerTypeCorrect == Spec => []TypeOK
<1>1. WorkerInv => TypeOK
  BY TypeInvImplies DEF WorkerInv
<1> QED BY <1>1, WorkerInvariant, PTL

\* V3, and V1 over UDP: sendBatch, backoffRetry, doneBatch, the handlers and
\* handleClose pass every batch that is not done from one of pendingBatches,
\* unackedBatches and retryingBatches to another, without losing it, listing it
\* twice or keeping it after it went back to batchPool.
THEOREM BatchOwnership ==
    ASSUME IsV3 \/ ~IsTCP
    PROVE  Spec => []BatchHasOneOwner
<1>1. WorkerInv => BatchHasOneOwner
  <2> SUFFICES ASSUME WorkerInv PROVE BatchHasOneOwner
    OBVIOUS
  <2>1. Own({}, batch, pending, unacked, retrying) /\ IDsUsed(batch, usedIDs) /\ TypeInv
    BY DEF WorkerInv, Owned, OwnInv
  <2>2. Live = LiveIn(batch)
    BY DEF Live, LiveIn
  <2>3. \A b \in Live : batch[b].batchID \in BatchIDs /\ b # NoBatch
    BY <2>1, <2>2, ConstantsAssumption DEF IDsUsed, TypeInv, RestType, LiveIn
  <2>4. pending # NoBatch => pending \in Live
    BY <2>1, <2>2 DEF Own
  <2>5. \A id \in BatchIDs :
          /\ unacked[id] # NoBatch => /\ unacked[id] \in Live /\ batch[unacked[id]].batchID = id
                                      /\ unacked[id] # pending
          /\ retrying[id] # NoBatch => /\ retrying[id] \in Live /\ batch[retrying[id]].batchID = id
                                       /\ retrying[id] # pending
          /\ unacked[id] = NoBatch \/ retrying[id] = NoBatch
    BY <2>1, <2>2 DEF Own
  <2>6. \A b \in Live : b = pending \/ unacked[batch[b].batchID] = b \/ retrying[batch[b].batchID] = b
    BY <2>1, <2>2 DEF Own
  <2> QED BY <2>3, <2>4, <2>5, <2>6 DEF BatchHasOneOwner
<1> QED BY <1>1, WorkerInvariant, PTL

=============================================================================
