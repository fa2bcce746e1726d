------------------------- MODULE WorkerBatchProofs --------------------------
(***************************************************************************)
(* What sendBatch, backoffRetry and doneBatch of Worker do to the          *)
(* ownership of batches.  Own has a parameter for the batches in the hands *)
(* of the handler that runs: a handler takes a batch out of a map and      *)
(* finishes it or puts it into another.                                    *)
(***************************************************************************)
EXTENDS WorkerTypeProofs

-----------------------------------------------------------------------------
\* Ownership of batches.

\* V1 over TCP has no owner for a batch that gnet is writing.
Owned == IsV3 \/ ~IsTCP

LiveIn(bt) == {b \in Batches : ~bt[b].finished}

\* Every live batch of bt is in X (in the hands of the handler that runs), or
\* pending (pe), or in one of the maps (un, re) under its own id; in one place
\* only, and no two live batches have the same id.
Own(X, bt, pe, un, re) ==
    /\ X \subseteq LiveIn(bt)
    /\ pe # NoBatch => pe \in LiveIn(bt) \ X
    /\ \A id \in BatchIDs :
          /\ un[id] # NoBatch => un[id] \in LiveIn(bt) \ X /\ un[id] # pe /\ bt[un[id]].batchID = id
          /\ re[id] # NoBatch => re[id] \in LiveIn(bt) \ X /\ re[id] # pe /\ bt[re[id]].batchID = id
          /\ un[id] = NoBatch \/ re[id] = NoBatch
    /\ \A b \in LiveIn(bt) \ X :
          b = pe \/ un[bt[b].batchID] = b \/ re[bt[b].batchID] = b
    /\ \A b, c \in LiveIn(bt) : bt[b].batchID = bt[c].batchID => b = c

\* buildBatchID has returned the ids of the live batches.
IDsUsed(bt, used) == \A b \in LiveIn(bt) : bt[b].batchID \in used

\* No timer, write or report carries id.
Fresh(id) ==
    /\ \A t \in timers : t.batchID # id
    /\ \A w \in writes : w.req.batchID # id
    /\ \A x \in posts : x.to = "done" => x.req.batchID # id
    /\ \A i \in 1..Len(doneBatches) : doneBatches[i].batchID # id

\* Nothing refers to the pending batch, it was never sent, nor to an unused id.
FreshInv ==
    \A id \in BatchIDs :
        id \notin usedIDs \/ (pending # NoBatch /\ id = batch[pending].batchID) => Fresh(id)

\* Only a write that gnet has queued can fail later.
NoLateFailure ==
    ~IsTCP => /\ writes = {} /\ sendFailedBatches = <<>>
              /\ \A x \in posts : x.to # "failed"

OwnInv ==
    /\ Own({}, batch, pending, unacked, retrying)
    /\ IDsUsed(batch, usedIDs)
    /\ FreshInv
    /\ NoLateFailure
    /\ TimeoutInv

WorkerInv == TypeInv /\ (Owned => OwnInv)

\* Lemmas about Own: taking a batch in hand, finishing it, changing other fields.

BatchMap == [BatchIDs -> Batches \cup {NoBatch}]

\* The batch b of a map entry is taken in hand.
LEMMA TakeEntry ==
    ASSUME NEW bt, NEW pe, NEW un \in BatchMap, NEW re \in BatchMap, Own({}, bt, pe, un, re),
           NEW id \in BatchIDs, NEW b \in Batches, un[id] = b \/ re[id] = b
    PROVE  Own({b}, bt, pe, [un EXCEPT ![id] = NoBatch], [re EXCEPT ![id] = NoBatch])
<1> DEFINE un2 == [un EXCEPT ![id] = NoBatch]
           re2 == [re EXCEPT ![id] = NoBatch]
<1>0. b # NoBatch
  BY ConstantsAssumption
<1>1. b \in LiveIn(bt) /\ bt[b].batchID = id /\ b # pe
  BY <1>0 DEF Own
<1>2. un2[id] = NoBatch /\ re2[id] = NoBatch
  BY DEF BatchMap
<1>3. \A i \in BatchIDs : i # id => un2[i] = un[i] /\ re2[i] = re[i]
  BY DEF BatchMap
<1>4. \A i \in BatchIDs : i # id => un[i] # b /\ re[i] # b
  BY <1>0, <1>1 DEF Own
<1>5. \A c \in LiveIn(bt) \ {b} : bt[c].batchID # id
  BY <1>1 DEF Own
<1> HIDE DEF un2, re2
<1>6. \A i \in BatchIDs :
          /\ un2[i] # NoBatch => un2[i] \in LiveIn(bt) \ {b} /\ un2[i] # pe /\ bt[un2[i]].batchID = i
          /\ re2[i] # NoBatch => re2[i] \in LiveIn(bt) \ {b} /\ re2[i] # pe /\ bt[re2[i]].batchID = i
          /\ un2[i] = NoBatch \/ re2[i] = NoBatch
  BY <1>2, <1>3, <1>4 DEF Own
<1>7. \A c \in LiveIn(bt) \ {b} :
          c = pe \/ un2[bt[c].batchID] = c \/ re2[bt[c].batchID] = c
  <2> SUFFICES ASSUME NEW c \in LiveIn(bt) \ {b}, c # pe
               PROVE  un2[bt[c].batchID] = c \/ re2[bt[c].batchID] = c
    OBVIOUS
  <2>1. un[bt[c].batchID] = c \/ re[bt[c].batchID] = c
    BY DEF Own
  <2>2. bt[c].batchID # id
    BY <1>5
  <2>3. un2[bt[c].batchID] = un[bt[c].batchID] /\ re2[bt[c].batchID] = re[bt[c].batchID]
    BY <2>2 DEF un2, re2, BatchMap
  <2> QED BY <2>1, <2>3
<1> QED BY <1>1, <1>6, <1>7 DEF Own, un2, re2

\* What the invariant says of an entry b of one of the maps.
Entry(b, id, bt, pe) ==
    /\ b \in LiveIn(bt) /\ bt[b].batchID = id /\ b # pe
    /\ pe # NoBatch => bt[pe].batchID # id

\* An entry of the maps is live, under its own id, and not pending.
LEMMA OwnEntry ==
    ASSUME NEW bt, NEW pe, NEW un, NEW re, Own({}, bt, pe, un, re),
           NEW id \in BatchIDs, NEW b \in Batches, un[id] = b \/ re[id] = b
    PROVE  Entry(b, id, bt, pe)
<1>0. b # NoBatch
  BY ConstantsAssumption
<1>1. b \in LiveIn(bt) /\ bt[b].batchID = id /\ b # pe
  BY <1>0 DEF Own
<1>2. /\ pe # NoBatch => pe \in LiveIn(bt)
      /\ \A c, d \in LiveIn(bt) : bt[c].batchID = bt[d].batchID => c = d
  BY DEF Own
<1> QED BY <1>1, <1>2 DEF Entry

\* The pending batch is taken in hand.
LEMMA TakePending ==
    ASSUME NEW bt, NEW pe \in Batches, NEW un, NEW re, Own({}, bt, pe, un, re)
    PROVE  Own({pe}, bt, NoBatch, un, re)
<1>1. pe # NoBatch
  BY ConstantsAssumption
<1> QED BY <1>1 DEF Own

\* The batch in hand is finished.
LEMMA FinishOwn ==
    ASSUME NEW bt, NEW bt2, NEW pe, NEW un, NEW re, NEW b \in Batches,
           Own({b}, bt, pe, un, re), bt2[b].finished,
           \A c \in Batches \ {b} : bt2[c] = bt[c]
    PROVE  Own({}, bt2, pe, un, re)
<1>1. LiveIn(bt2) = LiveIn(bt) \ {b}
  BY DEF LiveIn
<1>2. \A c \in LiveIn(bt2) : bt2[c] = bt[c]
  BY DEF LiveIn
<1> QED BY <1>1, <1>2 DEF Own

\* Only ids and finished matter.
LEMMA SameLivesOwn ==
    ASSUME NEW X, NEW bt, NEW bt2, NEW pe, NEW un, NEW re, Own(X, bt, pe, un, re),
           \A c \in Batches : /\ bt2[c].batchID = bt[c].batchID
                              /\ bt2[c].finished = bt[c].finished
    PROVE  Own(X, bt2, pe, un, re)
<1>1. LiveIn(bt2) = LiveIn(bt)
  BY DEF LiveIn
<1>2. \A c \in LiveIn(bt2) : bt2[c].batchID = bt[c].batchID
  BY DEF LiveIn
<1> QED BY <1>1, <1>2 DEF Own

\* The batch b in hand is live, not pending, and nobody else has its id.
Alone(b, bt, pe, un, re) ==
    /\ ~bt[b].finished /\ pe # b
    /\ un[bt[b].batchID] = NoBatch /\ re[bt[b].batchID] = NoBatch
    /\ \A c \in LiveIn(bt) \ {b} : bt[c].batchID # bt[b].batchID

\* Own says so of a batch in hand.
LEMMA InHand ==
    ASSUME NEW bt, NEW pe, NEW un, NEW re, NEW b \in Batches,
           Own({b}, bt, pe, un, re), HasID(bt, b)
    PROVE  Alone(b, bt, pe, un, re)
<1>1. b \in LiveIn(bt)
  BY DEF Own
<1>2. ~bt[b].finished
  BY <1>1 DEF LiveIn
<1>3. b # NoBatch
  BY ConstantsAssumption
<1> QED BY <1>1, <1>2, <1>3 DEF Own, HasID, Alone

\* b goes into one of the maps under its id.
LEMMA PutUnacked ==
    ASSUME NEW bt, NEW pe, NEW un \in BatchMap, NEW re, NEW b \in Batches,
           Own({b}, bt, pe, un, re), HasID(bt, b)
    PROVE  Own({}, bt, pe, [un EXCEPT ![bt[b].batchID] = b], re)
<1> DEFINE id == bt[b].batchID
           un2 == [un EXCEPT ![id] = b]
<1>0. id \in BatchIDs
  BY DEF HasID
<1>1. un2[id] = b /\ \A i \in BatchIDs : i # id => un2[i] = un[i]
  BY <1>0 DEF BatchMap
<1>a. Alone(b, bt, pe, un, re)
  BY InHand
<1>2. /\ b # NoBatch /\ b \in LiveIn(bt) /\ pe # b /\ re[id] = NoBatch
      /\ \A c \in LiveIn(bt) \ {b} : bt[c].batchID # id
  BY <1>a, ConstantsAssumption DEF LiveIn, Alone
<1>3. \A c \in LiveIn(bt) \ {b} : un2[bt[c].batchID] = un[bt[c].batchID]
  BY <1>2 DEF BatchMap
<1> HIDE DEF un2
<1> QED BY <1>0, <1>1, <1>2, <1>3 DEF Own, un2

\* The same for retryingBatches.
LEMMA PutRetrying ==
    ASSUME NEW bt, NEW pe, NEW un, NEW re \in BatchMap, NEW b \in Batches,
           Own({b}, bt, pe, un, re), HasID(bt, b)
    PROVE  Own({}, bt, pe, un, [re EXCEPT ![bt[b].batchID] = b])
<1> DEFINE id == bt[b].batchID
           re2 == [re EXCEPT ![id] = b]
<1>0. id \in BatchIDs
  BY DEF HasID
<1>1. re2[id] = b /\ \A i \in BatchIDs : i # id => re2[i] = re[i]
  BY <1>0 DEF BatchMap
<1>a. Alone(b, bt, pe, un, re)
  BY InHand
<1>2. /\ b # NoBatch /\ b \in LiveIn(bt) /\ pe # b /\ un[id] = NoBatch
      /\ \A c \in LiveIn(bt) \ {b} : bt[c].batchID # id
  BY <1>a, ConstantsAssumption DEF LiveIn, Alone
<1>3. \A c \in LiveIn(bt) \ {b} : re2[bt[c].batchID] = re[bt[c].batchID]
  BY <1>2 DEF BatchMap
<1> HIDE DEF re2
<1> QED BY <1>0, <1>1, <1>2, <1>3 DEF Own, re2

\* What the handlers do with a batch in hand.

\* doneBatch finishes the batch in hand and changes nothing else.
LEMMA DoneBatchOwn ==
    ASSUME CoreType, NEW b \in Batches, HasID(batch, b), NEW pe,
           NEW un \in BatchMap, NEW re \in BatchMap, Own({b}, batch, pe, un, re),
           NEW err, NEW next, DoneBatch(un, re, batch[b].batchID, b, err, next)
    PROVE  Own({}, batch', pe, unacked', retrying') /\ unacked' = un
<1> DEFINE id == batch[b].batchID
<1>1. id \in BatchIDs
  BY DEF HasID
<1>a. Alone(b, batch, pe, un, re)
  BY InHand
<1>2. un[id] = NoBatch /\ re[id] = NoBatch /\ ~batch[b].finished
  BY <1>a DEF Alone
<1>3. unacked' = [un EXCEPT ![id] = NoBatch] /\ retrying' = [re EXCEPT ![id] = NoBatch]
      /\ Done(b, err, next)
  BY <1>2 DEF DoneBatch, SameLife
<1>4. unacked' = un /\ retrying' = re
  BY <1>1, <1>2, <1>3 DEF BatchMap
<1>5. batch' = [batch EXCEPT ![b] = Recycled(b)]
  BY <1>2, <1>3 DEF Done
<1>6. Recycled(b).finished
  BY DEF Recycled, PooledBatch
<1>7. batch'[b].finished /\ \A c \in Batches \ {b} : batch'[c] = batch[c]
  BY <1>5, <1>6 DEF CoreType
<1> QED BY <1>4, <1>7, FinishOwn

\* A report or a response about some batch that is not pending: it is in one of
\* the maps, or finished, or the object lives another life.
LEMMA DoneRequestOwn ==
    ASSUME CoreType, unacked \in BatchMap, retrying \in BatchMap,
           Own({}, batch, pending, unacked, retrying),
           NEW id \in BatchIDs, NEW b \in Batches, pending # NoBatch => batch[pending].batchID # id,
           NEW err, NEW next, DoneBatch(unacked, retrying, id, b, err, next)
    PROVE  Own({}, batch', pending, unacked', retrying')
<1>0. b # NoBatch
  BY ConstantsAssumption
<1>1. CASE ~SameLife(id, b)
  BY <1>1 DEF DoneBatch
<1>2. CASE SameLife(id, b) /\ batch[b].finished
  <2>1. unacked[id] # b /\ retrying[id] # b
    BY <1>0, <1>2 DEF Own, LiveIn
  <2>2. unacked' = unacked /\ retrying' = retrying
    BY <2>1 DEF DoneBatch, BatchMap
  <2>3. batch' = batch
    BY <1>2 DEF DoneBatch, Done
  <2> QED BY <2>2, <2>3
<1>3. CASE SameLife(id, b) /\ ~batch[b].finished
  <2>1. b \in LiveIn(batch) /\ batch[b].batchID = id /\ b # pending
    BY <1>0, <1>3 DEF LiveIn, SameLife
  <2>2. unacked[id] = b \/ retrying[id] = b
    BY <2>1 DEF Own
  <2>3. unacked[id] \in {NoBatch, b} /\ retrying[id] \in {NoBatch, b}
    BY <1>0, <2>2 DEF Own
  <2>4. /\ unacked' = [unacked EXCEPT ![id] = NoBatch]
        /\ retrying' = [retrying EXCEPT ![id] = NoBatch]
        /\ Done(b, err, next)
    BY <1>3, <2>3 DEF DoneBatch
  <2>5. batch' = [batch EXCEPT ![b] = Recycled(b)]
    BY <1>3, <2>4 DEF Done
  <2>6. Recycled(b).finished
    BY DEF Recycled, PooledBatch
  <2>7. batch'[b].finished /\ \A c \in Batches \ {b} : batch'[c] = batch[c]
    BY <2>5, <2>6 DEF CoreType
  <2>8. Own({b}, batch, pending, [unacked EXCEPT ![id] = NoBatch], [retrying EXCEPT ![id] = NoBatch])
    BY <2>2, TakeEntry
  <2>9. Own({b}, batch, pending, unacked', retrying')
    BY <2>4, <2>8
  <2> QED BY <2>7, <2>9, FinishOwn
<1> QED BY <1>1, <1>2, <1>3

\* The timers and writes that appear carry the id i; only TCP queues writes.
IOGrows(i) ==
    /\ \A t \in timers' : t \in timers \/ t.batchID = i
    /\ \A w \in writes' : w \in writes \/ (IsTCP /\ w.req.batchID = i)

\* backoffRetry puts the batch in hand into retryingBatches or finishes it.
LEMMA BackoffOwn ==
    ASSUME CoreType, NEW b \in Batches, HasID(batch, b), NEW pe,
           NEW un \in BatchMap, NEW re \in BatchMap, Own({b}, batch, pe, un, re),
           NEW next, BackoffRetry(un, re, b, next)
    PROVE  /\ Own({}, batch', pe, unacked', retrying') /\ unacked' = un
           /\ \A t \in timers' : t \in timers \/ t.batchID = batch[b].batchID
<1> DEFINE id == batch[b].batchID
<1>a. Alone(b, batch, pe, un, re)
  BY InHand
<1>1. re[id] = NoBatch
  BY <1>a DEF Alone
<1>2. CASE batch[b].retries >= MaxRetries \/ state # "ready"
  <2>1. DoneBatch(un, re, id, b, "timeout", next) /\ timers' = timers
    BY <1>1, <1>2 DEF BackoffRetry
  <2>2. Own({}, batch', pe, unacked', retrying') /\ unacked' = un
    BY <2>1, DoneBatchOwn
  <2> QED BY <2>1, <2>2
<1>3. CASE ~(batch[b].retries >= MaxRetries \/ state # "ready")
  <2>1. /\ batch' = [batch EXCEPT ![b].retries = NextRetries(b)]
        /\ unacked' = un
        /\ retrying' = [re EXCEPT ![id] = b]
        /\ timers' = timers \cup {[batchID |-> id, batch |-> b, n |-> NextRetries(b)]}
    BY <1>1, <1>3 DEF BackoffRetry
  <2>2. \A c \in Batches : /\ batch'[c].batchID = batch[c].batchID
                           /\ batch'[c].finished = batch[c].finished
    BY <2>1 DEF CoreType, BatchReq
  <2>3. Own({}, batch, pe, unacked', retrying')
    BY <2>1, PutRetrying, Zenon
  <2>4. Own({}, batch', pe, unacked', retrying')
    BY <2>2, <2>3, SameLivesOwn
  <2> QED BY <2>1, <2>4
<1> QED BY <1>2, <1>3

\* sendBatch puts the batch in hand into one of the maps or finishes it.
LEMMA SendBatchOwn ==
    ASSUME CoreType, Owned, unacked \in BatchMap, NEW re \in BatchMap,
           NEW b \in Batches, HasID(batch, b), NEW pe, Own({b}, batch, pe, unacked, re),
           NEW retryOnFail, NEW next, SendBatch(re, b, retryOnFail, next)
    PROVE  Own({}, batch', pe, unacked', retrying') /\ IOGrows(batch[b].batchID)
<1> DEFINE id == batch[b].batchID
<1>1. ASSUME NEW err, DoneBatch(unacked, re, id, b, err, next), UNCHANGED <<timers, writes>>
      PROVE  Own({}, batch', pe, unacked', retrying') /\ IOGrows(id)
  <2>1. Own({}, batch', pe, unacked', retrying')
    BY <1>1, DoneBatchOwn
  <2> QED BY <1>1, <2>1 DEF IOGrows
<1>2. CASE WriteRefused(re, b, retryOnFail, next)
  <2>1. CASE state = "ready" /\ retryOnFail
    <3>1. BackoffRetry(unacked, re, b, next) /\ writes' = writes
      BY <1>2, <2>1 DEF WriteRefused
    <3>2. /\ Own({}, batch', pe, unacked', retrying')
          /\ \A t \in timers' : t \in timers \/ t.batchID = id
      BY <3>1, BackoffOwn
    <3> QED BY <3>1, <3>2 DEF IOGrows
  <2>2. CASE ~(state = "ready" /\ retryOnFail)
    <3>1. DoneBatch(unacked, re, id, b, "writeFailed", next) /\ UNCHANGED <<timers, writes>>
      BY <1>2, <2>2 DEF WriteRefused
    <3> QED BY <3>1, <1>1
  <2> QED BY <2>1, <2>2
<1>3. CASE WriteAccepted(re, b, retryOnFail, next)
  <2>1. IOGrows(id)
    BY <1>3 DEF WriteAccepted, IOGrows
  <2>2. CASE DoneWhenWritten /\ ~IsTCP
    <3>1. DoneBatch(unacked, re, id, b, "ok", next)
      BY <1>3, <2>2 DEF WriteAccepted
    <3>2. Own({}, batch', pe, unacked', retrying')
      BY <3>1, DoneBatchOwn
    <3> QED BY <2>1, <3>2
  <2>3. CASE ~(DoneWhenWritten /\ ~IsTCP)
    <3>0. IsV3
      BY <2>3 DEF Owned, DoneWhenWritten
    <3>1. /\ batch' = [batch EXCEPT ![b].sends = batch[b].sends + 1]
          /\ unacked' = [unacked EXCEPT ![id] = b]
          /\ retrying' = re
      BY <1>3, <2>3, <3>0 DEF WriteAccepted
    <3>2. \A c \in Batches : /\ batch'[c].batchID = batch[c].batchID
                             /\ batch'[c].finished = batch[c].finished
      BY <3>1 DEF CoreType, BatchReq
    <3>3. Own({}, batch, pe, unacked', retrying')
      BY <3>1, PutUnacked, Zenon
    <3>4. Own({}, batch', pe, unacked', retrying')
      BY <3>2, <3>3, SameLivesOwn
    <3> QED BY <2>1, <3>4
  <2> QED BY <2>2, <2>3
<1> QED BY <1>1, <1>2, <1>3 DEF SendBatch, ioVars

\* The ids of live batches stay used.
LEMMA IDsUsedAged ==
    ASSUME NEW used, IDsUsed(batch, used), Aged
    PROVE  IDsUsed(batch', used)
BY DEF IDsUsed, Aged, LiveIn

\* What is left in a channel was in it before.
LEMMA TailAvoids ==
    ASSUME NEW S, NEW s \in Seq(S), s # <<>>, NEW id,
           \A k \in 1..Len(s) : s[k].batchID # id
    PROVE  \A k \in 1..Len(Tail(s)) : Tail(s)[k].batchID # id
<1>1. Len(s) \in Nat /\ Len(Tail(s)) = Len(s) - 1 /\ \A k \in 1..Len(s) - 1 : Tail(s)[k] = s[k + 1]
  OBVIOUS
<1> QED BY <1>1

\* A handler takes at most the head of a channel.
Popped ==
    /\ \/ doneBatches' = doneBatches
       \/ doneBatches # <<>> /\ doneBatches' = Tail(doneBatches)
    /\ \/ sendFailedBatches' = sendFailedBatches
       \/ sendFailedBatches # <<>> /\ sendFailedBatches' = Tail(sendFailedBatches)

\* A handler may add timers and writes for the id i of a batch that it has taken.
LEMMA HandlerOwn ==
    ASSUME TypeInv, OwnInv, Aged, Own({}, batch', pending', unacked', retrying'),
           NEW i, IOGrows(i), i \in usedIDs,
           pending' = NoBatch \/ (pending' = pending /\ (pending # NoBatch => batch[pending].batchID # i)),
           posts' = posts, usedIDs' = usedIDs,
           Popped,
           TimeoutInv'
    PROVE  OwnInv'
<1>1. IDsUsed(batch', usedIDs')
  BY IDsUsedAged DEF OwnInv
<1>2. NoLateFailure'
  BY DEF OwnInv, NoLateFailure, IOGrows, Popped
<1>3. FreshInv'
  <2> SUFFICES ASSUME NEW id \in BatchIDs,
                      id \notin usedIDs' \/ (pending' # NoBatch /\ id = batch'[pending'].batchID)
               PROVE  Fresh(id)'
    BY DEF FreshInv
  <2>1. id # i /\ (id \notin usedIDs \/ (pending # NoBatch /\ id = batch[pending].batchID))
    BY DEF TypeInv, RestType, Aged
  <2>2. Fresh(id)
    BY <2>1 DEF OwnInv, FreshInv
  <2>a. doneBatches \in Seq(DoneReq) /\ \A k \in 1..Len(doneBatches) : doneBatches[k].batchID # id
    BY <2>2 DEF Fresh, TypeInv, ChanType
  <2>3. \A k \in 1..Len(doneBatches') : doneBatches'[k].batchID # id
    BY <2>a, TailAvoids DEF Popped
  <2> QED BY <2>1, <2>2, <2>3 DEF Fresh, IOGrows
<1> QED BY <1>1, <1>2, <1>3 DEF OwnInv

\* The same for a handler that adds none.
LEMMA QuietHandlerOwn ==
    ASSUME TypeInv, OwnInv, Aged, Own({}, batch', pending, unacked', retrying'),
           UNCHANGED <<timers, writes, pending, posts, usedIDs>>,
           Popped,
           TimeoutInv'
    PROVE  OwnInv'
<1>1. IDsUsed(batch', usedIDs')
  BY IDsUsedAged DEF OwnInv
<1>2. NoLateFailure'
  BY DEF OwnInv, NoLateFailure, Popped
<1>3. FreshInv'
  <2> SUFFICES ASSUME NEW id \in BatchIDs,
                      id \notin usedIDs' \/ (pending' # NoBatch /\ id = batch'[pending'].batchID)
               PROVE  Fresh(id)'
    BY DEF FreshInv
  <2>1. id \notin usedIDs \/ (pending # NoBatch /\ id = batch[pending].batchID)
    BY DEF TypeInv, RestType, Aged
  <2>2. Fresh(id)
    BY <2>1 DEF OwnInv, FreshInv
  <2>a. doneBatches \in Seq(DoneReq) /\ \A k \in 1..Len(doneBatches) : doneBatches[k].batchID # id
    BY <2>2 DEF Fresh, TypeInv, ChanType
  <2>3. \A k \in 1..Len(doneBatches') : doneBatches'[k].batchID # id
    BY <2>a, TailAvoids DEF Popped
  <2> QED BY <2>2, <2>3 DEF Fresh
<1> QED BY <1>1, <1>2, <1>3 DEF OwnInv

\* A goroutine outside the loop passes ids on.
LEMMA OutsideOwn ==
    ASSUME OwnInv, UNCHANGED <<batch, unacked, retrying, loop, usedIDs, pending, expired>>,
           \A id \in BatchIDs : Fresh(id) => Fresh(id)',
           NoLateFailure'
    PROVE  OwnInv'
<1>1. Own({}, batch, pending, unacked, retrying)'
  BY DEF OwnInv, Own, LiveIn
<1>2. IDsUsed(batch, usedIDs)'
  BY DEF OwnInv, IDsUsed, LiveIn
<1>3. FreshInv'
  BY DEF OwnInv, FreshInv
<1>4. TimeoutInv'
  BY DEF OwnInv, TimeoutInv, Unacked
<1> QED BY <1>1, <1>2, <1>3, <1>4 DEF OwnInv

\* A batch that comes from the pool becomes the pending one.
LEMMA NewOwn ==
    ASSUME NEW bt, NEW bt2, NEW un, NEW re, Own({}, bt, NoBatch, un, re),
           NEW b \in Batches, b \notin LiveIn(bt), ~bt2[b].finished,
           \A c \in LiveIn(bt) : bt[c].batchID # bt2[b].batchID,
           \A c \in Batches \ {b} : bt2[c] = bt[c]
    PROVE  Own({}, bt2, b, un, re)
<1>1. LiveIn(bt2) = LiveIn(bt) \cup {b}
  <2>1. \A c \in Batches : c \in LiveIn(bt2) <=> c \in LiveIn(bt) \/ c = b
    BY DEF LiveIn
  <2>2. LiveIn(bt2) \subseteq Batches /\ LiveIn(bt) \subseteq Batches
    BY DEF LiveIn
  <2> QED BY <2>1, <2>2
<1>2. \A c \in LiveIn(bt) : bt2[c] = bt[c] /\ c # b /\ c # NoBatch
  BY ConstantsAssumption DEF LiveIn
<1>3. /\ \A i \in BatchIDs :
            /\ un[i] # NoBatch => un[i] \in LiveIn(bt) /\ bt[un[i]].batchID = i
            /\ re[i] # NoBatch => re[i] \in LiveIn(bt) /\ bt[re[i]].batchID = i
            /\ un[i] = NoBatch \/ re[i] = NoBatch
      /\ \A c \in LiveIn(bt) : c = NoBatch \/ un[bt[c].batchID] = c \/ re[bt[c].batchID] = c
      /\ \A c, d \in LiveIn(bt) : bt[c].batchID = bt[d].batchID => c = d
  BY DEF Own
<1>4. \A c \in LiveIn(bt2) : c = b \/ un[bt2[c].batchID] = c \/ re[bt2[c].batchID] = c
  BY <1>1, <1>2, <1>3, SMTT(30)
<1>5. \A i \in BatchIDs :
        /\ un[i] # NoBatch => un[i] \in LiveIn(bt2) /\ un[i] # b /\ bt2[un[i]].batchID = i
        /\ re[i] # NoBatch => re[i] \in LiveIn(bt2) /\ re[i] # b /\ bt2[re[i]].batchID = i
        /\ un[i] = NoBatch \/ re[i] = NoBatch
  <2> SUFFICES ASSUME NEW i \in BatchIDs
               PROVE  /\ un[i] # NoBatch => un[i] \in LiveIn(bt2) /\ un[i] # b /\ bt2[un[i]].batchID = i
                      /\ re[i] # NoBatch => re[i] \in LiveIn(bt2) /\ re[i] # b /\ bt2[re[i]].batchID = i
                      /\ un[i] = NoBatch \/ re[i] = NoBatch
    OBVIOUS
  <2>1. un[i] # NoBatch => un[i] \in LiveIn(bt2) /\ un[i] # b /\ bt2[un[i]].batchID = i
    BY <1>1, <1>2, <1>3, SMTT(30)
  <2>2. re[i] # NoBatch => re[i] \in LiveIn(bt2) /\ re[i] # b /\ bt2[re[i]].batchID = i
    BY <1>1, <1>2, <1>3, SMTT(30)
  <2> QED BY <1>3, <2>1, <2>2
<1>6. \A c, d \in LiveIn(bt2) : bt2[c].batchID = bt2[d].batchID => c = d
  <2> SUFFICES ASSUME NEW c \in LiveIn(bt2), NEW d \in LiveIn(bt2), bt2[c].batchID = bt2[d].batchID
               PROVE  c = d
    OBVIOUS
  <2>1. (c = b \/ c \in LiveIn(bt)) /\ (d = b \/ d \in LiveIn(bt))
    BY <1>1
  <2>2. CASE c \in LiveIn(bt) /\ d \in LiveIn(bt)
    BY <1>2, <1>3, <2>2, SMTT(30)
  <2>3. CASE c = b /\ d \in LiveIn(bt)
    BY <1>2, <2>3
  <2>4. CASE c \in LiveIn(bt) /\ d = b
    BY <1>2, <2>4
  <2> QED BY <2>1, <2>2, <2>3, <2>4
<1> QED BY <1>1, <1>4, <1>5, <1>6 DEF Own

\* The parts of TypeInv that the lemmas above need.
LEMMA Maps == TypeInv => CoreType /\ unacked \in BatchMap /\ retrying \in BatchMap
BY DEF TypeInv, MapType, BatchMap

=============================================================================
