--------------------------- MODULE SemaphoreProofs ---------------------------
(***************************************************************************)
(* Proofs about the semaphore of syncx/semaphore.go, for every finite set  *)
(* of goroutines and every number of permits.                              *)
(*                                                                         *)
(* The counter is exact whatever the contexts do (PermitsExact).  The      *)
(* goroutines that hold a permit, hand one over or are giving up are       *)
(* together at most min(permits, maxPermits) + expiries: HandOverInv.      *)
(* That is why Cap() is a bound (HoldersAtMostCap) and why a Release that  *)
(* blocks has a partner (HandOverHasTaker), up to one goroutine for every  *)
(* context that expired.                                                   *)
(***************************************************************************)
EXTENDS Semaphore, FiniteSetTheorems, TLAPS

\* The goroutines whose state in f is one of L.
In(f, L) == {p \in Procs : f[p] \in L}

Counted == {"holding", "waiting", "expired"}
Owning == {"holding", "handing", "expired"}

-----------------------------------------------------------------------------
\* How the number of goroutines in a set of states changes with one move.

\* Any set of goroutines is finite, and so has a natural number of members.
LEMMA InFinite ==
    ASSUME NEW f, NEW L
    PROVE  IsFiniteSet(In(f, L)) /\ Cardinality(In(f, L)) \in Nat
BY ConstantsAssumption, FS_Subset, FS_CardinalityType DEF In

\* A goroutine that enters the states L from outside adds one.
LEMMA Enter ==
    ASSUME NEW f \in [Procs -> PCs], NEW L, NEW p \in Procs, NEW b \in L, f[p] \notin L
    PROVE  Cardinality(In([f EXCEPT ![p] = b], L)) = Cardinality(In(f, L)) + 1
<1>1. In([f EXCEPT ![p] = b], L) = In(f, L) \cup {p}
  BY DEF In
<1>2. p \notin In(f, L)
  BY DEF In
<1>3. IsFiniteSet(In(f, L))
  BY InFinite
<1>4. Cardinality(In(f, L) \cup {p}) = Cardinality(In(f, L)) + 1
  BY <1>2, <1>3, FS_AddElement
<1> QED
  BY <1>1, <1>4

\* A goroutine that leaves the states L takes one away.
LEMMA Leave ==
    ASSUME NEW f \in [Procs -> PCs], NEW L, NEW p \in Procs, NEW b, b \notin L, f[p] \in L
    PROVE  Cardinality(In([f EXCEPT ![p] = b], L)) = Cardinality(In(f, L)) - 1
<1>1. In([f EXCEPT ![p] = b], L) = In(f, L) \ {p}
  BY DEF In
<1>2. p \in In(f, L)
  BY DEF In
<1>3. IsFiniteSet(In(f, L))
  BY InFinite
<1>4. Cardinality(In(f, L) \ {p}) = Cardinality(In(f, L)) - 1
  BY <1>2, <1>3, FS_RemoveElement
<1> QED
  BY <1>1, <1>4

\* A move inside L, or outside it, changes nothing.
LEMMA Stay ==
    ASSUME NEW f \in [Procs -> PCs], NEW L, NEW p \in Procs, NEW b, b \in L <=> f[p] \in L
    PROVE  In([f EXCEPT ![p] = b], L) = In(f, L)
BY DEF In

-----------------------------------------------------------------------------
\* The counter.

CounterInv == TypeOK /\ permits = Cardinality(In(pc, Counted))

\* PermitsAccounted in terms of In.
LEMMA AccountedIsCounted == PermitsAccounted <=> permits = Cardinality(In(pc, Counted))
<1>1. At("holding") \cup At("waiting") \cup At("expired") = In(pc, Counted)
  BY DEF At, In, Counted
<1> QED
  BY <1>1 DEF PermitsAccounted

\* A new semaphore has all permits.
LEMMA CounterInit == Init => CounterInv
<1> SUFFICES ASSUME Init PROVE CounterInv
  OBVIOUS
<1>1. TypeOK
  BY ConstantsAssumption DEF Init, TypeOK, PCs
<1>2. In(pc, Counted) = {}
  BY DEF Init, In, Counted
<1> QED
  BY <1>1, <1>2, FS_EmptySet DEF Init, CounterInv

\* Every atomic step keeps the counter exact.
LEMMA CounterStep == CounterInv /\ [Next]_vars => CounterInv'
<1> SUFFICES ASSUME CounterInv, [Next]_vars PROVE CounterInv'
  OBVIOUS
<1> USE DEF CounterInv, TypeOK
<1>0. In(pc, Counted)' = In(pc', Counted)
  BY DEF In
<1>1. ASSUME NEW p \in Procs, AcquireAdd(p) PROVE CounterInv'
  <2>1. Cardinality(In(pc', Counted)) = permits + 1
    BY <1>1, Enter DEF AcquireAdd, Counted
  <2> QED
    BY <1>0, <1>1, <2>1 DEF AcquireAdd, PCs
<1>2. ASSUME NEW p \in Procs, AcquireExpire(p) PROVE CounterInv'
  <2>1. In(pc', Counted) = In(pc, Counted)
    BY <1>2, Stay DEF AcquireExpire, Counted
  <2> QED
    BY <1>0, <1>2, <2>1, ConstantsAssumption DEF AcquireExpire, PCs
<1>3. ASSUME NEW p \in Procs, AcquireUndo(p) PROVE CounterInv'
  <2>1. Cardinality(In(pc', Counted)) = permits - 1
    BY <1>3, Leave DEF AcquireUndo, Counted
  <2>2. permits - 1 \in Nat
    BY <2>1, InFinite
  <2> QED
    BY <1>0, <1>3, <2>1, <2>2 DEF AcquireUndo, PCs
<1>4. ASSUME NEW p \in Procs, TryLoad(p) PROVE CounterInv'
  <2>1. In(pc', Counted) = In(pc, Counted)
    BY <1>4, Stay DEF TryLoad, Counted
  <2> QED
    BY <1>0, <1>4, <2>1 DEF TryLoad, PCs
<1>5. ASSUME NEW p \in Procs, TryCAS(p) PROVE CounterInv'
  <2>1. CASE permits = seen[p]
    <3>1. pc[p] = "trying" /\ pc' = [pc EXCEPT ![p] = "holding"]
      BY <1>5, <2>1 DEF TryCAS
    <3>2. "holding" \in Counted /\ pc[p] \notin Counted
      BY <3>1 DEF Counted
    <3>3. Cardinality(In(pc', Counted)) = permits + 1
      BY <3>1, <3>2, Enter
    <3> QED
      BY <1>0, <1>5, <2>1, <3>3 DEF TryCAS, PCs
  <2>2. CASE permits # seen[p]
    <3>1. pc[p] = "trying" /\ pc' = [pc EXCEPT ![p] = "retrying"]
      BY <1>5, <2>2 DEF TryCAS
    <3>2. "retrying" \notin Counted /\ pc[p] \notin Counted
      BY <3>1 DEF Counted
    <3>3. In(pc', Counted) = In(pc, Counted)
      BY <3>1, <3>2, Stay
    <3> QED
      BY <1>0, <1>5, <2>2, <3>3 DEF TryCAS, PCs
  <2> QED
    BY <2>1, <2>2
<1>6. ASSUME NEW p \in Procs, ReleaseAdd(p) PROVE CounterInv'
  <2>1. Cardinality(In(pc', Counted)) = permits - 1
    BY <1>6, Leave DEF ReleaseAdd, Counted
  <2>2. permits - 1 \in Nat
    BY <2>1, InFinite
  <2> QED
    BY <1>0, <1>6, <2>1, <2>2 DEF ReleaseAdd, PCs
<1>7. ASSUME NEW p \in Procs, NEW q \in Procs, HandOver(p, q) PROVE CounterInv'
  <2> DEFINE mid == [pc EXCEPT ![p] = "idle"]
  <2>1. mid \in [Procs -> PCs] /\ pc' = [mid EXCEPT ![q] = "holding"] /\ mid[q] = "waiting"
    BY <1>7 DEF HandOver, PCs
  <2>2. In(mid, Counted) = In(pc, Counted)
    BY <1>7, Stay DEF HandOver, Counted
  <2>3. In(pc', Counted) = In(mid, Counted)
    <3>1. "holding" \in Counted /\ mid[q] \in Counted
      BY <2>1 DEF Counted
    <3>2. mid \in [Procs -> PCs] /\ pc' = [mid EXCEPT ![q] = "holding"]
      BY <2>1
    <3> HIDE DEF mid
    <3> QED
      BY ONLY <3>1, <3>2, q \in Procs, Stay
  <2> QED
    BY <1>0, <1>7, <2>2, <2>3 DEF HandOver, PCs
<1>8. CASE UNCHANGED vars
  BY <1>8 DEF vars, In
<1> QED
  BY <1>1, <1>2, <1>3, <1>4, <1>5, <1>6, <1>7, <1>8 DEF Next

\* The type invariant of the counter and of the goroutines' states holds: in
\* particular permits never becomes negative in Release or in Acquire's undo.
THEOREM TypeCorrect == Spec => []TypeOK
<1>1. CounterInv => TypeOK
  BY DEF CounterInv
<1> QED
  BY CounterInit, CounterStep, <1>1, PTL DEF Spec

\* s.permits is exactly the number of goroutines that hold a permit, queue for
\* one or are giving up, whatever Acquire, TryAcquire and Release interleave.
THEOREM PermitsExact == Spec => []PermitsAccounted
<1>1. CounterInv => PermitsAccounted
  BY AccountedIsCounted DEF CounterInv
<1> QED
  BY CounterInit, CounterStep, <1>1, PTL DEF Spec

-----------------------------------------------------------------------------
\* Holders and hand-overs.

\* min(permits, maxPermits)
Capped(n) == IF n <= maxPermits THEN n ELSE maxPermits

HandOverInv ==
    /\ CounterInv
    /\ \A p \in Procs : pc[p] = "trying" => seen[p] < maxPermits
    /\ Cardinality(In(pc, Owning)) <= Capped(permits) + expiries

\* Nobody hands over at first.
LEMMA HandOverInit == Init => HandOverInv
<1> SUFFICES ASSUME Init PROVE HandOverInv
  OBVIOUS
<1>1. In(pc, Owning) = {}
  BY DEF Init, In, Owning
<1>2. Cardinality(In(pc, Owning)) <= Capped(permits) + expiries
  BY <1>1, FS_EmptySet, ConstantsAssumption DEF Init, Capped
<1> QED
  BY <1>2, CounterInit DEF Init, HandOverInv

\* Every atomic step keeps a taker for every hand-over, up to the expiries.
LEMMA HandOverStep == HandOverInv /\ [Next]_vars => HandOverInv'
<1> SUFFICES ASSUME HandOverInv, [Next]_vars PROVE HandOverInv'
  OBVIOUS
<1>0. CounterInv' /\ TypeOK /\ maxPermits \in Nat \ {0} /\ MaxExpiries \in Nat
  BY CounterStep, ConstantsAssumption DEF HandOverInv, CounterInv
<1>00. In(pc, Owning)' = In(pc', Owning)
  BY DEF In
<1> DEFINE n == Cardinality(In(pc, Owning))
           Tried == \A r \in Procs : pc'[r] = "trying" => seen'[r] < maxPermits
           Owners == Cardinality(In(pc', Owning)) <= Capped(permits') + expiries'
<1>01. n \in Nat /\ n <= Capped(permits) + expiries /\ permits \in Nat /\ expiries \in Nat
  BY <1>0, InFinite DEF HandOverInv, TypeOK
<1> SUFFICES Tried /\ Owners
  BY <1>0, <1>00 DEF HandOverInv, Capped
<1>1. ASSUME NEW p \in Procs, AcquireAdd(p) PROVE Tried /\ Owners
  <2>1. CASE permits + 1 <= maxPermits
    <3>1. pc[p] = "idle" /\ pc' = [pc EXCEPT ![p] = "holding"]
      BY <1>1, <2>1 DEF AcquireAdd
    <3>2. Cardinality(In(pc', Owning)) = n + 1
      BY <1>0, <3>1, Enter DEF Owning, TypeOK
    <3> QED
      BY <1>0, <1>01, <1>1, <2>1, <3>2 DEF AcquireAdd, HandOverInv, Capped, TypeOK
  <2>2. CASE ~(permits + 1 <= maxPermits)
    <3>1. pc[p] = "idle" /\ pc' = [pc EXCEPT ![p] = "waiting"]
      BY <1>1, <2>2 DEF AcquireAdd
    <3>2. In(pc', Owning) = In(pc, Owning)
      BY <1>0, <3>1, Stay DEF Owning, TypeOK
    <3> QED
      BY <1>0, <1>01, <1>1, <2>2, <3>2 DEF AcquireAdd, HandOverInv, Capped, TypeOK
  <2> QED
    BY <2>1, <2>2
<1>2. ASSUME NEW p \in Procs, AcquireExpire(p) PROVE Tried /\ Owners
  <2>1. Cardinality(In(pc', Owning)) = n + 1
    BY <1>0, <1>2, Enter DEF AcquireExpire, Owning, TypeOK
  <2> QED
    BY <1>0, <1>01, <1>2, <2>1 DEF AcquireExpire, HandOverInv, Capped, TypeOK
<1>3. ASSUME NEW p \in Procs, AcquireUndo(p) PROVE Tried /\ Owners
  <2>1. Cardinality(In(pc', Owning)) = n - 1
    BY <1>0, <1>3, Leave DEF AcquireUndo, Owning, TypeOK
  <2> QED
    BY <1>0, <1>01, <1>3, <2>1 DEF AcquireUndo, HandOverInv, Capped, TypeOK
<1>4. ASSUME NEW p \in Procs, TryLoad(p) PROVE Tried /\ Owners
  <2>1. In(pc', Owning) = In(pc, Owning)
    <3>1. pc \in [Procs -> PCs]
      BY <1>0 DEF TypeOK
    <3>2. pc[p] \notin Owning /\ "idle" \notin Owning /\ "trying" \notin Owning
      BY <1>4 DEF TryLoad, Owning
    <3>3. pc' = [pc EXCEPT ![p] = "idle"] \/ pc' = [pc EXCEPT ![p] = "trying"]
      BY <1>4 DEF TryLoad
    <3> QED
      BY ONLY <3>1, <3>2, <3>3, p \in Procs, Stay
  <2>2. Owners
    BY <1>4, <2>1 DEF TryLoad, HandOverInv
  <2>3. Tried
    BY <1>0, <1>4 DEF TryLoad, HandOverInv, TypeOK
  <2> QED
    BY <2>2, <2>3
<1>5. ASSUME NEW p \in Procs, TryCAS(p) PROVE Tried /\ Owners
  <2>1. CASE permits = seen[p]
    <3>1. pc[p] = "trying" /\ pc' = [pc EXCEPT ![p] = "holding"] /\ permits' = permits + 1
      BY <1>5, <2>1 DEF TryCAS
    <3>2. Cardinality(In(pc', Owning)) = n + 1
      BY <1>0, <3>1, Enter DEF Owning, TypeOK
    <3>3. permits < maxPermits
      BY <2>1, <3>1 DEF HandOverInv
    <3> QED
      BY <1>0, <1>01, <1>5, <3>1, <3>2, <3>3 DEF TryCAS, HandOverInv, Capped, TypeOK
  <2>2. CASE permits # seen[p]
    <3>1. pc[p] = "trying" /\ pc' = [pc EXCEPT ![p] = "retrying"] /\ permits' = permits
      BY <1>5, <2>2 DEF TryCAS
    <3>2. In(pc', Owning) = In(pc, Owning)
      BY <1>0, <3>1, Stay DEF Owning, TypeOK
    <3> QED
      BY <1>0, <1>5, <3>1, <3>2 DEF TryCAS, HandOverInv, TypeOK
  <2> QED
    BY <2>1, <2>2
<1>6. ASSUME NEW p \in Procs, ReleaseAdd(p) PROVE Tried /\ Owners
  <2>1. CASE permits - 1 >= maxPermits
    <3>1. pc[p] = "holding" /\ pc' = [pc EXCEPT ![p] = "handing"]
      BY <1>6, <2>1 DEF ReleaseAdd
    <3>2. In(pc', Owning) = In(pc, Owning)
      BY <1>0, <3>1, Stay DEF Owning, TypeOK
    <3> QED
      BY <1>0, <1>01, <1>6, <2>1, <3>2 DEF ReleaseAdd, HandOverInv, Capped, TypeOK
  <2>2. CASE ~(permits - 1 >= maxPermits)
    <3>1. pc[p] = "holding" /\ pc' = [pc EXCEPT ![p] = "idle"]
      BY <1>6, <2>2 DEF ReleaseAdd
    <3>2. Cardinality(In(pc', Owning)) = n - 1
      BY <1>0, <3>1, Leave DEF Owning, TypeOK
    <3> QED
      BY <1>0, <1>01, <1>6, <2>2, <3>2 DEF ReleaseAdd, HandOverInv, Capped, TypeOK
  <2> QED
    BY <2>1, <2>2
<1>7. ASSUME NEW p \in Procs, NEW q \in Procs, HandOver(p, q) PROVE Tried /\ Owners
  <2> DEFINE mid == [pc EXCEPT ![p] = "idle"]
  <2>1. /\ mid \in [Procs -> PCs]
        /\ pc' = [mid EXCEPT ![q] = "holding"]
        /\ pc[p] = "handing"
        /\ mid[q] = "waiting"
    BY <1>0, <1>7 DEF HandOver, PCs, TypeOK
  <2>2. Cardinality(In(mid, Owning)) = n - 1
    <3>1. pc \in [Procs -> PCs] /\ pc[p] \in Owning /\ "idle" \notin Owning
      BY <1>0, <2>1 DEF Owning, TypeOK
    <3> QED
      BY <3>1, Leave
  <2>3. Cardinality(In(pc', Owning)) = Cardinality(In(mid, Owning)) + 1
    BY <2>1, Enter DEF Owning
  <2>4. Owners
    BY <1>01, <1>7, <2>2, <2>3 DEF HandOver
  <2> QED
    BY <1>0, <1>7, <2>4 DEF HandOver, HandOverInv, TypeOK
<1>8. CASE UNCHANGED vars
  BY <1>8 DEF vars, HandOverInv
<1> QED
  BY <1>1, <1>2, <1>3, <1>4, <1>5, <1>6, <1>7, <1>8 DEF Next

\* Disjoint finite sets: the cardinality of the union is the sum.
LEMMA DisjointUnion ==
    ASSUME NEW S, NEW T, IsFiniteSet(S), IsFiniteSet(T), S \cap T = {}
    PROVE  Cardinality(S \cup T) = Cardinality(S) + Cardinality(T)
<1>1. Cardinality(S) \in Nat /\ Cardinality(T) \in Nat
  BY FS_CardinalityType
<1>2. Cardinality(S \cup T) = Cardinality(S) + Cardinality(T) - Cardinality(S \cap T)
  BY FS_Union
<1>3. Cardinality(S \cap T) = 0
  BY FS_EmptySet
<1> QED
  BY <1>1, <1>2, <1>3

\* The numbers of goroutines at three different places add up.
LEMMA ThreePlaces ==
    ASSUME NEW a, NEW b, NEW c, a # b, a # c, b # c
    PROVE  Cardinality(In(pc, {a, b, c}))
               = Cardinality(At(a)) + Cardinality(At(b)) + Cardinality(At(c))
<1>1. At(a) = In(pc, {a}) /\ At(b) = In(pc, {b}) /\ At(c) = In(pc, {c})
  BY DEF At, In
<1>2. In(pc, {a, b}) = At(a) \cup At(b) /\ In(pc, {a, b, c}) = In(pc, {a, b}) \cup At(c)
  BY DEF At, In
<1>3. At(a) \cap At(b) = {} /\ In(pc, {a, b}) \cap At(c) = {}
  BY DEF At, In
<1>4. /\ IsFiniteSet(At(a)) /\ IsFiniteSet(At(b)) /\ IsFiniteSet(At(c))
      /\ IsFiniteSet(In(pc, {a, b}))
  BY <1>1, InFinite
<1>5. Cardinality(In(pc, {a, b})) = Cardinality(At(a)) + Cardinality(At(b))
  BY <1>2, <1>3, <1>4, DisjointUnion
<1>6. Cardinality(In(pc, {a, b, c})) = Cardinality(In(pc, {a, b})) + Cardinality(At(c))
  BY <1>2, <1>3, <1>4, DisjointUnion
<1> QED
  BY <1>5, <1>6

\* The two consequences of the invariant.
LEMMA HandOverImplies == HandOverInv => HoldersBounded /\ EveryHandOverHasTaker
<1> SUFFICES ASSUME HandOverInv PROVE HoldersBounded /\ EveryHandOverHasTaker
  OBVIOUS
<1> DEFINE holding == Cardinality(At("holding"))
           handing == Cardinality(At("handing"))
           waiting == Cardinality(At("waiting"))
           giving == Cardinality(At("expired"))
<1>0. \A l : At(l) = In(pc, {l})
  BY DEF At, In
<1>1. holding \in Nat /\ handing \in Nat /\ waiting \in Nat /\ giving \in Nat
  BY <1>0, InFinite
<1>2. /\ Cardinality(In(pc, Owning)) = holding + handing + giving
      /\ Cardinality(In(pc, Counted)) = holding + waiting + giving
  <2>1. "holding" # "handing" /\ "holding" # "expired" /\ "handing" # "expired"
    OBVIOUS
  <2>2. Cardinality(In(pc, {"holding", "handing", "expired"})) = holding + handing + giving
    BY ONLY <2>1, ThreePlaces
  <2>3. "holding" # "waiting" /\ "holding" # "expired" /\ "waiting" # "expired"
    OBVIOUS
  <2>4. Cardinality(In(pc, {"holding", "waiting", "expired"})) = holding + waiting + giving
    BY ONLY <2>3, ThreePlaces
  <2> QED
    BY <2>2, <2>4 DEF Owning, Counted
<1>3. permits \in Nat /\ maxPermits \in Nat /\ expiries \in Nat
  BY ConstantsAssumption DEF HandOverInv, CounterInv, TypeOK
<1>4. permits = holding + waiting + giving
  BY <1>2 DEF HandOverInv, CounterInv
<1>5. holding + handing + giving <= Capped(permits) + expiries
  BY <1>2 DEF HandOverInv
<1> QED
  BY <1>1, <1>2, <1>3, <1>4, <1>5 DEF HoldersBounded, EveryHandOverHasTaker, Capped

\* Cap(): at most maxPermits goroutines hold a permit, and one more for every
\* Acquire that gave up, for every number of goroutines, permits and expiries.
THEOREM HoldersAtMostCap == Spec => []HoldersBounded
<1>1. HandOverInv => HoldersBounded
  BY HandOverImplies
<1> QED
  BY HandOverInit, HandOverStep, <1>1, PTL DEF Spec

\* Release's blocking send: while no context has expired there are at least as
\* many goroutines waiting for a permit as there are handing one over, and every
\* expiry can take the partner away from at most one of them.
THEOREM HandOverHasTaker == Spec => []EveryHandOverHasTaker
<1>1. HandOverInv => EveryHandOverHasTaker
  BY HandOverImplies
<1> QED
  BY HandOverInit, HandOverStep, <1>1, PTL DEF Spec
=============================================================================
