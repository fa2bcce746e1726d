------------------------------ MODULE Semaphore ------------------------------
(***************************************************************************)
(* The counting semaphore of syncx/semaphore.go, one step per atomic       *)
(* operation on s.permits and per rendezvous on the unbuffered channel     *)
(* s.ch.  s.permits counts the holders AND the goroutines that queue on    *)
(* s.ch, so it may exceed maxPermits.                                      *)
(*                                                                         *)
(* A goroutine of Procs calls Acquire or TryAcquire, holds a permit and    *)
(* later releases it.  The context of a goroutine that waits may expire,   *)
(* MaxExpiries times in a behaviour (the bound of the counter expiries).   *)
(***************************************************************************)
EXTENDS Integers, FiniteSets

CONSTANTS
    Procs,       \* goroutines that use the semaphore
    maxPermits,  \* NewSemaphore's argument
    MaxExpiries  \* how many contexts expire while their goroutine waits

\* NewSemaphore panics unless maxPermits > 0.
ASSUME ConstantsAssumption ==
    /\ IsFiniteSet(Procs)
    /\ maxPermits \in Nat \ {0}
    /\ MaxExpiries \in Nat

VARIABLES
    permits,  \* s.permits
    pc,       \* what each goroutine is doing
    seen,     \* TryAcquire's local currentPermits, 0 when it is dead
    expiries  \* how many Acquires have given up so far

vars == <<permits, pc, seen, expiries>>

\* idle     outside the semaphore, without a permit
\* waiting  in Acquire's select
\* expired  Acquire's select took ctx.Done(), the counter is not yet undone
\* trying   TryAcquire has loaded currentPermits, the CAS is next
\* retrying TryAcquire's CAS failed, it loads again
\* holding  has a permit
\* handing  in Release, blocked on s.ch <- true
PCs == {"idle", "waiting", "expired", "trying", "retrying", "holding", "handing"}

At(label) == {p \in Procs : pc[p] = label}

Init ==
    /\ permits = 0
    /\ pc = [p \in Procs |-> "idle"]
    /\ seen = [p \in Procs |-> 0]
    /\ expiries = 0

\* Mutant: the comparison uses the counter from before the AddInt32.
AcquireAddStale(p) ==
    /\ pc[p] = "idle"
    /\ permits' = permits + 1
    /\ pc' = [pc EXCEPT ![p] = IF permits <= maxPermits THEN "holding" ELSE "waiting"]
    /\ UNCHANGED <<seen, expiries>>

\* AddInt32(+1), then return true or enter the select.
AcquireAdd(p) ==
    /\ pc[p] = "idle"
    /\ permits' = permits + 1
    /\ pc' = [pc EXCEPT ![p] = IF permits' <= maxPermits THEN "holding" ELSE "waiting"]
    /\ UNCHANGED <<seen, expiries>>

\* The select takes ctx.Done().
AcquireExpire(p) ==
    /\ pc[p] = "waiting"
    /\ expiries < MaxExpiries
    /\ pc' = [pc EXCEPT ![p] = "expired"]
    /\ expiries' = expiries + 1
    /\ UNCHANGED <<permits, seen>>

\* Mutant: the increment of a goroutine that gives up is not undone.
AcquireUndoForgotten(p) ==
    /\ pc[p] = "expired"
    /\ pc' = [pc EXCEPT ![p] = "idle"]
    /\ UNCHANGED <<permits, seen, expiries>>

\* AddInt32(-1), return false.
AcquireUndo(p) ==
    /\ pc[p] = "expired"
    /\ permits' = permits - 1
    /\ pc' = [pc EXCEPT ![p] = "idle"]
    /\ UNCHANGED <<seen, expiries>>

\* LoadInt32; with no permit left TryAcquire returns false.
TryLoad(p) ==
    /\ pc[p] \in {"idle", "retrying"}
    /\ IF permits >= maxPermits
         THEN /\ pc' = [pc EXCEPT ![p] = "idle"]
              /\ UNCHANGED seen
         ELSE /\ pc' = [pc EXCEPT ![p] = "trying"]
              /\ seen' = [seen EXCEPT ![p] = permits]
    /\ UNCHANGED <<permits, expiries>>

\* CompareAndSwapInt32(currentPermits, currentPermits + 1), or once more.
TryCAS(p) ==
    /\ pc[p] = "trying"
    /\ IF permits = seen[p]
         THEN /\ permits' = seen[p] + 1
              /\ pc' = [pc EXCEPT ![p] = "holding"]
         ELSE /\ pc' = [pc EXCEPT ![p] = "retrying"]
              /\ UNCHANGED permits
    /\ seen' = [seen EXCEPT ![p] = 0]
    /\ UNCHANGED expiries

\* Mutant: the comparison uses the counter from before the AddInt32.
ReleaseAddStale(p) ==
    /\ pc[p] = "holding"
    /\ permits' = permits - 1
    /\ pc' = [pc EXCEPT ![p] = IF permits >= maxPermits THEN "handing" ELSE "idle"]
    /\ UNCHANGED <<seen, expiries>>

\* AddInt32(-1), then return or go on to the blocking send.
ReleaseAdd(p) ==
    /\ pc[p] = "holding"
    /\ permits' = permits - 1
    /\ pc' = [pc EXCEPT ![p] = IF permits' >= maxPermits THEN "handing" ELSE "idle"]
    /\ UNCHANGED <<seen, expiries>>

\* Mutant: the goroutine that takes the permit over decrements the counter again.
HandOverCountsTwice(p, q) ==
    /\ pc[p] = "handing"
    /\ pc[q] = "waiting"
    /\ pc' = [pc EXCEPT ![p] = "idle", ![q] = "holding"]
    /\ permits' = permits - 1
    /\ UNCHANGED <<seen, expiries>>

\* s.ch is unbuffered: the send of p and the receive of q are one step.
HandOver(p, q) ==
    /\ pc[p] = "handing"
    /\ pc[q] = "waiting"
    /\ pc' = [pc EXCEPT ![p] = "idle", ![q] = "holding"]
    /\ UNCHANGED <<permits, seen, expiries>>

Next ==
    \E p \in Procs :
        \/ AcquireAdd(p)
        \/ AcquireExpire(p)
        \/ AcquireUndo(p)
        \/ TryLoad(p)
        \/ TryCAS(p)
        \/ ReleaseAdd(p)
        \/ \E q \in Procs : HandOver(p, q)

Spec == Init /\ [][Next]_vars

\* A goroutine that is inside an operation goes on, a holder releases some day
\* (the worker completes every message), and the runtime serves the goroutines
\* blocked in a send on s.ch in order, so that one that could be served again and
\* again is.  Nobody has to call Acquire, and no context has to expire.
Fairness ==
    \A p \in Procs :
        /\ WF_vars(AcquireUndo(p))
        /\ WF_vars(TryCAS(p))
        /\ WF_vars(pc[p] = "retrying" /\ TryLoad(p))
        /\ WF_vars(ReleaseAdd(p))
        /\ SF_vars(\E q \in Procs : HandOver(p, q))

FairSpec == Spec /\ Fairness

-----------------------------------------------------------------------------
\* Types of the counter and of the goroutines' states.
TypeOK ==
    /\ permits \in Nat
    /\ pc \in [Procs -> PCs]
    /\ seen \in [Procs -> Nat]
    /\ expiries \in 0..MaxExpiries

\* The counter of Acquire/TryAcquire/Release is exact: it counts the holders
\* and the goroutines still queued, one that gives up included until it has
\* undone its increment, and no goroutine in the middle of a Release.
PermitsAccounted ==
    permits = Cardinality(At("holding") \cup At("waiting") \cup At("expired"))

\* Cap(): never more than maxPermits goroutines hold a permit, except that every
\* Acquire whose context expired may have let in one more: Release had already
\* decided to hand its permit to that goroutine.
HoldersBounded == Cardinality(At("holding")) <= maxPermits + expiries

\* A releaser that is about to hand its permit over (Release's s.ch <- true) has
\* a goroutine of its own to hand it to, unless contexts expired.
EveryHandOverHasTaker ==
    Cardinality(At("handing")) <= Cardinality(At("waiting")) + expiries

\* Release() comes back as long as no context expires: its blocking send finds a
\* receiver.
ReleaseReturns == \A p \in Procs : pc[p] = "handing" ~> pc[p] = "idle" \/ expiries > 0

\* Release() comes back, whatever the contexts do: "one is selected and given the
\* permit that was just released" (the interface's comment on Release).
ReleaseAlwaysReturns == \A p \in Procs : pc[p] = "handing" ~> pc[p] = "idle"

=============================================================================
