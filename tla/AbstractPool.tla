---------------------------- MODULE AbstractPool ----------------------------
(***************************************************************************)
(* What a connection pool promises its users (EndpointRestrictedConnPool   *)
(* of connpool/connpool.go), and what it expects of them.  A connection is *)
(* fresh until it is dialled, then in the pool or with the user to whom    *)
(* Get has returned it, and gone once the pool has dropped it.  A gone     *)
(* connection never comes back; its name becomes fresh again when nothing  *)
(* refers to it.  Only the user who has a connection puts it back, once.   *)
(***************************************************************************)
CONSTANTS Conns, Users

VARIABLES
    where,     \* of each connection: "fresh", "pool", "gone" or a user
    asking     \* the users inside Get

poolVars == <<where, asking>>

Init ==
    /\ where \in [Conns -> {"fresh", "pool"}]
    /\ asking = {}

\* Dials, failed dials, expiry, rebalance, closed connections and forgotten names,
\* several at a time.
Manage ==
    /\ where' \in [Conns -> {"fresh", "pool", "gone"} \cup Users]
    /\ \A c \in Conns :
         \/ where'[c] = where[c]
         \/ where[c] = "fresh" /\ where'[c] = "pool"
         \/ where[c] = "pool" /\ where'[c] \in {"fresh", "gone"}
         \/ where[c] = "gone" /\ where'[c] = "fresh"
    /\ UNCHANGED asking

\* Get is called, and fails or returns a connection of the pool.
Ask(u) ==
    /\ u \notin asking
    /\ asking' = asking \cup {u}
    /\ UNCHANGED where

Refuse(u) ==
    /\ u \in asking
    /\ asking' = asking \ {u}
    /\ UNCHANGED where

Grant(u, c) ==
    /\ u \in asking
    /\ where[c] = "pool"
    /\ where' = [where EXCEPT ![c] = u]
    /\ asking' = asking \ {u}

\* Put: back into the pool, or dropped because the pool is closed.
Return(u, c) ==
    /\ where[c] = u
    /\ \E x \in {"pool", "gone"} : where' = [where EXCEPT ![c] = x]
    /\ UNCHANGED asking

Next ==
    \/ Manage
    \/ \E u \in Users :
         \/ Ask(u) \/ Refuse(u)
         \/ \E c \in Conns : Grant(u, c) \/ Return(u, c)

Spec == Init /\ [][Next]_poolVars

=============================================================================
