----------------------------- MODULE MCConnPool -----------------------------
\* Setups of ConnPool for TLC.
EXTENDS ConnPool, TLC

CONSTANTS a1, a2, c1, c2, u1, u2

\* Two endpoints come, go, fail and recover; one user.
Wide ==
    [initEndpoints |-> {a1, a2}, size |-> 2, hasLifetime |-> FALSE,
     reports |-> SUBSET {a1, a2}, closeErrors |-> BOOLEAN, callers |-> {u1}, closes |-> FALSE]

\* One endpoint, connections that grow old, a pool that fills up; two users; Close.
\* The only endpoint is never marked, so it does not matter if a close has an error.
Aging ==
    [initEndpoints |-> {a1}, size |-> 1, hasLifetime |-> TRUE,
     reports |-> {}, closeErrors |-> {TRUE}, callers |-> {u1, u2}, closes |-> TRUE]

\* One endpoint, one user; Close.
Small ==
    [initEndpoints |-> {a1}, size |-> 2, hasLifetime |-> FALSE,
     reports |-> {}, closeErrors |-> {TRUE}, callers |-> {u1}, closes |-> TRUE]

WideAndAging == {Wide, Aging}
OnlySmall == {Small}

Symmetry == Permutations(Conns) \cup Permutations(Users) \cup Permutations(Addrs)

=============================================================================
